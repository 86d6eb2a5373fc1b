----------------------------- MODULE Departure -----------------------------
(* The driver's page starts a trip (components/driver-location-tracker.tsx): it  *)
(* reads the passenger list, asks him to confirm that everybody without a mark   *)
(* has not come, writes those absences one by one and then the departure.  The   *)
(* list itself (components/driver-passenger-manifest.tsx), another device and    *)
(* the office go on marking, selling and cancelling meanwhile; answers are lost  *)
(* and requests that were given up may still be carried out                      *)
(* (cmd/api/driver_checkin.go, main.go).                                         *)
EXTENDS Naturals

CONSTANTS
  Passengers,  \* bookings of one seat each
  MaxEvents,   \* bound: what others do, marks made by hand, attempts, failures
  None

DepartureAssumption == None \notin Passengers /\ MaxEvents \in Nat

VARIABLES
  trip,      \* "planned", "boarding" or "in_progress"
  due,       \* the time of departure has come
  approved,  \* the office allows to leave before it
  booking,   \* of each passenger: "awaiting" his bank payment, "paid", "cash", "byhand"
             \* (confirmed by the office without the payment) or "gone"
  mark,      \* of each passenger: "waiting", "boarded" or "absent"
  taken,     \* passengers whose cash was received
  attempt,   \* the attempt on the page: its stage, whom it named, who is left to write,
             \* the answer to its request
  late,      \* requests given up and not yet carried out: passengers and "leave"
  agreed,    \* history: those named in a question that the driver agreed to
  direct,    \* history: the last mark made by hand of each passenger
  list,      \* the list on the page: how many marks it knows of, how many of the page's
             \* own are acknowledged, the load under way, a failure
  marks,     \* how many marks were written
  events

vars == <<trip, due, approved, booking, mark, taken, attempt, late, agreed, direct, list,
          marks, events>>

Idle == [stage |-> "idle", named |-> {}, left |-> {}, writing |-> None, answer |-> "none"]
Event == events < MaxEvents /\ events' = events + 1
Confirmed(p) == booking[p] \in {"paid", "cash", "byhand"}
Active == {p \in Passengers : booking[p] # "gone"}

\* Before its time a trip leaves full, or with the office's leave (lib/trip-operations.ts).
TooEarly == ~due /\ ~approved /\ \E p \in Active : mark[p] # "boarded"

-----------------------------------------------------------------------------
\* One mark (driverCheckin): of a confirmed booking, of the value it had if the request
\* says which, and no absence of somebody who has paid.
AnyMark(p, m, expected) == Confirmed(p) /\ (m = "absent" => p \notin taken)
Accepts(p, m, expected) ==
  /\ Confirmed(p)
  /\ expected # None => mark[p] = expected
  /\ m = "absent" => p \notin taken

WriteMark(p, m) ==
  /\ mark' = [mark EXCEPT ![p] = m]
  /\ marks' = marks + 1
  /\ trip' = IF m = "boarded" /\ trip = "planned" THEN "boarding" ELSE trip

\* Another device of the driver marks a passenger.
MarkElsewhere(p, m) ==
  /\ Event /\ mark[p] # m /\ Accepts(p, m, None)
  /\ WriteMark(p, m) /\ direct' = [direct EXCEPT ![p] = m]
  /\ UNCHANGED <<due, approved, booking, taken, attempt, late, agreed, list>>

\* The list on this page does, and loads itself again: the load under way is aborted.
Reloads == [list EXCEPT !.load = "asked"]
WaitsItsTurn == IF list.load = None THEN Reloads ELSE list

MarkHere(p, m) ==
  /\ Event /\ mark[p] # m /\ Accepts(p, m, None)
  /\ WriteMark(p, m) /\ direct' = [direct EXCEPT ![p] = m]
  /\ list' = [Reloads EXCEPT !.acked = marks']
  /\ UNCHANGED <<due, approved, booking, taken, attempt, late, agreed>>

\* Cash is taken by the driver from somebody who came, by the owner from anybody.
TakeCash(p) ==
  /\ Event /\ p \notin taken /\ booking[p] = "cash"
  /\ taken' = taken \cup {p}
  /\ UNCHANGED <<trip, due, approved, booking, mark, attempt, late, agreed, direct, list, marks>>

\* A payment, the office's hand or a cancellation; each makes an approval void.
ChangeBooking(p, state) ==
  /\ Event
  /\ \/ booking[p] = "awaiting" /\ state # "awaiting"
     \/ Confirmed(p) /\ state = "gone"
  /\ booking' = [booking EXCEPT ![p] = state]
  /\ approved' = FALSE
  /\ UNCHANGED <<trip, due, mark, taken, attempt, late, agreed, direct, list, marks>>

\* The office approves an early departure (components/trip-early-departure.tsx).
Approve ==
  /\ Event /\ ~due /\ trip # "in_progress" /\ ~approved
  /\ approved' = TRUE
  /\ UNCHANGED <<trip, due, booking, mark, taken, attempt, late, agreed, direct, list, marks>>

TimeComes ==
  /\ ~due /\ due' = TRUE
  /\ UNCHANGED <<trip, approved, booking, mark, taken, attempt, late, agreed, direct, list,
                 marks, events>>

\* The office starts the trip itself; it is not asked about marks.
OfficeDeparts ==
  /\ Event /\ trip # "in_progress" /\ ~TooEarly
  /\ trip' = "in_progress"
  /\ UNCHANGED <<due, approved, booking, mark, taken, attempt, late, agreed, direct, list, marks>>

-----------------------------------------------------------------------------
\* The list: its loads.  A timer or a live message does not start a second one; a retry and
\* a mark made on the page abort the one under way.
Listen == list.load = None /\ Event /\ list' = Reloads
Retry == list.failed /\ Event /\ list' = Reloads
LoadReads == list.load = "asked" /\ list' = [list EXCEPT !.load = "read", !.got = marks] /\ UNCHANGED events
LoadArrives ==
  /\ list.load = "read" /\ UNCHANGED events
  /\ list' = [list EXCEPT !.load = None, !.known = list.got, !.failed = FALSE]
LoadFails == list.load # None /\ Event /\ list' = [list EXCEPT !.load = None, !.failed = TRUE]

ListStep ==
  /\ Listen \/ Retry \/ LoadReads \/ LoadArrives \/ LoadFails
  /\ UNCHANGED <<trip, due, approved, booking, mark, taken, attempt, late, agreed, direct, marks>>

-----------------------------------------------------------------------------
\* The attempt.  Whatever fails ends it with a message, and the button is free again.
Page(next) ==
  /\ attempt' = next
  /\ UNCHANGED <<due, approved, booking, taken, direct, list>>

Press ==
  /\ attempt = Idle /\ trip # "in_progress" /\ Event
  /\ Page([Idle EXCEPT !.stage = "reading"])
  /\ UNCHANGED <<trip, mark, late, agreed, marks>>

\* The list is read for the question: unpaid bank bookings are left out, those confirmed by
\* hand among them.
ReadList ==
  /\ attempt.stage = "reading"
  /\ Page(IF TooEarly THEN Idle
          ELSE LET S == {p \in Passengers : booking[p] \in {"paid", "cash"} /\ mark[p] = "waiting"}
               IN  [attempt EXCEPT !.stage = "asking", !.named = S, !.left = S])
  /\ UNCHANGED <<trip, mark, late, agreed, marks, events>>

Agree ==
  /\ attempt.stage = "asking"
  /\ Page([attempt EXCEPT !.stage = "writing"])
  /\ agreed' = agreed \cup attempt.named
  /\ UNCHANGED <<trip, mark, late, marks, events>>

\* The next absence, and after the last one the departure, is sent.
Send ==
  /\ attempt.stage = "writing" /\ attempt.writing = None
  /\ \/ attempt.left = {} /\ Page([attempt EXCEPT !.writing = "leave"])
     \/ \E p \in attempt.left : Page([attempt EXCEPT !.writing = p])
  /\ UNCHANGED <<trip, mark, late, agreed, marks, events>>

\* The server carries out one request of the page, or refuses it.  The departure of a
\* driver's page needs every confirmed passenger's mark.
MayLeave == trip # "in_progress" /\ ~TooEarly /\ \A p \in Passengers : Confirmed(p) => mark[p] # "waiting"

Perform(request) ==
  IF request = "leave"
  THEN trip' = "in_progress" /\ UNCHANGED <<mark, marks>>
  ELSE WriteMark(request, "absent")
Allowed(request) == IF request = "leave" THEN MayLeave ELSE Accepts(request, "absent", "waiting")

Serve ==
  /\ attempt.writing # None /\ attempt.answer = "none"
  /\ IF Allowed(attempt.writing)
     THEN Perform(attempt.writing) /\ Page([attempt EXCEPT !.answer = "ok"])
     ELSE Page([attempt EXCEPT !.answer = "refused"]) /\ UNCHANGED <<trip, mark, marks>>
  /\ UNCHANGED <<late, agreed, events>>

Hear ==
  /\ attempt.answer # "none"
  /\ Page(IF attempt.answer = "refused" \/ attempt.writing = "leave" THEN Idle
          ELSE [attempt EXCEPT !.left = @ \ {attempt.writing}, !.writing = None, !.answer = "none"])
  /\ UNCHANGED <<trip, mark, late, agreed, marks, events>>

\* The driver declines, an answer is lost or late, or the page is closed: a request that
\* the server has not carried out yet may still reach it.
GiveUp ==
  /\ attempt # Idle /\ Event
  /\ Page(Idle)
  /\ late' = IF attempt.writing # None /\ attempt.answer = "none" THEN late \cup {attempt.writing} ELSE late
  /\ UNCHANGED <<trip, mark, agreed, marks>>

LateRequest(request) ==
  /\ late' = late \ {request}
  /\ IF Allowed(request) THEN Perform(request) ELSE UNCHANGED <<trip, mark, marks>>
  /\ UNCHANGED <<due, approved, booking, taken, attempt, agreed, direct, list, events>>

Init ==
  /\ trip = "planned" /\ due \in BOOLEAN /\ approved = FALSE
  /\ booking \in [Passengers -> {"awaiting", "cash"}]
  /\ mark = [p \in Passengers |-> "waiting"] /\ direct = mark
  /\ taken = {} /\ attempt = Idle /\ late = {} /\ agreed = {}
  /\ list = [known |-> 0, acked |-> 0, load |-> "asked", got |-> 0, failed |-> FALSE]
  /\ marks = 0 /\ events = 0

Next ==
  \/ \E p \in Passengers :
       \/ \E m \in {"waiting", "boarded", "absent"} : MarkElsewhere(p, m) \/ MarkHere(p, m)
       \/ \E state \in {"paid", "cash", "byhand", "gone"} : ChangeBooking(p, state)
       \/ TakeCash(p)
  \/ Approve \/ TimeComes \/ OfficeDeparts \/ ListStep
  \/ Press \/ ReadList \/ Agree \/ Send \/ Serve \/ Hear \/ GiveUp
  \/ \E request \in late : LateRequest(request)

Spec == Init /\ [][Next]_vars

-----------------------------------------------------------------------------
(* Nobody is recorded absent unless somebody marked him so by hand or the driver  *)
(* agreed to a question that named him, and never over the mark of somebody who   *)
(* saw him board: the comparison in driverCheckin against the list that the page  *)
(* read before it asked.                                                          *)
AbsenceWasConfirmed ==
  \A p \in Passengers :
    mark[p] = "absent" => direct[p] = "absent" \/ (p \in agreed /\ direct[p] # "boarded")

(* The list knows every mark that this page was told is saved, or is being read   *)
(* again, or says that it could not be: the retry counter of the manifest.        *)
ListKnowsOwnMarks ==
  \/ list.known >= list.acked \/ list.failed \/ list.load = "asked"
  \/ list.load = "read" /\ list.got >= list.acked
=============================================================================
