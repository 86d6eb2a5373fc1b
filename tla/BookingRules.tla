---------------------------- MODULE BookingRules ----------------------------
(***************************************************************************)
(* The vocabulary the services share: the built-in statuses of bookings    *)
(* and trips, the business phase of each (workflow_statuses, migration     *)
(* 000035), and the rules by which a booking row occupies seats            *)
(* (internal/bookingrules and the queries that repeat it).                 *)
(* A tenant may add statuses of its own; every rule below goes through the *)
(* phase of a status, so a custom status behaves as a built-in one of its  *)
(* phase.                                                                  *)
(***************************************************************************)
EXTENDS Integers

BookingStatus ==
  {"pending", "awaiting_payment", "cash_on_boarding", "confirmed",
   "passenger_arrived", "no_show", "completed", "cancelled", "expired"}

\* "none" marks a row identifier that no INSERT has used yet.
BookingPhase(s) ==
  CASE s = "pending" -> "pending"
    [] s = "awaiting_payment" -> "awaiting_payment"
    [] s \in {"cash_on_boarding", "confirmed", "passenger_arrived"} -> "confirmed"
    [] s \in {"no_show", "completed"} -> "completed"
    [] s \in {"cancelled", "expired"} -> "cancelled"
    [] OTHER -> "none"

TerminalBooking(s) == BookingPhase(s) \in {"completed", "cancelled"}

TripStatus ==
  {"draft", "new", "assigned", "boarding", "in_progress", "completed", "cancelled"}

\* Boarding is a stage of the phase "assigned".
TripPhase(s) ==
  CASE s = "new" -> "planned"
    [] s \in {"assigned", "boarding"} -> "assigned"
    [] OTHER -> s

TerminalTrip(s) == s \in {"completed", "cancelled"}

\* Phase changes a status command may make; a change inside a phase is free.
AllowedTripTransitions ==
  {<<"draft", "planned">>, <<"draft", "cancelled">>,
   <<"planned", "assigned">>, <<"planned", "cancelled">>,
   <<"assigned", "in_progress">>, <<"assigned", "cancelled">>,
   <<"in_progress", "completed">>, <<"in_progress", "cancelled">>}

\* A NULL payment_hold_expires_at. SQL comparisons with it are never true.
NoHold == -1

HoldLive(row, t) == row.hold > t
HoldDue(row, t) == row.hold # NoHold /\ row.hold <= t

\* OccupiedSQL: pending and confirmed bookings hold their seats, a booking
\* awaiting payment holds them while its hold lasts.
Occupies(row, t) ==
  \/ BookingPhase(row.status) \in {"pending", "confirmed"}
  \/ BookingPhase(row.status) = "awaiting_payment" /\ HoldLive(row, t)

\* Trip edits, boarding and added passengers also count travelled seats.
OccupiesOrTravelled(row, t) ==
  Occupies(row, t) \/ BookingPhase(row.status) = "completed"

\* The predicate of the unique index on (trip_id, customer_id).
UniquelyActive(s) ==
  s \in {"pending", "awaiting_payment", "cash_on_boarding", "confirmed"}
=============================================================================
