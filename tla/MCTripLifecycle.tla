-------------------------- MODULE MCTripLifecycle --------------------------
(***************************************************************************)
(* TripLifecycle for TLC.                                                  *)
(***************************************************************************)
EXTENDS TripLifecycle, TLC

CONSTANTS b1, b2, c1, c2, uah, eur

\* What dispatchers do by hand in the runs: note an arrival, cancel.
Moves ==
  {<<"cash_on_boarding", "passenger_arrived">>, <<"cash_on_boarding", "cancelled">>,
   <<"confirmed", "cancelled">>}

\* They may also send a booking to and fro between its payment and its journey.
MovesBack ==
  Moves \cup {<<"awaiting_payment", "passenger_arrived">>,
             <<"passenger_arrived", "awaiting_payment">>}

Symmetry == Permutations(Bookings)

CrewSymmetry == Permutations(Crews)
=============================================================================
