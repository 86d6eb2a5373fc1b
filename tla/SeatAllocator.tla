---------------------------- MODULE SeatAllocator ----------------------------
(***************************************************************************)
(* What the sale of a trip promises, without clocks, payments, locks or    *)
(* transactions: seats are granted to one booking at a time and only       *)
(* within the capacity, and the capacity never falls below the seats       *)
(* granted.  A booking that gave its seats up gets them back only by a     *)
(* revival (a payment confirmed as its hold ended, a status set by hand),  *)
(* which nobody counts.                                                    *)
(***************************************************************************)
EXTENDS Integers, FiniteSets

CONSTANTS Bookings, MaxSeats

VARIABLES
  capacity,
  held,       \* seats of each booking
  gone,       \* bookings that are over
  revived     \* bookings that got seats uncounted

vars == <<capacity, held, gone, revived>>

Seats(h) == {p \in (Bookings \ revived) \X (1..MaxSeats) : p[2] <= h[p[1]]}

Fitting(h, n) == Cardinality(Seats(h)) <= n

Init == /\ capacity \in Nat
        /\ held = [b \in Bookings |-> 0]
        /\ gone = {} /\ revived = {}

Grant(b) ==
  /\ b \notin gone /\ held[b] = 0
  /\ \E n \in 1..MaxSeats : held' = [held EXCEPT ![b] = n]
  /\ Fitting(held', capacity)
  /\ UNCHANGED <<capacity, gone, revived>>

AddSeat(b) ==
  /\ held[b] \in 1..(MaxSeats - 1)
  /\ held' = [held EXCEPT ![b] = @ + 1]
  /\ Fitting(held', capacity)
  /\ UNCHANGED <<capacity, gone, revived>>

\* Bookings end together when a trip completes or several holds run out.
Retire(S) ==
  /\ S \cap gone = {}
  /\ held' = [b \in Bookings |-> IF b \in S THEN 0 ELSE held[b]]
  /\ gone' = gone \cup S
  /\ UNCHANGED <<capacity, revived>>

\* Several bookings that are over take seats again, whether there are any or not.
Revive(S) ==
  /\ S \subseteq gone
  /\ held' \in [Bookings -> 0..MaxSeats]
  /\ \A b \in Bookings : IF b \in S THEN held'[b] > 0 ELSE held'[b] = held[b]
  /\ gone' = gone \ S
  /\ revived' = revived \cup S
  /\ UNCHANGED capacity

Resize ==
  /\ capacity' \in Nat
  /\ Fitting(held, capacity')
  /\ UNCHANGED <<held, gone, revived>>

Next ==
  \/ \E b \in Bookings : Grant(b) \/ AddSeat(b)
  \/ \E S \in SUBSET Bookings : Retire(S) \/ Revive(S)
  \/ Resize

Spec == Init /\ [][Next]_vars
=============================================================================
