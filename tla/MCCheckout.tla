----------------------------- MODULE MCCheckout -----------------------------
(* Small instances of Checkout: one route, one trip, one or two seats.          *)
EXTENDS Checkout

Route == [t \in Trips |-> CHOOSE r \in Routes : TRUE]
=============================================================================
