----------------------------- MODULE MCParking -----------------------------
(* A small instance of Parking. *)
EXTENDS Parking

CONSTANTS ux, vx   \* unparkers

TwoUnparkers == {ux, vx}
=============================================================================
