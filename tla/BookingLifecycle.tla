--------------------------- MODULE BookingLifecycle ---------------------------
(***************************************************************************)
(* What the booking and payment services together promise of a booking,    *)
(* without requests, webhooks or rooms: its status follows the two         *)
(* transition tables and the payment flow, and nobody is confirmed before  *)
(* a payment was recorded for the booking.                                 *)
(***************************************************************************)
CONSTANT Bookings

VARIABLES status,   \* as in the bookings table
          paid      \* bookings Stripe collected for, or cash was recorded for

lifecycleVars == <<status, paid>>

Init == status = [b \in Bookings |-> "NONE"] /\ paid = {}

Moves(b, from, to) ==
    /\ status[b] \in from
    /\ status' = [status EXCEPT ![b] = to]
    /\ UNCHANGED paid

Create(b)   == Moves(b, {"NONE"}, "PENDING")
Confirm(b)  == b \in paid /\ Moves(b, {"PENDING"}, "CONFIRMED")
CheckIn(b)  == Moves(b, {"CONFIRMED"}, "CHECKED_IN")
CheckOut(b) == Moves(b, {"CHECKED_IN"}, "CHECKED_OUT")
Cancel(b)   == Moves(b, {"PENDING", "CONFIRMED"}, "CANCELLED")

\* A payment may still arrive for a booking that has moved on: Stripe's answer can be late.
Pay(b) ==
    /\ status[b] # "NONE"
    /\ paid' = paid \cup {b}
    /\ UNCHANGED status

Next == \E b \in Bookings :
    Create(b) \/ Pay(b) \/ Confirm(b) \/ CheckIn(b) \/ CheckOut(b) \/ Cancel(b)

Spec == Init /\ [][Next]_lifecycleVars
===============================================================================
