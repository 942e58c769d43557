----------------------------- MODULE MCReservation -----------------------------
(* Model values and requests for checking Reservation with TLC. *)
EXTENDS Reservation, TLC

CONSTANTS r1, r2

MCDays == 1..4

Night(m, from, to) == [room |-> m, checkIn |-> from, checkOut |-> to]

\* One room, overlapping and adjacent stays.
OneRoom == {{Night(r1, 1, 3)}, {Night(r1, 2, 4)}, {Night(r1, 3, 4)}}

\* Two rooms in one booking, and each of them alone.
TwoRooms == {{Night(r1, 1, 3), Night(r2, 1, 2)}, {Night(r1, 2, 4)}, {Night(r2, 2, 3)}}

OneStay == {{Night(r1, 1, 2)}}

Symmetry == Permutations(Slots) \cup Permutations(Bookings) \cup Permutations(Intents)
================================================================================
