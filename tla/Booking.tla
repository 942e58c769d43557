-------------------------------- MODULE Booking --------------------------------
(***************************************************************************)
(* BookingService: create and patchStatus, the two operations that write.  *)
(* create reads the stays of each requested room twice and then inserts in *)
(* a transaction; patchStatus reads the booking, saves it and then updates *)
(* its rooms, three statements in no transaction.                          *)
(***************************************************************************)
EXTENDS HotelState

CONSTANT Requests   \* the room lists clients may post: sets of stays

ASSUME RequestsAssumption == Requests \subseteq SUBSET Stay

\* The transition tables, as pairs <<from, to>>.
CUSTOMER_ALLOWED_TRANSITIONS ==
    {<<"PENDING", "CANCELLED">>, <<"CONFIRMED", "CANCELLED">>}

ADMIN_ONLY_TRANSITIONS ==
    {<<"PENDING", "CANCELLED">>,
     <<"CONFIRMED", "CHECKED_IN">>, <<"CONFIRMED", "CANCELLED">>,
     <<"CHECKED_IN", "CHECKED_OUT">>}

\* assertValidTransition, for an admin or for the customer who owns the booking
ValidTransition(from, to, isAdmin) ==
    <<from, to>> \in IF isAdmin THEN ADMIN_ONLY_TRANSITIONS
                                ELSE CUSTOMER_ALLOWED_TRANSITIONS

\* A booking blocks its rooms until it is cancelled or checked out.
Active(b) == status[b] \notin {"NONE", "CANCELLED", "CHECKED_OUT"}

\* Two stays collide: br.checkInDate < :checkOut AND br.checkOutDate > :checkIn.
Overlap(x, y) ==
    /\ x.room = y.room
    /\ x.checkIn < y.checkOut
    /\ x.checkOut > y.checkIn

\* Variant: only paid bookings block a room.
TakenByConfirmed(x) ==
    \E b \in Bookings : /\ status[b] \in {"CONFIRMED", "CHECKED_IN"}
                        /\ \E y \in stays[b] : Overlap(y, x)

\* The availability query both passes of create run for a requested stay.
Taken(x) == \E b \in Bookings : Active(b) /\ \E y \in stays[b] : Overlap(y, x)

--------------------------------------------------------------------------------
\* create: what is rejected before the first query (duplicate rooms, dates)
Acceptable(ask) ==
    /\ ask # {}
    /\ \A x, y \in ask : x.room = y.room => x = y
    /\ \A x \in ask : Today <= x.checkIn /\ x.checkIn < x.checkOut

CreateStart(s) ==
    /\ IdLeft({b \in Bookings : status[b] = "NONE"}, {"validate", "recheck", "insert"})
    /\ \E ask \in Requests :
         /\ Acceptable(ask)
         /\ Start(s, [Idle EXCEPT !.pc = "validate", !.ask = ask, !.todo = ask])
    /\ UNCHANGED <<bookingVars, roomVars, payVars, stripeVars, fails>>

\* The rooms are queried at the same time, so the answers come in any order; when the
\* last one is free, assertNoDoubleBooking starts over.
CreateValidateRoom(s) ==
    /\ req[s].pc = "validate"
    /\ \E x \in req[s].todo :
         /\ ~Taken(x)
         /\ LET left == req[s].todo \ {x}
            IN  Continue(s, IF left = {}
                            THEN [req[s] EXCEPT !.pc = "recheck", !.todo = req[s].ask]
                            ELSE [req[s] EXCEPT !.todo = left])
    /\ UNCHANGED <<bookingVars, roomVars, payVars, stripeVars, fails>>

CreateRecheckRoom(s) ==
    /\ req[s].pc = "recheck"
    /\ \E x \in req[s].todo :
         /\ ~Taken(x)
         /\ LET left == req[s].todo \ {x}
            IN  Continue(s, [req[s] EXCEPT !.pc = IF left = {} THEN "insert" ELSE "recheck",
                                           !.todo = left])
    /\ UNCHANGED <<bookingVars, roomVars, payVars, stripeVars, fails>>

\* Either pass finds a collision: 409, nothing written.
CreateConflict(s) ==
    /\ req[s].pc \in {"validate", "recheck"}
    /\ \E x \in req[s].todo : Taken(x)
    /\ Finish(s)
    /\ UNCHANGED <<bookingVars, roomVars, payVars, stripeVars, fails>>

\* The transaction: the booking and its rooms appear together, whatever was inserted
\* since the queries.  No step before this one depends on who the customer is.
CreateInsert(s) ==
    /\ req[s].pc = "insert"
    /\ \E b \in Bookings, u \in Users :
         /\ status[b] = "NONE"
         /\ status' = [status EXCEPT ![b] = "PENDING"]
         /\ owner' = [owner EXCEPT ![b] = u]
         /\ stays' = [stays EXCEPT ![b] = req[s].ask]
    /\ Finish(s)
    /\ UNCHANGED <<roomVars, payVars, stripeVars, fails>>

--------------------------------------------------------------------------------
\* patchStatus: the booking is read and the transition judged on what was read.  A
\* customer finds only his own bookings.
PatchStatusRead(s) ==
    /\ \E b \in Bookings, to \in BookingStatus, isAdmin \in BOOLEAN, u \in Users :
         /\ status[b] # "NONE"
         /\ isAdmin \/ owner[b] = u
         /\ ValidTransition(status[b], to, isAdmin)
         /\ Start(s, [Idle EXCEPT !.pc = "patchSave", !.b = b, !.to = to])
    /\ UNCHANGED <<bookingVars, roomVars, payVars, stripeVars, fails>>

\* save: UPDATE by id, with no condition on the status the row has by now.
PatchStatusSave(s) ==
    /\ req[s].pc = "patchSave"
    /\ status' = [status EXCEPT ![req[s].b] = req[s].to]
    /\ Continue(s, [req[s] EXCEPT !.pc = "patchRooms"])
    /\ UNCHANGED <<owner, stays, roomVars, payVars, stripeVars, fails>>

\* Variant: rooms are freed on cancellation only.
RoomStatusForNoCheckOut(to) ==
    IF to \in {"CHECKED_IN", "CHECKED_OUT"} THEN "OCCUPIED" ELSE "AVAILABLE"

\* Variant: the booking's status is written to the room.
RoomStatusForUntranslated(to) == to

\* What the status a booking took makes of its rooms.
RoomStatusFor(to) == IF to = "CHECKED_IN" THEN "OCCUPIED" ELSE "AVAILABLE"

RoomsOf(b) == {x.room : x \in stays[b]}

\* The booking's rooms, whatever their status is and whoever else is booked into them.
PatchStatusRooms(s) ==
    /\ req[s].pc = "patchRooms"
    /\ LET rooms == RoomsOf(req[s].b)
       IN  /\ roomStatus' = [m \in Rooms |-> IF m \in rooms THEN RoomStatusFor(req[s].to)
                                                            ELSE roomStatus[m]]
           /\ roomWriter' = [m \in Rooms |-> IF m \in rooms THEN "BOOKING"
                                                            ELSE roomWriter[m]]
    /\ Finish(s)
    /\ UNCHANGED <<bookingVars, leftBehind, payVars, stripeVars, fails>>

BookingStep(s) ==
    \/ CreateValidateRoom(s)
    \/ CreateRecheckRoom(s)
    \/ CreateConflict(s)
    \/ CreateInsert(s)
    \/ PatchStatusSave(s)
    \/ PatchStatusRooms(s)

BookingRequest(s) == CreateStart(s) \/ PatchStatusRead(s)
================================================================================
