------------------------------ MODULE RoomUpkeep ------------------------------
(***************************************************************************)
(* RoomService.update as far as it touches rooms.status, which             *)
(* BookingService.patchStatus writes too.  The handler loads the whole row *)
(* (preload), merges what the request's DTO holds and saves the row.  The  *)
(* DTO always holds a status: UpdateRoomDto inherits the initializer       *)
(* status = AVAILABLE of CreateRoomDto, so a request that names no status, *)
(* to change a room number say, makes the room AVAILABLE.                  *)
(***************************************************************************)
EXTENDS HotelState

CONSTANT StaffStatuses   \* statuses an admin may put in an update

ASSUME StaffAssumption == StaffStatuses \subseteq RoomStatus

\* The status of an update that names none.
UnnamedStatus == "AVAILABLE"

\* preload: `to` is the status of the merged row
UpdateRoomPreload(s) ==
    /\ \E m \in Rooms, to \in StaffStatuses \cup {UnnamedStatus} :
         Start(s, [Idle EXCEPT !.pc = "roomSave", !.room = m, !.to = to])
    /\ UNCHANGED <<bookingVars, roomVars, payVars, stripeVars, fails>>

\* save reads the row again and writes the status if it differs.  One column: to write it is
\* to write it at the UPDATE, to leave it is to have written it at the read.
UpdateRoomSave(s) ==
    /\ req[s].pc = "roomSave"
    /\ roomStatus' = [roomStatus EXCEPT ![req[s].room] = req[s].to]
    /\ roomWriter' = IF roomStatus[req[s].room] = req[s].to THEN roomWriter
                     ELSE [roomWriter EXCEPT ![req[s].room] = "STAFF"]
    /\ Finish(s)
    /\ UNCHANGED <<bookingVars, leftBehind, payVars, stripeVars, fails>>

RoomStep(s) == UpdateRoomSave(s)
RoomRequest(s) == UpdateRoomPreload(s)
================================================================================
