--------------------------- MODULE ReservationProofs ---------------------------
(***************************************************************************)
(* What is proved of Reservation: the types of the tables and of what a    *)
(* suspended handler carries; no booking is confirmed but by a payment     *)
(* Stripe collected or somebody recorded, whatever overlaps or fails; and  *)
(* with one request at a time no room is booked twice, no booking has two  *)
(* pending payments, the services implement BookingLifecycle and an        *)
(* occupied room has its guest.                                            *)
(***************************************************************************)
EXTENDS Reservation, TLAPS

--------------------------------------------------------------------------------
(***************************************************************************)
(* Type correctness of Reservation: the tables keep their types, and a     *)
(* suspended handler carries the local variables its next step needs.      *)
(***************************************************************************)

\* A table whose rows keep their types, apart from the requests in flight.
TablesOK ==
    /\ status \in [Bookings -> BookingStatus \cup {"NONE"}]
    /\ owner \in [Bookings -> Users \cup {None}]
    /\ stays \in [Bookings -> SUBSET Stay]
    /\ roomStatus \in [Rooms -> RoomStatus]
    /\ roomWriter \in [Rooms -> {"BOOKING", "STAFF"}]
    /\ leftBehind \subseteq Bookings
    /\ payStatus \in [Payments -> PaymentStatus \cup {"NONE"}]
    /\ payBooking \in [Payments -> Bookings \cup {None}]
    /\ adminCash \subseteq CashIds
    /\ intent \in [Intents -> {"NONE", "created", "open", "succeeded"}]
    /\ intentBooking \in [Intents -> Bookings \cup {None}]
    /\ events \subseteq Event
    /\ fails \in 0..MaxFails

LEMMA IdleOK == Idle \in Request /\ LocalOK(Idle)
  BY DEF Idle, Request, LocalOK

\* Moving one slot to a well-formed request keeps every slot well-formed.
LEMMA SlotMoves ==
    ASSUME TypeInv, NEW s \in Slots, NEW r \in Request, LocalOK(r),
           req' = [req EXCEPT ![s] = r], TablesOK'
    PROVE  TypeInv'
<1>1. req' \in [Slots -> Request] /\ \A t \in Slots : req'[t] = IF t = s THEN r ELSE req[t]
  BY DEF TypeInv, TypeOK
<1>2. LocalsOK'
  <2> SUFFICES ASSUME NEW t \in Slots PROVE LocalOK(req[t])'
    BY DEF LocalsOK
  <2>1. CASE t = s
    BY <1>1, <2>1 DEF LocalOK
  <2>2. CASE t # s
    BY <1>1, <2>2 DEF LocalOK, TypeInv, LocalsOK
  <2> QED BY <2>1, <2>2
<1> QED BY <1>1, <1>2 DEF TypeInv, TypeOK, TablesOK

LEMMA InitTypes == Init => TypeInv
<1> SUFFICES ASSUME Init PROVE TypeInv
  OBVIOUS
<1>1. req \in [Slots -> Request] /\ \A s \in Slots : LocalOK(req[s])
  BY IdleOK DEF Init
<1>2. fails \in 0..MaxFails
  BY BoundsAssumption DEF Init
<1>3. stays \in [Bookings -> SUBSET Stay]
  BY DEF Init
<1>4. /\ status \in [Bookings -> BookingStatus \cup {"NONE"}]
      /\ owner \in [Bookings -> Users \cup {None}]
      /\ roomStatus \in [Rooms -> RoomStatus]
      /\ roomWriter \in [Rooms -> {"BOOKING", "STAFF"}]
      /\ leftBehind \subseteq Bookings /\ adminCash \subseteq CashIds
      /\ payStatus \in [Payments -> PaymentStatus \cup {"NONE"}]
      /\ payBooking \in [Payments -> Bookings \cup {None}]
      /\ intent \in [Intents -> {"NONE", "created", "open", "succeeded"}]
      /\ intentBooking \in [Intents -> Bookings \cup {None}]
      /\ events \subseteq Event
  BY DEF Init, RoomStatus
<1> QED BY <1>1, <1>2, <1>3, <1>4 DEF TypeInv, TypeOK, LocalsOK

\* One step per action; each builds the request the slot moves to and checks the tables.
LEMMA TypeStep == TypeInv /\ [Next]_vars => TypeInv'
<1> SUFFICES ASSUME TypeInv, [Next]_vars PROVE TypeInv'
  OBVIOUS
<1> USE IdleOK
<1>a. TablesOK /\ req \in [Slots -> Request]
  BY DEF TypeInv, TypeOK, TablesOK
<1>b. ASSUME UNCHANGED <<bookingVars, roomVars, payVars, stripeVars, fails>> PROVE TablesOK'
  BY <1>a, <1>b DEF TablesOK, bookingVars, roomVars, payVars, stripeVars
<1>c. ASSUME NEW s \in Slots, Finish(s), TablesOK' PROVE TypeInv'
  BY <1>c, SlotMoves DEF Finish
<1>1. ASSUME NEW s \in Slots, CreateStart(s) PROVE TypeInv'
  <2>1. PICK ask \in Requests :
          Start(s, [Idle EXCEPT !.pc = "validate", !.ask = ask, !.todo = ask])
    BY <1>1 DEF CreateStart
  <2> DEFINE r == [Idle EXCEPT !.pc = "validate", !.ask = ask, !.todo = ask]
  <2>2. r \in Request /\ LocalOK(r)
    BY RequestsAssumption DEF Idle, Request, LocalOK, Suspended
  <2> QED BY <1>1, <1>b, <2>1, <2>2, SlotMoves DEF CreateStart, Start
<1>2. ASSUME NEW s \in Slots, CreateValidateRoom(s) PROVE TypeInv'
  <2>1. PICK x \in req[s].todo : LET left == req[s].todo \ {x}
            IN  Continue(s, IF left = {}
                            THEN [req[s] EXCEPT !.pc = "recheck", !.todo = req[s].ask]
                            ELSE [req[s] EXCEPT !.todo = left])
    BY <1>2 DEF CreateValidateRoom
  <2> DEFINE r == IF req[s].todo \ {x} = {}
                  THEN [req[s] EXCEPT !.pc = "recheck", !.todo = req[s].ask]
                  ELSE [req[s] EXCEPT !.todo = req[s].todo \ {x}]
  <2>2. r \in Request /\ LocalOK(r)
    BY <1>2, <1>a DEF CreateValidateRoom, Request, LocalOK, Suspended
  <2> QED BY <1>2, <1>b, <2>1, <2>2, SlotMoves DEF CreateValidateRoom, Continue
<1>3. ASSUME NEW s \in Slots, CreateRecheckRoom(s) PROVE TypeInv'
  <2>1. PICK x \in req[s].todo : LET left == req[s].todo \ {x}
            IN  Continue(s, [req[s] EXCEPT !.pc = IF left = {} THEN "insert" ELSE "recheck",
                                           !.todo = left])
    BY <1>3 DEF CreateRecheckRoom
  <2> DEFINE pc == IF req[s].todo \ {x} = {} THEN "insert" ELSE "recheck"
             r == [req[s] EXCEPT !.pc = pc, !.todo = req[s].todo \ {x}]
  <2>2. r \in Request /\ LocalOK(r)
    BY <1>a DEF Request, LocalOK, Suspended
  <2> QED BY <1>3, <1>b, <2>1, <2>2, SlotMoves DEF CreateRecheckRoom, Continue
<1>4. ASSUME NEW s \in Slots, CreateConflict(s) PROVE TypeInv'
  BY <1>4, <1>b, <1>c DEF CreateConflict
<1>5. ASSUME NEW s \in Slots, CreateInsert(s) PROVE TypeInv'
  <2>1. req[s].ask \in SUBSET Stay
    BY <1>a DEF Request
  <2>2. TablesOK'
    BY <1>5, <1>a, <2>1 DEF CreateInsert, TablesOK, roomVars, payVars, stripeVars, BookingStatus
  <2> QED BY <1>5, <1>c, <2>2 DEF CreateInsert
<1>6. ASSUME NEW s \in Slots, PatchStatusRead(s) PROVE TypeInv'
  <2>1. PICK b \in Bookings, to \in BookingStatus :
          Start(s, [Idle EXCEPT !.pc = "patchSave", !.b = b, !.to = to])
    BY <1>6 DEF PatchStatusRead
  <2> DEFINE r == [Idle EXCEPT !.pc = "patchSave", !.b = b, !.to = to]
  <2>2. r \in Request /\ LocalOK(r)
    BY DEF Idle, Request, LocalOK, Suspended
  <2> QED BY <1>6, <1>b, <2>1, <2>2, SlotMoves DEF PatchStatusRead, Start
<1>7. ASSUME NEW s \in Slots, PatchStatusSave(s) PROVE TypeInv'
  <2>1. req[s].b \in Bookings /\ req[s].to \in BookingStatus
    BY <1>7 DEF PatchStatusSave, TypeInv, LocalsOK, LocalOK
  <2> DEFINE r == [req[s] EXCEPT !.pc = "patchRooms"]
  <2>2. r \in Request /\ LocalOK(r)
    BY <1>a, <2>1 DEF Request, LocalOK, Suspended
  <2>3. TablesOK'
    BY <1>7, <1>a, <2>1 DEF PatchStatusSave, TablesOK, roomVars, payVars, stripeVars
  <2> QED BY <1>7, <2>2, <2>3, SlotMoves DEF PatchStatusSave, Continue
<1>8. ASSUME NEW s \in Slots, PatchStatusRooms(s) PROVE TypeInv'
  <2>1. RoomStatusFor(req[s].to) \in RoomStatus
    BY DEF RoomStatusFor, RoomStatus
  <2>2. roomStatus' \in [Rooms -> RoomStatus] /\ roomWriter' \in [Rooms -> {"BOOKING", "STAFF"}]
    BY <1>8, <1>a, <2>1 DEF PatchStatusRooms, TablesOK
  <2>3. TablesOK'
    BY <1>8, <1>a, <2>2 DEF PatchStatusRooms, TablesOK, bookingVars, payVars, stripeVars
  <2> QED BY <1>8, <1>c, <2>3 DEF PatchStatusRooms
<1>9. ASSUME NEW s \in Slots, CreateIntentRead(s) PROVE TypeInv'
  <2>1. PICK b \in Bookings : Start(s, [Idle EXCEPT !.pc = "intentPending", !.b = b])
    BY <1>9 DEF CreateIntentRead
  <2> DEFINE r == [Idle EXCEPT !.pc = "intentPending", !.b = b]
  <2>2. r \in Request /\ LocalOK(r)
    BY DEF Idle, Request, LocalOK, Suspended
  <2> QED BY <1>9, <1>b, <2>1, <2>2, SlotMoves DEF CreateIntentRead, Start
<1>10. ASSUME NEW s \in Slots, CreateIntentCheckPending(s) PROVE TypeInv'
  <2> DEFINE r == [req[s] EXCEPT !.pc = "intentStripe"]
  <2>1. r \in Request /\ LocalOK(r)
    BY <1>10, <1>a DEF CreateIntentCheckPending, Request, LocalOK, Suspended, TypeInv, LocalsOK
  <2> QED BY <1>10, <1>b, <1>c, <2>1, SlotMoves DEF CreateIntentCheckPending, Continue
<1>11. ASSUME NEW s \in Slots, CreateIntentStripe(s) PROVE TypeInv'
  <2>1. req[s].b \in Bookings
    BY <1>11 DEF CreateIntentStripe, TypeInv, LocalsOK, LocalOK
  <2>2. PICK i \in Intents :
          /\ intent' = [intent EXCEPT ![i] = "created"]
          /\ intentBooking' = [intentBooking EXCEPT ![i] = req[s].b]
          /\ Continue(s, [req[s] EXCEPT !.pc = "intentSave", !.pay = i])
    BY <1>11 DEF CreateIntentStripe
  <2> DEFINE r == [req[s] EXCEPT !.pc = "intentSave", !.pay = i]
  <2>3. r \in Request /\ LocalOK(r)
    BY <1>a, <2>1 DEF Request, LocalOK, Suspended, Payments
  <2>4. TablesOK'
    BY <1>11, <1>a, <2>1, <2>2 DEF CreateIntentStripe, TablesOK, bookingVars, roomVars, payVars
  <2> QED BY <2>2, <2>3, <2>4, SlotMoves DEF Continue
<1>12. ASSUME NEW s \in Slots, CreateIntentSave(s) PROVE TypeInv'
  <2>1. req[s].b \in Bookings /\ req[s].pay \in Intents
    BY <1>12 DEF CreateIntentSave, TypeInv, LocalsOK, LocalOK
  <2> DEFINE r == [req[s] EXCEPT !.pc = "intentReply"]
  <2>2. r \in Request /\ LocalOK(r)
    BY <1>a, <2>1 DEF Request, LocalOK, Suspended
  <2>3. TablesOK'
    BY <1>12, <1>a, <2>1
    DEF CreateIntentSave, TablesOK, bookingVars, roomVars, stripeVars, PaymentStatus
  <2> QED BY <1>12, <2>2, <2>3, SlotMoves DEF CreateIntentSave, Continue
<1>13. ASSUME NEW s \in Slots, CreateIntentReply(s) PROVE TypeInv'
  <2>1. TablesOK'
    BY <1>13, <1>a DEF CreateIntentReply, TablesOK, bookingVars, roomVars, payVars
  <2> QED BY <1>13, <1>c, <2>1 DEF CreateIntentReply
<1>14. ASSUME NEW s \in Slots, NEW e \in Event, HookRead(s, e) PROVE TypeInv'
  <2> DEFINE r == [Idle EXCEPT !.pc = "hookSave", !.to = TargetOf(e), !.pay = e.intent]
  <2>1. r \in Request /\ LocalOK(r)
    BY DEF Idle, Request, LocalOK, Suspended, Event, EventTarget, TargetOf, PaymentStatus, Payments
  <2> QED BY <1>14, <1>b, <2>1, SlotMoves DEF HookRead, Start
<1>15. ASSUME NEW s \in Slots, HookSave(s) PROVE TypeInv'
  <2>1. req[s].pay \in Intents /\ req[s].to \in EventTarget
    BY <1>15 DEF HookSave, TypeInv, LocalsOK, LocalOK
  <2> DEFINE r == [req[s] EXCEPT !.pc = "hookConfirm"]
  <2>2. r \in Request /\ LocalOK(r)
    BY <1>a, <2>1 DEF Request, LocalOK, Suspended
  <2>3. TablesOK'
    BY <1>15, <1>a, <2>1
    DEF HookSave, TablesOK, bookingVars, roomVars, stripeVars, EventTarget, PaymentStatus
  <2> QED BY <1>15, <1>c, <2>2, <2>3, SlotMoves DEF HookSave, Continue
<1>16. ASSUME NEW s \in Slots, HookConfirm(s) PROVE TypeInv'
  <2>1. status' \in [Bookings -> BookingStatus \cup {"NONE"}]
    BY <1>16, <1>a DEF HookConfirm, TablesOK, BookingStatus
  <2>2. TablesOK'
    BY <1>16, <1>a, <2>1 DEF HookConfirm, TablesOK, roomVars, payVars, stripeVars
  <2> QED BY <1>16, <1>c, <2>2 DEF HookConfirm
<1>17. ASSUME NEW s \in Slots, CashRead(s) PROVE TypeInv'
  <2>1. PICK b \in Bookings : Start(s, [Idle EXCEPT !.pc = "cashSave", !.b = b])
    BY <1>17 DEF CashRead
  <2> DEFINE r == [Idle EXCEPT !.pc = "cashSave", !.b = b]
  <2>2. r \in Request /\ LocalOK(r)
    BY DEF Idle, Request, LocalOK, Suspended
  <2> QED BY <1>17, <1>b, <2>1, <2>2, SlotMoves DEF CashRead, Start
<1>18. ASSUME NEW s \in Slots, CashSave(s) PROVE TypeInv'
  <2>1. req[s].b \in Bookings
    BY <1>18 DEF CashSave, TypeInv, LocalsOK, LocalOK
  <2> DEFINE r == [req[s] EXCEPT !.pc = "cashConfirm"]
  <2>2. r \in Request /\ LocalOK(r)
    BY <1>a, <2>1 DEF Request, LocalOK, Suspended
  <2>3. TablesOK'
    BY <1>18, <1>a, <2>1 DEF CashSave, TablesOK, bookingVars, roomVars, stripeVars, PaymentStatus
  <2> QED BY <1>18, <2>2, <2>3, SlotMoves DEF CashSave, Continue
<1>19. ASSUME NEW s \in Slots, CashConfirm(s) PROVE TypeInv'
  <2>1. TablesOK'
    BY <1>19, <1>a DEF CashConfirm, TablesOK, roomVars, payVars, stripeVars, BookingStatus
  <2> QED BY <1>19, <1>c, <2>1 DEF CashConfirm
<1>20. ASSUME NEW s \in Slots, UpdateRoomPreload(s) PROVE TypeInv'
  <2>1. PICK m \in Rooms, to \in RoomStatus :
          Start(s, [Idle EXCEPT !.pc = "roomSave", !.room = m, !.to = to])
    BY <1>20, StaffAssumption DEF UpdateRoomPreload, UnnamedStatus, RoomStatus
  <2> DEFINE r == [Idle EXCEPT !.pc = "roomSave", !.room = m, !.to = to]
  <2>2. r \in Request /\ LocalOK(r)
    BY DEF Idle, Request, LocalOK, Suspended
  <2> QED BY <1>20, <1>b, <2>1, <2>2, SlotMoves DEF UpdateRoomPreload, Start
<1>21. ASSUME NEW s \in Slots, UpdateRoomSave(s) PROVE TypeInv'
  <2>1. req[s].room \in Rooms /\ req[s].to \in RoomStatus
    BY <1>21 DEF UpdateRoomSave, TypeInv, LocalsOK, LocalOK
  <2>2. TablesOK'
    BY <1>21, <1>a, <2>1 DEF UpdateRoomSave, TablesOK, bookingVars, payVars, stripeVars
  <2> QED BY <1>21, <1>c, <2>2 DEF UpdateRoomSave
<1>22. ASSUME NEW s \in Slots, RequestFails(s) PROVE TypeInv'
  <2>1. fails' \in 0..MaxFails
    BY <1>22, <1>a, BoundsAssumption DEF RequestFails, TablesOK
  <2>2. leftBehind' \subseteq Bookings
    BY <1>22, <1>a DEF RequestFails, TablesOK, TypeInv, LocalsOK, LocalOK
  <2>3. TablesOK'
    BY <1>22, <1>a, <2>1, <2>2 DEF RequestFails, TablesOK, bookingVars, payVars, stripeVars
  <2> QED BY <1>22, <1>c, <2>3 DEF RequestFails
<1>23. ASSUME NEW i \in Intents, StripeDeclines(i) \/ StripeSucceeds(i) PROVE TypeInv'
  <2>1. TablesOK'
    BY <1>23, <1>a DEF StripeDeclines, StripeSucceeds, TablesOK, bookingVars, roomVars, payVars,
                       Event, EventTarget
  <2>2. UNCHANGED req
    BY <1>23 DEF StripeDeclines, StripeSucceeds
  <2> QED BY <2>1, <2>2 DEF TypeInv, TypeOK, TablesOK, LocalsOK, LocalOK
<1>24. CASE UNCHANGED vars
  BY <1>24, <1>a, <1>b DEF vars, bookingVars, roomVars, payVars, stripeVars,
                           TypeInv, TypeOK, TablesOK, LocalsOK, LocalOK
<1> QED
  BY <1>1, <1>2, <1>3, <1>4, <1>5, <1>6, <1>7, <1>8, <1>9, <1>10, <1>11, <1>12, <1>13,
     <1>14, <1>15, <1>16, <1>17, <1>18, <1>19, <1>20, <1>21, <1>22, <1>23, <1>24
  DEF Next, Arrives, Step, Stripe, BookingRequest, BookingStep, PaymentRequest, PaymentStep,
      RoomRequest, RoomStep

\* The tables and the requests in flight keep their types in every behaviour, for any
\* number of slots, bookings, rooms, users and payments.
THEOREM TypeCorrect == Spec => []TypeOK
<1>1. TypeInv => TypeOK
  BY DEF TypeInv
<1> QED BY InitTypes, TypeStep, <1>1, PTL DEF Spec

--------------------------------------------------------------------------------
(***************************************************************************)
(* No booking is confirmed without a payment Stripe collected or somebody  *)
(* recorded, however many requests overlap and wherever they fail:         *)
(* MoneyInv is inductive for every number of slots, bookings and intents.  *)
(***************************************************************************)

\* A step that writes none of status, payments, intents and events, and moves one slot to
\* a request covered by what is there.
LEMMA ReaderMoves ==
    ASSUME TypeInv, MoneyInv, NEW s \in Slots,
           \A t \in Slots : t # s => req'[t] = req[t],
           UNCHANGED <<status, payVars, stripeVars>>,
           HeldOK(req'[s]), CoveredOK(req'[s]),
           Holds(req'[s]) => Holds(req[s]) /\ req'[s].pay = req[s].pay
    PROVE  MoneyInv'
<1>1. MoneyTables'
  BY DEF MoneyInv, MoneyTables, OpenHasRow, RowHasIntent, RowMatchesIntent, EventsAreTrue,
         CompletedWasCollected, ConfirmedIsRecorded, RecordedFor, CardPaid, CashRow, payVars,
         stripeVars
<1>2. HeldApart'
  BY DEF MoneyInv, HeldApart, Holds
<1>3. WritesAreCovered'
  <2> SUFFICES ASSUME NEW t \in Slots PROVE (HeldOK(req[t]) /\ CoveredOK(req[t]))'
    BY DEF WritesAreCovered
  <2>1. HeldOK(req'[t]) /\ CoveredOK(req'[t])
    BY DEF MoneyInv, WritesAreCovered
  <2> QED BY <2>1 DEF HeldOK, CoveredOK, Holds, RecordedFor, CardPaid, CashRow, payVars, stripeVars
<1> QED BY <1>1, <1>2, <1>3 DEF MoneyInv

\* The rows, the money and the intents other handlers hold survive a step of slot s.
Grows(s) ==
    /\ \A p \in Payments : payStatus[p] # "NONE" => payStatus'[p] # "NONE"
    /\ \A i \in Intents : intent[i] = "succeeded" => intent'[i] = "succeeded"
    /\ \A b \in Bookings : RecordedFor(b) => RecordedFor(b)'
    /\ \A t \in Slots : t # s /\ Holds(req[t]) =>
          /\ intent'[req[t].pay] = "created"
          /\ intentBooking'[req[t].pay] = intentBooking[req[t].pay]

\* A step that writes: the tables and the moved slot are the action's business, the other
\* slots stay covered because the tables only grow.
LEMMA WriterMoves ==
    ASSUME TypeInv, MoneyInv, NEW s \in Slots,
           \A t \in Slots : t # s => req'[t] = req[t],
           MoneyTables', Grows(s), (HeldOK(req[s]) /\ CoveredOK(req[s]))',
           Holds(req'[s]) => \A t \in Slots : t # s /\ Holds(req[t]) => req[t].pay # req'[s].pay
    PROVE  MoneyInv'
<1>1. HeldApart'
  BY DEF MoneyInv, HeldApart, Holds
<1>2. WritesAreCovered'
  <2> SUFFICES ASSUME NEW t \in Slots, t # s PROVE (HeldOK(req[t]) /\ CoveredOK(req[t]))'
    BY DEF WritesAreCovered
  <2>1. req'[t] = req[t] /\ HeldOK(req[t]) /\ CoveredOK(req[t])
    BY DEF MoneyInv, WritesAreCovered
  <2>2. LocalOK(req[t]) /\ req[t] \in Request
    BY DEF TypeInv, TypeOK, LocalsOK
  <2>3. HeldOK(req[t])'
    BY <2>1, <2>2 DEF Grows, HeldOK, Holds, LocalOK, Payments
  <2>4. CoveredOK(req[t])'
    BY <2>1, <2>2 DEF Grows, CoveredOK, LocalOK, Payments
  <2> QED BY <2>3, <2>4
<1> QED BY <1>1, <1>2 DEF MoneyInv

LEMMA InitMoney == Init => MoneyInv
<1> SUFFICES ASSUME Init PROVE MoneyInv
  OBVIOUS
<1>1. MoneyTables
  BY DEF Init, MoneyTables, OpenHasRow, RowHasIntent, RowMatchesIntent, EventsAreTrue,
         CompletedWasCollected, ConfirmedIsRecorded, Payments
<1>2. HeldApart /\ WritesAreCovered
  BY DEF Init, HeldApart, WritesAreCovered, HeldOK, CoveredOK, Holds, Idle
<1> QED BY <1>1, <1>2 DEF MoneyInv

\* Handlers that only read, that end, or that write what MoneyInv is not about: the
\* request they leave in the slot needs no cover.
LEMMA QuietMoney ==
    ASSUME TypeInv, MoneyInv, NEW s \in Slots,
           \/ CreateStart(s) \/ CreateValidateRoom(s) \/ CreateRecheckRoom(s)
           \/ CreateConflict(s) \/ PatchStatusRooms(s)
           \/ CreateIntentRead(s) \/ CreateIntentCheckPending(s) \/ CashRead(s)
           \/ UpdateRoomPreload(s) \/ UpdateRoomSave(s) \/ RequestFails(s)
    PROVE  MoneyInv'
<1> DEFINE Harmless == {"idle", "validate", "recheck", "insert", "intentPending",
                        "intentStripe", "cashSave", "roomSave"}
<1>0. req \in [Slots -> Request]
  BY DEF TypeInv, TypeOK
<1>1. UNCHANGED <<status, payVars, stripeVars>>
  BY DEF CreateStart, CreateValidateRoom, CreateRecheckRoom, CreateConflict,
         PatchStatusRooms, CreateIntentRead, CreateIntentCheckPending, CashRead,
         UpdateRoomPreload, UpdateRoomSave, RequestFails, bookingVars
<1>2. /\ \A t \in Slots : t # s => req'[t] = req[t]
      /\ req'[s].pc \in Harmless
  <2>1. CASE \/ CreateConflict(s) \/ PatchStatusRooms(s) \/ UpdateRoomSave(s) \/ RequestFails(s)
    BY <2>1, <1>0 DEF CreateConflict, PatchStatusRooms, UpdateRoomSave, RequestFails, Finish, Idle
  <2>2. CASE CreateStart(s)
    BY <2>2, <1>0 DEF CreateStart, Start, Idle
  <2>3. CASE CreateValidateRoom(s) \/ CreateRecheckRoom(s)
    <3>1. CASE CreateValidateRoom(s)
      BY <3>1, <1>0 DEF CreateValidateRoom, Continue, Request
    <3>2. CASE CreateRecheckRoom(s)
      BY <3>2, <1>0 DEF CreateRecheckRoom, Continue, Request
    <3> QED BY <2>3, <3>1, <3>2
  <2>4. CASE CreateIntentRead(s) \/ CashRead(s)
    <3>1. PICK b \in Bookings, pc \in {"intentPending", "cashSave"} :
            Start(s, [Idle EXCEPT !.pc = pc, !.b = b])
      BY <2>4 DEF CreateIntentRead, CashRead
    <3>2. [Idle EXCEPT !.pc = pc, !.b = b].pc = pc
      BY DEF Idle
    <3> QED BY <3>1, <3>2, <1>0 DEF Start
  <2>5. CASE CreateIntentCheckPending(s)
    BY <2>5, <1>0 DEF CreateIntentCheckPending, Continue, Finish, Idle, Request
  <2>6. CASE UpdateRoomPreload(s)
    BY <2>6, <1>0 DEF UpdateRoomPreload, Start, Idle
  <2> QED BY <2>1, <2>2, <2>3, <2>4, <2>5, <2>6
<1>3. HeldOK(req'[s]) /\ CoveredOK(req'[s]) /\ ~Holds(req'[s])
  BY <1>2 DEF HeldOK, CoveredOK, Holds
<1> QED BY <1>1, <1>2, <1>3, ReaderMoves

\* The two handlers whose read decides what they will write.
LEMMA ReadMoney ==
    ASSUME TypeInv, MoneyInv, NEW s \in Slots,
           PatchStatusRead(s) \/ \E e \in Event : HookRead(s, e)
    PROVE  MoneyInv'
<1>0. req \in [Slots -> Request]
  BY DEF TypeInv, TypeOK
<1>1. CASE PatchStatusRead(s)
  <2>1. PICK b \in Bookings, to \in BookingStatus, isAdmin \in BOOLEAN :
          /\ ValidTransition(status[b], to, isAdmin)
          /\ Start(s, [Idle EXCEPT !.pc = "patchSave", !.b = b, !.to = to])
    BY <1>1 DEF PatchStatusRead
  <2>2. /\ \A t \in Slots : t # s => req'[t] = req[t]
        /\ req'[s].pc = "patchSave" /\ req'[s].b = b /\ req'[s].to = to
    BY <1>0, <2>1 DEF Start, Idle
  <2>3. to \in {"CHECKED_IN", "CHECKED_OUT", "CANCELLED"}
    BY <2>1 DEF ValidTransition, ADMIN_ONLY_TRANSITIONS, CUSTOMER_ALLOWED_TRANSITIONS
  <2>4. to # "CANCELLED" => status[b] \in {"CONFIRMED", "CHECKED_IN"}
    BY <2>1 DEF ValidTransition, ADMIN_ONLY_TRANSITIONS, CUSTOMER_ALLOWED_TRANSITIONS
  <2>5. HeldOK(req'[s]) /\ CoveredOK(req'[s]) /\ ~Holds(req'[s])
    BY <2>2, <2>3, <2>4 DEF HeldOK, CoveredOK, Holds, MoneyInv, MoneyTables, ConfirmedIsRecorded
  <2> QED BY <1>1, <2>2, <2>5, ReaderMoves DEF PatchStatusRead, bookingVars
<1>2. CASE \E e \in Event : HookRead(s, e)
  <2>1. PICK e \in Event : HookRead(s, e)
    BY <1>2
  <2>2. /\ \A t \in Slots : t # s => req'[t] = req[t]
        /\ req'[s].pc = "hookSave" /\ req'[s].to = e.target /\ req'[s].pay = e.intent
    BY <1>0, <2>1 DEF HookRead, Start, Idle, TargetOf
  <2>3. HeldOK(req'[s]) /\ CoveredOK(req'[s]) /\ ~Holds(req'[s])
    BY <2>1, <2>2 DEF HookRead, HeldOK, CoveredOK, Holds, MoneyInv, MoneyTables, EventsAreTrue
  <2> QED BY <2>1, <2>2, <2>3, ReaderMoves DEF HookRead, bookingVars
<1> QED BY <1>1, <1>2

--------------------------------------------------------------------------------
\* A step that leaves payments and Stripe alone, moves bookings only to statuses it has
\* a payment for, and leaves a request that needs no cover.
LEMMA StatusWriterMoves ==
    ASSUME TypeInv, MoneyInv, NEW s \in Slots,
           \A t \in Slots : t # s => req'[t] = req[t],
           UNCHANGED <<payVars, stripeVars>>,
           \A b \in Bookings : \/ status'[b] = status[b]
                               \/ status'[b] \in {"PENDING", "CANCELLED"}
                               \/ RecordedFor(b),
           req'[s].pc \in {"idle", "patchRooms"}
    PROVE  MoneyInv'
<1>1. \A b \in Bookings : RecordedFor(b)' <=> RecordedFor(b)
  BY DEF RecordedFor, CardPaid, CashRow, payVars, stripeVars
<1>2. ConfirmedIsRecorded'
  BY <1>1 DEF ConfirmedIsRecorded, MoneyInv, MoneyTables
<1>3. MoneyTables'
  BY <1>2 DEF MoneyInv, MoneyTables, OpenHasRow, RowHasIntent, RowMatchesIntent, EventsAreTrue,
              CompletedWasCollected, payVars, stripeVars
<1>4. Grows(s)
  BY <1>1 DEF Grows, payVars, stripeVars, MoneyInv, WritesAreCovered, HeldOK
<1>5. (HeldOK(req[s]) /\ CoveredOK(req[s]))' /\ ~Holds(req'[s])
  BY DEF HeldOK, CoveredOK, Holds
<1> QED BY <1>3, <1>4, <1>5, WriterMoves

LEMMA StatusMoney ==
    ASSUME TypeInv, MoneyInv, NEW s \in Slots,
           CreateInsert(s) \/ PatchStatusSave(s) \/ HookConfirm(s) \/ CashConfirm(s)
    PROVE  MoneyInv'
<1>0. req \in [Slots -> Request] /\ status \in [Bookings -> BookingStatus \cup {"NONE"}]
  BY DEF TypeInv, TypeOK
<1>1. CASE CreateInsert(s)
  <2>1. \A t \in Slots : t # s => req'[t] = req[t]
    BY <1>0, <1>1 DEF CreateInsert, Finish
  <2>2. req'[s].pc = "idle"
    BY <1>0, <1>1 DEF CreateInsert, Finish, Idle
  <2>3. \A b \in Bookings : status'[b] = status[b] \/ status'[b] = "PENDING"
    BY <1>0, <1>1 DEF CreateInsert
  <2> QED BY <1>1, <2>1, <2>2, <2>3, StatusWriterMoves DEF CreateInsert
<1>2. CASE PatchStatusSave(s)
  <2>1. /\ \A t \in Slots : t # s => req'[t] = req[t]
        /\ req'[s].pc = "patchRooms"
    BY <1>0, <1>2 DEF PatchStatusSave, Continue, Request
  <2>2. req[s].to = "CANCELLED" \/ RecordedFor(req[s].b)
    BY <1>2 DEF PatchStatusSave, MoneyInv, WritesAreCovered, CoveredOK
  <2>3. \A b \in Bookings : status'[b] = IF b = req[s].b THEN req[s].to ELSE status[b]
    BY <1>0, <1>2 DEF PatchStatusSave
  <2> QED BY <1>2, <2>1, <2>2, <2>3, StatusWriterMoves DEF PatchStatusSave
<1>3. CASE HookConfirm(s)
  <2>1. /\ \A t \in Slots : t # s => req'[t] = req[t]
        /\ req'[s].pc = "idle"
    BY <1>0, <1>3 DEF HookConfirm, Finish, Idle
  <2>2. req[s].pay \in Intents
    BY <1>3 DEF HookConfirm, TypeInv, LocalsOK, LocalOK
  <2>3. RecordedFor(payBooking[req[s].pay])
    BY <1>3, <2>2 DEF HookConfirm, MoneyInv, WritesAreCovered, CoveredOK, MoneyTables,
                      RowMatchesIntent, RecordedFor, CardPaid, CashRow
  <2>4. \A b \in Bookings : status'[b] = status[b] \/ b = payBooking[req[s].pay]
    BY <1>0, <1>3 DEF HookConfirm
  <2> QED BY <1>3, <2>1, <2>3, <2>4, StatusWriterMoves DEF HookConfirm
<1>4. CASE CashConfirm(s)
  <2>1. /\ \A t \in Slots : t # s => req'[t] = req[t]
        /\ req'[s].pc = "idle"
    BY <1>0, <1>4 DEF CashConfirm, Finish, Idle
  <2>2. RecordedFor(req[s].b)
    BY <1>4 DEF CashConfirm, MoneyInv, WritesAreCovered, CoveredOK
  <2>3. \A b \in Bookings : status'[b] = status[b] \/ b = req[s].b
    BY <1>0, <1>4 DEF CashConfirm
  <2> QED BY <1>4, <2>1, <2>2, <2>3, StatusWriterMoves DEF CashConfirm
<1> QED BY <1>1, <1>2, <1>3, <1>4

--------------------------------------------------------------------------------
\* A confirmed booking stays covered by a step that writes payments and takes none back.
LEMMA ConfirmedStaysCovered ==
    ASSUME TypeInv, MoneyInv, UNCHANGED status,
           \A b \in Bookings : RecordedFor(b) => RecordedFor(b)'
    PROVE  ConfirmedIsRecorded'
  BY DEF MoneyInv, MoneyTables, ConfirmedIsRecorded

\* Creating the intent: a fresh one, so nobody else holds it.
LEMMA IntentStripeMoney ==
    ASSUME TypeInv, MoneyInv, NEW s \in Slots, CreateIntentStripe(s)
    PROVE  MoneyInv'
<1>1. PICK i \in Intents :
        /\ intent[i] = "NONE"
        /\ intent' = [intent EXCEPT ![i] = "created"]
        /\ intentBooking' = [intentBooking EXCEPT ![i] = req[s].b]
        /\ Continue(s, [req[s] EXCEPT !.pc = "intentSave", !.pay = i])
  BY DEF CreateIntentStripe
<1>2. /\ UNCHANGED <<status, payStatus, payBooking, events>>
      /\ req \in [Slots -> Request]
      /\ intent \in [Intents -> {"NONE", "created", "open", "succeeded"}]
      /\ intentBooking \in [Intents -> Bookings \cup {None}]
  BY DEF CreateIntentStripe, bookingVars, payVars, TypeInv, TypeOK
<1>3. /\ \A t \in Slots : t # s => req'[t] = req[t]
      /\ req'[s].pc = "intentSave" /\ req'[s].pay = i /\ req'[s].b = req[s].b
  BY <1>1, <1>2 DEF Continue, Request
<1>4. payStatus[i] = "NONE"
  BY <1>1 DEF MoneyInv, MoneyTables, RowHasIntent
<1>5. Grows(s)
  <2>1. \A j \in Intents : intent[j] = "succeeded" =>
            j # i /\ intent'[j] = "succeeded" /\ intentBooking'[j] = intentBooking[j]
    BY <1>1, <1>2
  <2>2. \A b \in Bookings : RecordedFor(b) => RecordedFor(b)'
    BY <1>2, <2>1 DEF RecordedFor, CardPaid, CashRow
  <2>3. \A t \in Slots : t # s /\ Holds(req[t]) => req[t].pay \in Intents /\ req[t].pay # i
    BY <1>1 DEF MoneyInv, WritesAreCovered, HeldOK, TypeInv, LocalsOK, LocalOK, Holds
  <2>4. \A t \in Slots : t # s /\ Holds(req[t]) =>
            intent'[req[t].pay] = "created" /\ intentBooking'[req[t].pay] = intentBooking[req[t].pay]
    BY <1>1, <1>2, <2>3 DEF MoneyInv, WritesAreCovered, HeldOK
  <2> QED BY <1>2, <2>1, <2>2, <2>4 DEF Grows
<1>6. MoneyTables'
  <2>1. ConfirmedIsRecorded'
    BY <1>2, <1>5, ConfirmedStaysCovered DEF Grows
  <2>2. \A j \in Intents : j # i => intent'[j] = intent[j] /\ intentBooking'[j] = intentBooking[j]
    BY <1>1, <1>2
  <2>3. intent'[i] = "created"
    BY <1>1, <1>2
  <2>4. (OpenHasRow /\ RowHasIntent /\ RowMatchesIntent /\ CompletedWasCollected)'
    BY <1>2, <1>4, <2>2, <2>3 DEF MoneyInv, MoneyTables, OpenHasRow, RowHasIntent,
                                  RowMatchesIntent, CompletedWasCollected
  <2>5. EventsAreTrue'
    <3>1. \A e \in events : e.intent \in Intents
      BY DEF TypeInv, TypeOK, Event
    <3> QED BY <1>1, <1>2, <2>2, <3>1 DEF MoneyInv, MoneyTables, EventsAreTrue
  <2> QED BY <2>1, <2>4, <2>5 DEF MoneyTables
<1>7. (HeldOK(req[s]) /\ CoveredOK(req[s]))'
  BY <1>1, <1>2, <1>3 DEF HeldOK, CoveredOK
<1>8. \A t \in Slots : t # s /\ Holds(req[t]) => req[t].pay # i
  BY <1>1 DEF MoneyInv, WritesAreCovered, HeldOK
<1> QED BY <1>3, <1>5, <1>6, <1>7, <1>8, WriterMoves

\* Saving the row of a held intent.
LEMMA IntentSaveMoney ==
    ASSUME TypeInv, MoneyInv, NEW s \in Slots, CreateIntentSave(s)
    PROVE  MoneyInv'
<1> DEFINE i == req[s].pay
<1>1. /\ i \in Intents /\ i \notin CashIds /\ req[s].b \in Bookings
      /\ intent[i] = "created" /\ intentBooking[i] = req[s].b
  BY IdsAssumption DEF CreateIntentSave, TypeInv, LocalsOK, LocalOK, MoneyInv, WritesAreCovered,
                       HeldOK, Holds
<1>2. /\ UNCHANGED <<status, intent, intentBooking, events>>
      /\ req \in [Slots -> Request]
  BY DEF CreateIntentSave, bookingVars, stripeVars, TypeInv, TypeOK
<1>3. /\ \A t \in Slots : t # s => req'[t] = req[t]
      /\ req'[s].pc = "intentReply" /\ req'[s].pay = i /\ req'[s].b = req[s].b
  BY <1>2 DEF CreateIntentSave, Continue, Request
<1>4. /\ \A p \in Payments : p # i => payStatus'[p] = payStatus[p] /\ payBooking'[p] = payBooking[p]
      /\ payStatus'[i] = "PENDING" /\ payBooking'[i] = req[s].b
  BY <1>1 DEF CreateIntentSave, TypeInv, TypeOK, Payments
<1>5. Grows(s)
  <2>1. \A b \in Bookings : RecordedFor(b) => RecordedFor(b)'
    BY <1>1, <1>2, <1>4 DEF RecordedFor, CardPaid, CashRow, Payments
  <2> QED BY <1>2, <1>4, <2>1 DEF Grows, MoneyInv, WritesAreCovered, HeldOK
<1>6. MoneyTables'
  <2>1. ConfirmedIsRecorded'
    BY <1>2, <1>5, ConfirmedStaysCovered DEF Grows
  <2>2. (OpenHasRow /\ RowHasIntent /\ RowMatchesIntent /\ CompletedWasCollected)'
    BY <1>1, <1>2, <1>4 DEF MoneyInv, MoneyTables, OpenHasRow, RowHasIntent, RowMatchesIntent,
                            CompletedWasCollected, Payments
  <2>3. EventsAreTrue'
    BY <1>2 DEF MoneyInv, MoneyTables, EventsAreTrue
  <2> QED BY <2>1, <2>2, <2>3 DEF MoneyTables
<1>7. (HeldOK(req[s]) /\ CoveredOK(req[s]))'
  BY <1>1, <1>2, <1>3, <1>4 DEF HeldOK, CoveredOK
<1>8. \A t \in Slots : t # s /\ Holds(req[t]) => req[t].pay # i
  BY DEF CreateIntentSave, MoneyInv, HeldApart, Holds
<1> QED BY <1>3, <1>5, <1>6, <1>7, <1>8, WriterMoves

\* Answering: the customer gets the intent, whose row is there.
LEMMA IntentReplyMoney ==
    ASSUME TypeInv, MoneyInv, NEW s \in Slots, CreateIntentReply(s)
    PROVE  MoneyInv'
<1> DEFINE i == req[s].pay
<1>1. i \in Intents /\ intent[i] = "created" /\ payStatus[i] # "NONE"
  BY DEF CreateIntentReply, TypeInv, LocalsOK, LocalOK, MoneyInv, WritesAreCovered, HeldOK, Holds
<1>2. /\ UNCHANGED <<status, payStatus, payBooking, intentBooking, events>>
      /\ req \in [Slots -> Request]
  BY DEF CreateIntentReply, bookingVars, payVars, TypeInv, TypeOK
<1>3. /\ \A t \in Slots : t # s => req'[t] = req[t]
      /\ req'[s].pc = "idle"
  BY <1>2 DEF CreateIntentReply, Finish, Idle
<1>4. /\ \A j \in Intents : j # i => intent'[j] = intent[j]
      /\ intent'[i] = "open"
  BY <1>1 DEF CreateIntentReply, TypeInv, TypeOK
<1>5. Grows(s)
  <2>1. \A j \in Intents : intent[j] = "succeeded" => intent'[j] = "succeeded"
    BY <1>1, <1>4
  <2>2. \A b \in Bookings : RecordedFor(b) => RecordedFor(b)'
    BY <1>2, <2>1 DEF RecordedFor, CardPaid, CashRow
  <2>3. \A t \in Slots : t # s /\ Holds(req[t]) => req[t].pay \in Intents /\ req[t].pay # i
    BY DEF CreateIntentReply, MoneyInv, HeldApart, TypeInv, LocalsOK, LocalOK, Holds
  <2>4. \A t \in Slots : t # s /\ Holds(req[t]) => intent'[req[t].pay] = "created"
    BY <1>4, <2>3 DEF MoneyInv, WritesAreCovered, HeldOK
  <2> QED BY <1>2, <2>1, <2>2, <2>4 DEF Grows
<1>6. MoneyTables'
  <2>1. ConfirmedIsRecorded'
    BY <1>2, <1>5, ConfirmedStaysCovered DEF Grows
  <2>2. (OpenHasRow /\ RowHasIntent /\ RowMatchesIntent /\ CompletedWasCollected)'
    BY <1>1, <1>2, <1>4 DEF MoneyInv, MoneyTables, OpenHasRow, RowHasIntent, RowMatchesIntent,
                            CompletedWasCollected
  <2>3. EventsAreTrue'
    <3>1. \A e \in events : e.intent \in Intents
      BY DEF TypeInv, TypeOK, Event
    <3> QED BY <1>1, <1>2, <1>4, <3>1 DEF MoneyInv, MoneyTables, EventsAreTrue
  <2> QED BY <2>1, <2>2, <2>3 DEF MoneyTables
<1>7. (HeldOK(req[s]) /\ CoveredOK(req[s]))' /\ ~Holds(req'[s])
  BY <1>3 DEF HeldOK, CoveredOK, Holds
<1> QED BY <1>3, <1>5, <1>6, <1>7, WriterMoves

\* The webhook writes COMPLETED only for an intent Stripe has collected.
LEMMA HookSaveMoney ==
    ASSUME TypeInv, MoneyInv, NEW s \in Slots, HookSave(s)
    PROVE  MoneyInv'
<1> DEFINE i == req[s].pay
<1>1. /\ i \in Intents /\ i \notin CashIds /\ payStatus[i] # "NONE"
      /\ req[s].to \in EventTarget
      /\ req[s].to = "COMPLETED" => intent[i] = "succeeded"
  BY IdsAssumption DEF HookSave, TypeInv, LocalsOK, LocalOK, MoneyInv, WritesAreCovered, CoveredOK
<1>2. /\ UNCHANGED <<status, payBooking, intent, intentBooking, events>>
      /\ req \in [Slots -> Request]
  BY DEF HookSave, bookingVars, stripeVars, TypeInv, TypeOK
<1>3. /\ \A t \in Slots : t # s => req'[t] = req[t]
      /\ \/ req'[s].pc = "hookConfirm" /\ req'[s].pay = i /\ req[s].to = "COMPLETED"
         \/ req'[s].pc = "idle"
  BY <1>2 DEF HookSave, Continue, Finish, Idle, Request
<1>4. /\ \A p \in Payments : p # i => payStatus'[p] = payStatus[p]
      /\ payStatus'[i] = req[s].to
  BY <1>1 DEF HookSave, TypeInv, TypeOK, Payments
<1>5. Grows(s)
  <2>1. \A b \in Bookings : RecordedFor(b) => RecordedFor(b)'
    BY <1>1, <1>2, <1>4 DEF RecordedFor, CardPaid, CashRow, Payments
  <2>2. payStatus'[i] # "NONE"
    BY <1>1, <1>4 DEF EventTarget
  <2> QED BY <1>2, <1>4, <2>1, <2>2 DEF Grows, MoneyInv, WritesAreCovered, HeldOK
<1>6. MoneyTables'
  <2>1. ConfirmedIsRecorded'
    BY <1>2, <1>5, ConfirmedStaysCovered DEF Grows
  <2>2. (OpenHasRow /\ RowHasIntent /\ RowMatchesIntent /\ CompletedWasCollected)'
    BY <1>1, <1>2, <1>4 DEF MoneyInv, MoneyTables, OpenHasRow, RowHasIntent, RowMatchesIntent,
                            CompletedWasCollected, Payments, EventTarget
  <2>3. EventsAreTrue'
    BY <1>2 DEF MoneyInv, MoneyTables, EventsAreTrue
  <2> QED BY <2>1, <2>2, <2>3 DEF MoneyTables
<1>7. (HeldOK(req[s]) /\ CoveredOK(req[s]))' /\ ~Holds(req'[s])
  BY <1>1, <1>2, <1>3, <1>4 DEF HeldOK, CoveredOK, Holds, EventTarget
<1> QED BY <1>3, <1>5, <1>6, <1>7, WriterMoves

\* Cash is recorded before the booking is confirmed.
LEMMA CashSaveMoney ==
    ASSUME TypeInv, MoneyInv, NEW s \in Slots, CashSave(s)
    PROVE  MoneyInv'
<1>1. req[s].b \in Bookings
  BY DEF CashSave, TypeInv, LocalsOK, LocalOK
<1>2. PICK p \in CashIds :
        /\ payStatus[p] = "NONE"
        /\ payStatus' = [payStatus EXCEPT ![p] = "COMPLETED"]
        /\ payBooking' = [payBooking EXCEPT ![p] = req[s].b]
  BY DEF CashSave
<1>3. /\ UNCHANGED <<status, intent, intentBooking, events>>
      /\ req \in [Slots -> Request]
  BY DEF CashSave, bookingVars, stripeVars, TypeInv, TypeOK
<1>4. /\ \A t \in Slots : t # s => req'[t] = req[t]
      /\ req'[s].pc = "cashConfirm" /\ req'[s].b = req[s].b
  BY <1>3 DEF CashSave, Continue, Request
<1>5. /\ \A q \in Payments : q # p => payStatus'[q] = payStatus[q] /\ payBooking'[q] = payBooking[q]
      /\ payStatus'[p] = "COMPLETED" /\ payBooking'[p] = req[s].b
      /\ p \notin Intents
  BY <1>2, IdsAssumption DEF TypeInv, TypeOK, Payments
<1>6. Grows(s)
  <2>1. \A b \in Bookings : RecordedFor(b) => RecordedFor(b)'
    BY <1>2, <1>3, <1>5 DEF RecordedFor, CardPaid, CashRow, Payments
  <2> QED BY <1>3, <1>5, <2>1 DEF Grows, MoneyInv, WritesAreCovered, HeldOK
<1>7. MoneyTables'
  <2>1. ConfirmedIsRecorded'
    BY <1>3, <1>6, ConfirmedStaysCovered DEF Grows
  <2>2. (OpenHasRow /\ RowHasIntent /\ RowMatchesIntent /\ CompletedWasCollected)'
    BY <1>3, <1>5 DEF MoneyInv, MoneyTables, OpenHasRow, RowHasIntent, RowMatchesIntent,
                      CompletedWasCollected, Payments
  <2>3. EventsAreTrue'
    BY <1>3 DEF MoneyInv, MoneyTables, EventsAreTrue
  <2> QED BY <2>1, <2>2, <2>3 DEF MoneyTables
<1>8. RecordedFor(req[s].b)'
  BY <1>4, <1>5 DEF RecordedFor, CardPaid, CashRow
<1>9. (HeldOK(req[s]) /\ CoveredOK(req[s]))' /\ ~Holds(req'[s])
  BY <1>4, <1>8 DEF HeldOK, CoveredOK, Holds
<1> QED BY <1>4, <1>6, <1>7, <1>9, WriterMoves

\* Stripe's own steps: an event is emitted about what Stripe has.
LEMMA StripeMoney ==
    ASSUME TypeInv, MoneyInv, NEW i \in Intents, StripeDeclines(i) \/ StripeSucceeds(i)
    PROVE  MoneyInv'
<1>1. /\ intent[i] = "open" /\ payStatus[i] # "NONE"
      /\ UNCHANGED <<status, payStatus, payBooking, intentBooking, req>>
  BY DEF StripeDeclines, StripeSucceeds, bookingVars, payVars, MoneyInv, MoneyTables, OpenHasRow
<1>2. /\ \A j \in Intents : j # i => intent'[j] = intent[j]
      /\ intent'[i] \in {"open", "succeeded"}
      /\ \A e \in events' : \/ e \in events
                            \/ e.intent = i /\ (e.target = "COMPLETED" => intent'[i] = "succeeded")
  BY <1>1 DEF StripeDeclines, StripeSucceeds, TypeInv, TypeOK
<1>3. \A b \in Bookings : RecordedFor(b) => RecordedFor(b)'
  BY <1>1, <1>2 DEF RecordedFor, CardPaid, CashRow
<1>4. MoneyTables'
  <2>1. ConfirmedIsRecorded'
    BY <1>1, <1>3, ConfirmedStaysCovered
  <2>2. (OpenHasRow /\ RowHasIntent /\ RowMatchesIntent /\ CompletedWasCollected)'
    BY <1>1, <1>2 DEF MoneyInv, MoneyTables, OpenHasRow, RowHasIntent, RowMatchesIntent,
                      CompletedWasCollected
  <2>3. EventsAreTrue'
    <3>1. \A e \in events : e.intent \in Intents
      BY DEF TypeInv, TypeOK, Event
    <3> QED BY <1>1, <1>2, <3>1 DEF MoneyInv, MoneyTables, EventsAreTrue
  <2> QED BY <2>1, <2>2, <2>3 DEF MoneyTables
<1>5. HeldApart'
  BY <1>1 DEF MoneyInv, HeldApart, Holds
<1>6. WritesAreCovered'
  <2> SUFFICES ASSUME NEW t \in Slots PROVE (HeldOK(req[t]) /\ CoveredOK(req[t]))'
    BY DEF WritesAreCovered
  <2>1. req'[t] = req[t] /\ HeldOK(req[t]) /\ CoveredOK(req[t]) /\ LocalOK(req[t])
    BY <1>1 DEF MoneyInv, WritesAreCovered, TypeInv, LocalsOK
  <2>2. HeldOK(req[t])'
    BY <1>1, <1>2, <2>1 DEF HeldOK, Holds, LocalOK
  <2>3. CoveredOK(req[t])'
    BY <1>1, <1>2, <1>3, <2>1 DEF CoveredOK, LocalOK
  <2> QED BY <2>2, <2>3
<1> QED BY <1>4, <1>5, <1>6 DEF MoneyInv

LEMMA MoneyStep == TypeInv /\ MoneyInv /\ [Next]_vars => MoneyInv'
<1> SUFFICES ASSUME TypeInv, MoneyInv, [Next]_vars PROVE MoneyInv'
  OBVIOUS
<1>1. CASE UNCHANGED vars
  BY <1>1 DEF vars, bookingVars, payVars, stripeVars, MoneyInv, MoneyTables, OpenHasRow,
              RowHasIntent, RowMatchesIntent, EventsAreTrue, CompletedWasCollected,
              ConfirmedIsRecorded, RecordedFor, CardPaid, CashRow, HeldApart, Holds,
              WritesAreCovered, HeldOK, CoveredOK
<1>2. CASE Stripe
  BY <1>2, StripeMoney DEF Stripe
<1>3. ASSUME NEW s \in Slots, Arrives(s) \/ Step(s) \/ RequestFails(s) PROVE MoneyInv'
  BY <1>3, QuietMoney, ReadMoney, StatusMoney, IntentStripeMoney, IntentSaveMoney,
     IntentReplyMoney, HookSaveMoney, CashSaveMoney
  DEF Arrives, Step, BookingRequest, PaymentRequest, RoomRequest, BookingStep, PaymentStep, RoomStep
<1> QED BY <1>1, <1>2, <1>3 DEF Next

\* However requests, webhooks and failures interleave: a booking is confirmed, checked in or
\* checked out only if Stripe collected money for it, an admin recorded cash for it, or a
\* customer's own confirm-cash call did, which the route admits (booking.service.ts:20-21,
\* payment.controller.ts:87-92).
THEOREM MoneyCorrect == Spec => []NoFreeConfirmation
<1>1. Init => TypeInv /\ MoneyInv
  BY InitTypes, InitMoney
<1>2. TypeInv /\ MoneyInv /\ [Next]_vars => (TypeInv /\ MoneyInv)'
  BY TypeStep, MoneyStep
<1>3. TypeInv /\ MoneyInv => NoFreeConfirmation
  <2> SUFFICES ASSUME MoneyInv, NEW b \in Bookings, RecordedFor(b)
               PROVE  CollectedFor(b) \/ ClaimedFor(b)
    BY DEF MoneyInv, MoneyTables, ConfirmedIsRecorded, NoFreeConfirmation
  <2> QED BY DEF RecordedFor, CollectedFor, ClaimedFor
<1> QED BY <1>1, <1>2, <1>3, PTL DEF Spec

\* Every event Stripe can deliver finds the payment row of the booking the customer paid
\* for (payment.service.ts:163-168).
THEOREM EventsFindPayments == Spec => []EventFindsPayment
<1>1. Init => TypeInv /\ MoneyInv
  BY InitTypes, InitMoney
<1>2. TypeInv /\ MoneyInv /\ [Next]_vars => (TypeInv /\ MoneyInv)'
  BY TypeStep, MoneyStep
<1>3. TypeInv /\ MoneyInv => EventFindsPayment
  BY DEF TypeInv, TypeOK, Event, MoneyInv, MoneyTables, EventsAreTrue, OpenHasRow,
         RowMatchesIntent, EventFindsPayment
<1> QED BY <1>1, <1>2, <1>3, PTL DEF Spec

\* A card payment is COMPLETED only if Stripe collected it, in whatever order the events of
\* one intent are delivered, repeated and handled (payment.service.ts:145-211).
THEOREM CompletedCorrect == Spec => []CompletedWasCollected
<1>1. Init => TypeInv /\ MoneyInv
  BY InitTypes, InitMoney
<1>2. TypeInv /\ MoneyInv /\ [Next]_vars => (TypeInv /\ MoneyInv)'
  BY TypeStep, MoneyStep
<1>3. TypeInv /\ MoneyInv => CompletedWasCollected
  BY DEF MoneyInv, MoneyTables
<1> QED BY <1>1, <1>2, <1>3, PTL DEF Spec

--------------------------------------------------------------------------------
(***************************************************************************)
(* With one request at a time a room is never booked twice for a night, a  *)
(* booking has at most one pending payment, and the services implement the *)
(* life cycle of BookingLifecycle.  Every theorem here assumes Serial; the *)
(* code has no lock, transaction or condition that would give it more.     *)
(***************************************************************************)

\* Collision of stays is symmetric.
LEMMA OverlapSymmetric ==
    ASSUME NEW x \in Stay, NEW y \in Stay, Overlap(x, y)
    PROVE  Overlap(y, x)
  BY BoundsAssumption DEF Overlap, Stay

\* A step that leaves bookings and payments alone.
LEMMA SerialKeeps ==
    ASSUME NEW s, Slots = {s}, TypeInv, SerialInv,
           UNCHANGED <<status, stays, payStatus, payBooking>>,
           FreshOK(req'[s]), CheckedOK(req'[s]), NoPendingOK(req'[s])
    PROVE  SerialInv'
<1>1. (FreshOK(req[s]) /\ CheckedOK(req[s]) /\ NoPendingOK(req[s]))'
  BY DEF FreshOK, CheckedOK, NoPendingOK, Taken, Active
<1>2. (NoDoubleBooking /\ AtMostOnePendingPayment)'
  BY DEF SerialInv, NoDoubleBooking, AtMostOnePendingPayment, Active
<1> QED BY <1>1, <1>2 DEF SerialInv

\* A step that changes statuses without making a booking active, and leaves its slot with
\* nothing it has read.
LEMMA StatusKeeps ==
    ASSUME NEW s, Slots = {s}, TypeInv, SerialInv,
           UNCHANGED <<stays, payStatus, payBooking>>,
           \A b \in Bookings : Active(b)' => Active(b),
           req'[s].pc \in {"idle", "patchRooms"}
    PROVE  SerialInv'
<1>1. (FreshOK(req[s]) /\ CheckedOK(req[s]) /\ NoPendingOK(req[s]))'
  BY DEF FreshOK, CheckedOK, NoPendingOK
<1>2. (NoDoubleBooking /\ AtMostOnePendingPayment)'
  BY DEF SerialInv, NoDoubleBooking, AtMostOnePendingPayment
<1> QED BY <1>1, <1>2 DEF SerialInv

LEMMA InitSerial == Init => SerialInv /\ BookedInv
<1> SUFFICES ASSUME Init PROVE SerialInv /\ BookedInv
  OBVIOUS
<1>1. \A s \in Slots : FreshOK(req[s]) /\ CheckedOK(req[s]) /\ NoPendingOK(req[s])
  BY DEF Init, Idle, FreshOK, CheckedOK, NoPendingOK
<1>2. NoDoubleBooking /\ AtMostOnePendingPayment
  BY DEF Init, NoDoubleBooking, AtMostOnePendingPayment, Active
<1>3. BookedInv
  BY IdsAssumption DEF Init, BookedInv, BookedOK, Idle
<1> QED BY <1>1, <1>2, <1>3 DEF SerialInv

--------------------------------------------------------------------------------
\* create: the rooms found free are still free when they are inserted.
LEMMA CreateSerial ==
    ASSUME NEW s, Slots = {s}, TypeInv, SerialInv,
           \/ CreateStart(s) \/ CreateValidateRoom(s) \/ CreateRecheckRoom(s)
           \/ CreateConflict(s) \/ CreateInsert(s)
    PROVE  SerialInv'
<1>0. req \in [Slots -> Request] /\ req[s] \in Request
  BY DEF TypeInv, TypeOK
<1>1. CASE CreateStart(s) \/ CreateValidateRoom(s) \/ CreateConflict(s)
  <2>1. FreshOK(req'[s]) /\ CheckedOK(req'[s]) /\ NoPendingOK(req'[s])
    <3>1. CASE CreateStart(s)
      <4>1. req'[s].pc = "validate"
        BY <3>1, <1>0 DEF CreateStart, Start, Idle
      <4> QED BY <4>1 DEF FreshOK, CheckedOK, NoPendingOK
    <3>2. CASE CreateValidateRoom(s)
      BY <3>2, <1>0 DEF CreateValidateRoom, Continue, Request, FreshOK, CheckedOK, NoPendingOK
    <3>3. CASE CreateConflict(s)
      BY <3>3, <1>0 DEF CreateConflict, Finish, Idle, FreshOK, CheckedOK, NoPendingOK
    <3> QED BY <1>1, <3>1, <3>2, <3>3
  <2> QED BY <1>1, <2>1, SerialKeeps
          DEF CreateStart, CreateValidateRoom, CreateConflict, bookingVars, payVars
<1>2. CASE CreateRecheckRoom(s)
  <2>1. PICK x \in req[s].todo :
          /\ ~Taken(x)
          /\ req' = [req EXCEPT ![s] =
                [req[s] EXCEPT !.pc = IF req[s].todo \ {x} = {} THEN "insert" ELSE "recheck",
                               !.todo = req[s].todo \ {x}]]
    BY <1>2 DEF CreateRecheckRoom, Continue
  <2>2. /\ req'[s].pc = IF req[s].todo \ {x} = {} THEN "insert" ELSE "recheck"
        /\ req'[s].todo = req[s].todo \ {x}
        /\ req'[s].ask = req[s].ask
    BY <1>0, <2>1 DEF Request
  <2>3. \A y \in req[s].ask \ req[s].todo : ~Taken(y)
    BY <1>2 DEF CreateRecheckRoom, SerialInv, CheckedOK
  <2>4. CheckedOK(req'[s])
    BY <2>1, <2>2, <2>3 DEF CheckedOK
  <2>5. FreshOK(req'[s]) /\ NoPendingOK(req'[s])
    BY <2>2 DEF FreshOK, NoPendingOK
  <2> QED BY <1>2, <2>4, <2>5, SerialKeeps DEF CreateRecheckRoom, bookingVars, payVars
<1>3. CASE CreateInsert(s)
  <2>1. PICK b \in Bookings :
          /\ status[b] = "NONE"
          /\ status' = [status EXCEPT ![b] = "PENDING"]
          /\ stays' = [stays EXCEPT ![b] = req[s].ask]
    BY <1>3 DEF CreateInsert
  <2>2. \A x \in req[s].ask : ~Taken(x)
    BY <1>3 DEF CreateInsert, SerialInv, CheckedOK
  <2>3. /\ stays'[b] = req[s].ask
        /\ \A c \in Bookings : c # b => stays'[c] = stays[c] /\ (Active(c)' <=> Active(c))
    BY <2>1 DEF TypeInv, TypeOK, Active
  <2>4. \A c \in Bookings : c # b /\ Active(c) =>
            \A x \in req[s].ask, y \in stays[c] : ~Overlap(x, y) /\ ~Overlap(y, x)
    <3> SUFFICES ASSUME NEW c \in Bookings, c # b, Active(c),
                        NEW x \in req[s].ask, NEW y \in stays[c]
                 PROVE  ~Overlap(x, y) /\ ~Overlap(y, x)
      OBVIOUS
    <3>1. ~Overlap(y, x)
      BY <2>2 DEF Taken
    <3>2. x \in Stay /\ y \in Stay
      BY <1>0 DEF TypeInv, TypeOK, Request
    <3> QED BY <3>1, <3>2, OverlapSymmetric
  <2>5. NoDoubleBooking'
    BY <2>3, <2>4 DEF SerialInv, NoDoubleBooking
  <2>6. AtMostOnePendingPayment'
    BY <1>3 DEF CreateInsert, payVars, SerialInv, AtMostOnePendingPayment
  <2>7. (FreshOK(req[s]) /\ CheckedOK(req[s]) /\ NoPendingOK(req[s]))'
    BY <1>3, <1>0 DEF CreateInsert, Finish, Idle, FreshOK, CheckedOK, NoPendingOK
  <2> QED BY <2>5, <2>6, <2>7 DEF SerialInv
<1> QED BY <1>1, <1>2, <1>3

\* patchStatus: the transition is still valid when it is saved, and never revives a booking.
LEMMA PatchSerial ==
    ASSUME NEW s, Slots = {s}, TypeInv, SerialInv,
           PatchStatusRead(s) \/ PatchStatusSave(s) \/ PatchStatusRooms(s)
    PROVE  SerialInv'
<1>0. req \in [Slots -> Request] /\ req[s] \in Request
  BY DEF TypeInv, TypeOK
<1>1. CASE PatchStatusRead(s)
  <2>1. PICK b \in Bookings, to \in BookingStatus, isAdmin \in BOOLEAN :
          /\ ValidTransition(status[b], to, isAdmin)
          /\ Start(s, [Idle EXCEPT !.pc = "patchSave", !.b = b, !.to = to])
    BY <1>1 DEF PatchStatusRead
  <2>2. req'[s].pc = "patchSave" /\ req'[s].b = b /\ req'[s].to = to
    BY <1>0, <2>1 DEF Start, Idle
  <2>3. FreshOK(req'[s]) /\ CheckedOK(req'[s]) /\ NoPendingOK(req'[s])
    BY <2>1, <2>2 DEF ValidTransition, FreshOK, CheckedOK, NoPendingOK
  <2> QED BY <1>1, <2>3, SerialKeeps DEF PatchStatusRead, bookingVars, payVars
<1>2. CASE PatchStatusSave(s)
  <2>1. <<status[req[s].b], req[s].to>> \in CUSTOMER_ALLOWED_TRANSITIONS \cup ADMIN_ONLY_TRANSITIONS
    BY <1>2 DEF PatchStatusSave, SerialInv, FreshOK
  <2>2. status[req[s].b] \notin {"NONE", "CANCELLED", "CHECKED_OUT"}
    BY <2>1 DEF CUSTOMER_ALLOWED_TRANSITIONS, ADMIN_ONLY_TRANSITIONS
  <2>3. \A b \in Bookings : Active(b)' => Active(b)
    BY <1>2, <2>2 DEF PatchStatusSave, Active, TypeInv, TypeOK
  <2>4. req'[s].pc = "patchRooms"
    BY <1>0, <1>2 DEF PatchStatusSave, Continue, Request
  <2> QED BY <1>2, <2>3, <2>4, StatusKeeps DEF PatchStatusSave, payVars
<1>3. CASE PatchStatusRooms(s)
  <2>1. FreshOK(req'[s]) /\ CheckedOK(req'[s]) /\ NoPendingOK(req'[s])
    BY <1>0, <1>3 DEF PatchStatusRooms, Finish, Idle, FreshOK, CheckedOK, NoPendingOK
  <2> QED BY <1>3, <2>1, SerialKeeps DEF PatchStatusRooms, bookingVars, payVars
<1> QED BY <1>1, <1>2, <1>3

\* Payment steps that leave the bookings and the payment rows alone.
LEMMA PaymentReadsSerial ==
    ASSUME NEW s, Slots = {s}, TypeInv, SerialInv,
           \/ CreateIntentRead(s) \/ CreateIntentCheckPending(s) \/ CreateIntentStripe(s)
           \/ CreateIntentReply(s) \/ CashRead(s) \/ \E e \in Event : HookRead(s, e)
    PROVE  SerialInv'
<1>0. req \in [Slots -> Request] /\ req[s] \in Request
  BY DEF TypeInv, TypeOK
<1>1. UNCHANGED <<status, stays, payStatus, payBooking>>
  BY DEF CreateIntentRead, CreateIntentCheckPending, CreateIntentStripe, CreateIntentReply,
         CashRead, HookRead, bookingVars, payVars
<1>2. FreshOK(req'[s]) /\ CheckedOK(req'[s]) /\ NoPendingOK(req'[s])
  <2>1. CASE CreateIntentRead(s) \/ \E e \in Event : HookRead(s, e)
    <3>1. CASE CreateIntentRead(s)
      <4>1. PICK b \in Bookings : Start(s, [Idle EXCEPT !.pc = "intentPending", !.b = b])
        BY <3>1 DEF CreateIntentRead
      <4>2. [Idle EXCEPT !.pc = "intentPending", !.b = b].pc = "intentPending"
        BY DEF Idle
      <4>3. req'[s].pc = "intentPending"
        BY <4>1, <4>2, <1>0 DEF Start
      <4> QED BY <4>3 DEF FreshOK, CheckedOK, NoPendingOK
    <3>2. CASE \E e \in Event : HookRead(s, e)
      <4>1. PICK e \in Event :
              Start(s, [Idle EXCEPT !.pc = "hookSave", !.to = TargetOf(e), !.pay = e.intent])
        BY <3>2 DEF HookRead
      <4>2. [Idle EXCEPT !.pc = "hookSave", !.to = TargetOf(e), !.pay = e.intent].pc = "hookSave"
        BY DEF Idle
      <4>3. req'[s].pc = "hookSave"
        BY <4>1, <4>2, <1>0 DEF Start
      <4> QED BY <4>3 DEF FreshOK, CheckedOK, NoPendingOK
    <3> QED BY <2>1, <3>1, <3>2
  <2>2. CASE CreateIntentCheckPending(s)
    <3>1. \/ req'[s].pc = "idle"
          \/ /\ req'[s].pc = "intentStripe" /\ req'[s].b = req[s].b
             /\ ~\E p \in PaymentsOf(req[s].b) : payStatus[p] = "PENDING"
      <4>1. CASE Finish(s)
        BY <4>1, <1>0 DEF Finish, Idle
      <4>2. CASE /\ ~\E p \in PaymentsOf(req[s].b) : payStatus[p] = "PENDING"
                 /\ Continue(s, [req[s] EXCEPT !.pc = "intentStripe"])
        BY <4>2, <1>0 DEF Continue, Request
      <4> QED BY <2>2, <4>1, <4>2 DEF CreateIntentCheckPending
    <3> QED BY <3>1 DEF PaymentsOf, FreshOK, CheckedOK, NoPendingOK
  <2>3. CASE CreateIntentStripe(s)
    <3>1. req'[s].pc = "intentSave" /\ req'[s].b = req[s].b
      <4>1. PICK i : Continue(s, [req[s] EXCEPT !.pc = "intentSave", !.pay = i])
        BY <2>3 DEF CreateIntentStripe
      <4> QED BY <4>1, <1>0 DEF Continue, Request
    <3> QED BY <2>3, <3>1 DEF CreateIntentStripe, SerialInv, FreshOK, CheckedOK, NoPendingOK
  <2>4. CASE CreateIntentReply(s)
    BY <2>4, <1>0 DEF CreateIntentReply, Finish, Idle, FreshOK, CheckedOK, NoPendingOK
  <2>5. CASE CashRead(s)
    <3>1. PICK b \in Bookings : /\ status[b] = "PENDING"
                                /\ Start(s, [Idle EXCEPT !.pc = "cashSave", !.b = b])
      BY <2>5 DEF CashRead
    <3> DEFINE r == [Idle EXCEPT !.pc = "cashSave", !.b = b]
    <3>2. r.pc = "cashSave" /\ r.b = b
      BY DEF Idle
    <3>3. req'[s].pc = "cashSave" /\ req'[s].b = b
      BY <3>1, <3>2, <1>0 DEF Start
    <3> QED BY <1>1, <3>1, <3>3 DEF FreshOK, CheckedOK, NoPendingOK
  <2> QED BY <2>1, <2>2, <2>3, <2>4, <2>5
<1> QED BY <1>1, <1>2, SerialKeeps

\* Payment steps that write payment rows: only createPaymentIntent adds a pending one.
LEMMA PaymentWritesSerial ==
    ASSUME NEW s, Slots = {s}, TypeInv, SerialInv,
           CreateIntentSave(s) \/ HookSave(s) \/ CashSave(s)
    PROVE  SerialInv'
<1>0. req \in [Slots -> Request] /\ req[s] \in Request
  BY DEF TypeInv, TypeOK
<1>1. UNCHANGED <<status, stays>>
  BY DEF CreateIntentSave, HookSave, CashSave, bookingVars
<1>2. NoDoubleBooking'
  BY <1>1 DEF SerialInv, NoDoubleBooking, Active
<1>3. CASE CreateIntentSave(s)
  <2>1. \A p \in Payments : payBooking[p] = req[s].b => payStatus[p] # "PENDING"
    BY <1>3 DEF CreateIntentSave, SerialInv, NoPendingOK
  <2>2. req[s].pay \in Payments
    BY <1>3 DEF CreateIntentSave, TypeInv, LocalsOK, LocalOK, Payments
  <2>3. /\ payStatus'[req[s].pay] = "PENDING" /\ payBooking'[req[s].pay] = req[s].b
        /\ \A p \in Payments : p # req[s].pay =>
              payStatus'[p] = payStatus[p] /\ payBooking'[p] = payBooking[p]
    BY <1>3, <2>2 DEF CreateIntentSave, TypeInv, TypeOK
  <2>4. AtMostOnePendingPayment'
    BY <2>1, <2>3 DEF SerialInv, AtMostOnePendingPayment
  <2>5. (FreshOK(req[s]) /\ CheckedOK(req[s]) /\ NoPendingOK(req[s]))'
    BY <1>3, <1>0 DEF CreateIntentSave, Continue, Request, FreshOK, CheckedOK, NoPendingOK
  <2> QED BY <1>2, <2>4, <2>5 DEF SerialInv
<1>4. CASE HookSave(s)
  <2>1. req[s].pay \in Payments /\ req[s].to \in EventTarget
    BY <1>4 DEF HookSave, TypeInv, LocalsOK, LocalOK, Payments
  <2>2. AtMostOnePendingPayment'
    BY <1>4, <2>1 DEF HookSave, TypeInv, TypeOK, EventTarget, SerialInv, AtMostOnePendingPayment
  <2>3. (FreshOK(req[s]) /\ CheckedOK(req[s]) /\ NoPendingOK(req[s]))'
    BY <1>4, <1>0 DEF HookSave, Continue, Finish, Idle, Request, FreshOK, CheckedOK, NoPendingOK
  <2> QED BY <1>2, <2>2, <2>3 DEF SerialInv
<1>5. CASE CashSave(s)
  <2>1. AtMostOnePendingPayment'
    BY <1>5 DEF CashSave, TypeInv, TypeOK, Payments, SerialInv, AtMostOnePendingPayment
  <2>2. status[req[s].b] = "PENDING"
    BY <1>5 DEF CashSave, SerialInv, FreshOK
  <2>3. req'[s].pc = "cashConfirm" /\ req'[s].b = req[s].b
    BY <1>5, <1>0 DEF CashSave, Continue, Request
  <2>4. (FreshOK(req[s]) /\ CheckedOK(req[s]) /\ NoPendingOK(req[s]))'
    BY <1>1, <2>2, <2>3 DEF FreshOK, CheckedOK, NoPendingOK
  <2> QED BY <1>2, <2>1, <2>4 DEF SerialInv
<1> QED BY <1>3, <1>4, <1>5

\* Payment steps that confirm a booking: it was pending, so it already blocked its rooms.
LEMMA ConfirmSerial ==
    ASSUME NEW s, Slots = {s}, TypeInv, SerialInv, HookConfirm(s) \/ CashConfirm(s)
    PROVE  SerialInv'
<1>0. req \in [Slots -> Request] /\ status \in [Bookings -> BookingStatus \cup {"NONE"}]
  BY DEF TypeInv, TypeOK
<1>1. req'[s].pc = "idle"
  BY <1>0 DEF HookConfirm, CashConfirm, Finish, Idle
<1>2. CASE HookConfirm(s)
  <2>1. \A b \in Bookings : Active(b)' => Active(b)
    BY <1>0, <1>2 DEF HookConfirm, Active
  <2> QED BY <1>1, <1>2, <2>1, StatusKeeps DEF HookConfirm, payVars
<1>3. CASE CashConfirm(s)
  <2>1. status[req[s].b] = "PENDING"
    BY <1>3 DEF CashConfirm, SerialInv, FreshOK
  <2>2. \A b \in Bookings : Active(b)' => Active(b)
    BY <1>0, <1>3, <2>1 DEF CashConfirm, Active
  <2> QED BY <1>1, <1>3, <2>2, StatusKeeps DEF CashConfirm, payVars
<1> QED BY <1>2, <1>3

LEMMA OthersSerial ==
    ASSUME NEW s, Slots = {s}, TypeInv, SerialInv,
           UpdateRoomPreload(s) \/ UpdateRoomSave(s) \/ RequestFails(s)
    PROVE  SerialInv'
<1>0. req \in [Slots -> Request]
  BY DEF TypeInv, TypeOK
<1>1. UNCHANGED <<status, stays, payStatus, payBooking>>
  BY DEF UpdateRoomPreload, UpdateRoomSave, RequestFails, bookingVars, payVars
<1>2. req'[s].pc \in {"idle", "roomSave"}
  <2>1. CASE UpdateRoomPreload(s)
    BY <1>0, <2>1 DEF UpdateRoomPreload, Start, Idle
  <2>2. CASE UpdateRoomSave(s) \/ RequestFails(s)
    BY <1>0, <2>2 DEF UpdateRoomSave, RequestFails, Finish, Idle
  <2> QED BY <2>1, <2>2
<1>3. FreshOK(req'[s]) /\ CheckedOK(req'[s]) /\ NoPendingOK(req'[s])
  BY <1>2 DEF FreshOK, CheckedOK, NoPendingOK
<1> QED BY <1>1, <1>3, SerialKeeps

LEMMA SerialStep ==
    ASSUME Serial PROVE TypeInv /\ SerialInv /\ [Next]_vars => SerialInv'
<1> SUFFICES ASSUME TypeInv, SerialInv, [Next]_vars PROVE SerialInv'
  OBVIOUS
<1>1. PICK s : Slots = {s}
  BY DEF Serial
<1>2. CASE Arrives(s) \/ Step(s) \/ RequestFails(s)
  BY <1>1, <1>2, CreateSerial, PatchSerial, PaymentReadsSerial, PaymentWritesSerial,
     ConfirmSerial, OthersSerial
  DEF Arrives, Step, BookingRequest, PaymentRequest, RoomRequest, BookingStep, PaymentStep, RoomStep
<1>3. CASE Stripe \/ UNCHANGED vars
  <2>1. UNCHANGED <<status, stays, payStatus, payBooking, req>>
    BY <1>3 DEF Stripe, StripeDeclines, StripeSucceeds, vars, bookingVars, payVars
  <2>2. FreshOK(req'[s]) /\ CheckedOK(req'[s]) /\ NoPendingOK(req'[s])
    BY <1>1, <2>1 DEF SerialInv
  <2> QED BY <1>1, <2>1, <2>2, SerialKeeps
<1> QED BY <1>1, <1>2, <1>3 DEF Next

\* One request at a time: one room is never in two live bookings for the same night
\* (booking.service.ts:298-321 and 351-379).
THEOREM NoDoubleBookingSerially == ASSUME Serial PROVE Spec => []NoDoubleBooking
<1>1. Init => TypeInv /\ SerialInv
  BY InitTypes, InitSerial
<1>2. TypeInv /\ SerialInv /\ [Next]_vars => (TypeInv /\ SerialInv)'
  BY TypeStep, SerialStep
<1>3. TypeInv /\ SerialInv => NoDoubleBooking
  BY DEF SerialInv
<1> QED BY <1>1, <1>2, <1>3, PTL DEF Spec

\* One request at a time: a booking has at most one payment the customer could still
\* complete (payment.service.ts:89-96).
THEOREM OnePendingPaymentSerially == ASSUME Serial PROVE Spec => []AtMostOnePendingPayment
<1>1. Init => TypeInv /\ SerialInv
  BY InitTypes, InitSerial
<1>2. TypeInv /\ SerialInv /\ [Next]_vars => (TypeInv /\ SerialInv)'
  BY TypeStep, SerialStep
<1>3. TypeInv /\ SerialInv => AtMostOnePendingPayment
  BY DEF SerialInv
<1> QED BY <1>1, <1>2, <1>3, PTL DEF Spec

--------------------------------------------------------------------------------
(***************************************************************************)
(* With one request at a time the services implement BookingLifecycle:     *)
(* each step of Reservation is one step of the life cycle or changes       *)
(* neither a status nor what is paid.                                      *)
(***************************************************************************)

\* A booking that is worked on or paid for exists, and bookings are never deleted.
LEMMA BookedKeeps ==
    ASSUME TypeInv, BookedInv, NEW s \in Slots,
           \A t \in Slots : t # s => req'[t] = req[t],
           \A b \in Bookings : status[b] # "NONE" => status'[b] # "NONE",
           BookedOK(req'[s]),
           \A i \in Intents : intent'[i] # "NONE" =>
               \/ intent[i] # "NONE" /\ intentBooking'[i] = intentBooking[i]
               \/ intentBooking'[i] \in Bookings /\ status[intentBooking'[i]] # "NONE"
    PROVE  BookedInv'
<1>1. \A t \in Slots : BookedOK(req[t])'
  BY DEF BookedInv, BookedOK
<1>2. \A i \in Intents : intent'[i] # "NONE" =>
          intentBooking'[i] \in Bookings /\ status'[intentBooking'[i]] # "NONE"
  BY DEF BookedInv
<1> QED BY <1>1, <1>2 DEF BookedInv

LEMMA BookedSlot ==
    ASSUME TypeInv, MoneyInv, BookedInv, NEW s \in Slots, Arrives(s) \/ Step(s) \/ RequestFails(s)
    PROVE  BookedInv'
<1>0. /\ req \in [Slots -> Request] /\ BookedOK(req[s]) /\ None \notin Bookings
      /\ status \in [Bookings -> BookingStatus \cup {"NONE"}]
  BY IdsAssumption DEF TypeInv, TypeOK, BookedInv
<1>1. CASE BookingRequest(s)
  <2>1. CASE CreateStart(s)
    BY <2>1, <1>0, BookedKeeps DEF CreateStart, Start, Idle, BookedOK, bookingVars, stripeVars
  <2>2. CASE PatchStatusRead(s)
    BY <2>2, <1>0, BookedKeeps DEF PatchStatusRead, Start, Idle, BookedOK, bookingVars, stripeVars
  <2> QED BY <1>1, <2>1, <2>2 DEF BookingRequest
<1>2. CASE PaymentRequest(s)
  <2>1. CASE CreateIntentRead(s)
    BY <2>1, <1>0, BookedKeeps DEF CreateIntentRead, Start, Idle, BookedOK, bookingVars, stripeVars
  <2>2. CASE CashRead(s)
    BY <2>2, <1>0, BookedKeeps DEF CashRead, Start, Idle, BookedOK, bookingVars, stripeVars
  <2>3. ASSUME NEW e \in Event, HookRead(s, e) PROVE BookedInv'
    BY <2>3, <1>0, BookedKeeps DEF HookRead, Start, Idle, BookedOK, bookingVars, stripeVars
  <2> QED BY <1>2, <2>1, <2>2, <2>3 DEF PaymentRequest
<1>3. CASE RoomRequest(s)
  BY <1>3, <1>0, BookedKeeps DEF RoomRequest, UpdateRoomPreload, Start, Idle, BookedOK,
                                 bookingVars, stripeVars
<1>4. CASE RoomStep(s) \/ RequestFails(s) \/ CreateConflict(s) \/ PatchStatusRooms(s)
  BY <1>4, <1>0, BookedKeeps DEF RoomStep, UpdateRoomSave, RequestFails, CreateConflict,
          PatchStatusRooms, Finish, Idle, BookedOK, bookingVars, stripeVars
<1>5. CASE CreateValidateRoom(s)
  <2>1. (\A t \in Slots : t # s => req'[t] = req[t]) /\ req'[s].b = req[s].b
    BY <1>5, <1>0 DEF CreateValidateRoom, Continue, Request
  <2> QED BY <1>5, <1>0, <2>1, BookedKeeps DEF CreateValidateRoom, BookedOK, bookingVars, stripeVars
<1>6. CASE CreateRecheckRoom(s)
  <2>1. (\A t \in Slots : t # s => req'[t] = req[t]) /\ req'[s].b = req[s].b
    BY <1>6, <1>0 DEF CreateRecheckRoom, Continue, Request
  <2> QED BY <1>6, <1>0, <2>1, BookedKeeps DEF CreateRecheckRoom, BookedOK, bookingVars, stripeVars
<1>7. CASE CreateInsert(s)
  <2>1. \A b \in Bookings : status[b] # "NONE" => status'[b] # "NONE"
    BY <1>7, <1>0 DEF CreateInsert
  <2> QED BY <1>7, <1>0, <2>1, BookedKeeps DEF CreateInsert, Finish, Idle, BookedOK, stripeVars
<1>8. CASE PatchStatusSave(s)
  <2>1. req[s].to \in BookingStatus
    BY <1>8 DEF PatchStatusSave, TypeInv, LocalsOK, LocalOK
  <2>2. \A b \in Bookings : status[b] # "NONE" => status'[b] # "NONE"
    BY <1>8, <1>0, <2>1 DEF PatchStatusSave, BookingStatus
  <2>3. (\A t \in Slots : t # s => req'[t] = req[t]) /\ req'[s].b = req[s].b
    BY <1>8, <1>0 DEF PatchStatusSave, Continue, Request
  <2>4. BookedOK(req'[s])
    BY <1>0, <2>3 DEF BookedOK
  <2> QED BY <1>8, <2>2, <2>3, <2>4, BookedKeeps DEF PatchStatusSave, stripeVars
<1>9. CASE CreateIntentCheckPending(s)
  <2>1. (\A t \in Slots : t # s => req'[t] = req[t]) /\ req'[s].b \in {req[s].b, None}
    BY <1>9, <1>0 DEF CreateIntentCheckPending, Continue, Finish, Idle, Request
  <2> QED BY <1>9, <1>0, <2>1, BookedKeeps DEF CreateIntentCheckPending, BookedOK, bookingVars,
                                               stripeVars
<1>10. CASE CreateIntentStripe(s)
  <2>1. req[s].b \in Bookings
    BY <1>10 DEF CreateIntentStripe, TypeInv, LocalsOK, LocalOK
  <2>2. (\A t \in Slots : t # s => req'[t] = req[t]) /\ req'[s].b = req[s].b
    BY <1>10, <1>0 DEF CreateIntentStripe, Continue, Request
  <2>3. \A i \in Intents : intent'[i] # "NONE" =>
               \/ intent[i] # "NONE" /\ intentBooking'[i] = intentBooking[i]
               \/ intentBooking'[i] = req[s].b
    BY <1>10 DEF CreateIntentStripe, TypeInv, TypeOK
  <2>4. BookedOK(req'[s]) /\ UNCHANGED status
    BY <1>10, <1>0, <2>2 DEF BookedOK, CreateIntentStripe, bookingVars
  <2>5. status[req[s].b] # "NONE"
    BY <1>0, <2>1 DEF BookedOK
  <2> QED BY <2>1, <2>2, <2>3, <2>4, <2>5, BookedKeeps
<1>11. CASE CreateIntentSave(s)
  <2>1. (\A t \in Slots : t # s => req'[t] = req[t]) /\ req'[s].b = req[s].b
    BY <1>11, <1>0 DEF CreateIntentSave, Continue, Request
  <2> QED BY <1>11, <1>0, <2>1, BookedKeeps DEF CreateIntentSave, BookedOK, bookingVars, stripeVars
<1>12. CASE CreateIntentReply(s)
  <2>1. req[s].pay \in Intents /\ intent[req[s].pay] = "created"
    BY <1>12 DEF CreateIntentReply, TypeInv, LocalsOK, LocalOK, MoneyInv, WritesAreCovered,
                 HeldOK, Holds
  <2>2. \A i \in Intents : intent'[i] # "NONE" => intent[i] # "NONE"
    BY <1>12, <2>1 DEF CreateIntentReply, TypeInv, TypeOK
  <2> QED BY <1>12, <1>0, <2>2, BookedKeeps DEF CreateIntentReply, Finish, Idle, BookedOK,
                                                bookingVars
<1>13. CASE HookSave(s)
  <2>1. (\A t \in Slots : t # s => req'[t] = req[t]) /\ req'[s].b \in {req[s].b, None}
    BY <1>13, <1>0 DEF HookSave, Continue, Finish, Idle, Request
  <2> QED BY <1>13, <1>0, <2>1, BookedKeeps DEF HookSave, BookedOK, bookingVars, stripeVars
<1>14. CASE HookConfirm(s) \/ CashConfirm(s)
  <2>1. \A b \in Bookings : status[b] # "NONE" => status'[b] # "NONE"
    BY <1>14, <1>0 DEF HookConfirm, CashConfirm
  <2> QED BY <1>14, <1>0, <2>1, BookedKeeps DEF HookConfirm, CashConfirm, Finish, Idle, BookedOK,
                                                stripeVars
<1>15. CASE CashSave(s)
  <2>1. (\A t \in Slots : t # s => req'[t] = req[t]) /\ req'[s].b = req[s].b
    BY <1>15, <1>0 DEF CashSave, Continue, Request
  <2> QED BY <1>15, <1>0, <2>1, BookedKeeps DEF CashSave, BookedOK, bookingVars, stripeVars
<1> QED BY <1>1, <1>2, <1>3, <1>4, <1>5, <1>6, <1>7, <1>8, <1>9, <1>10, <1>11, <1>12, <1>13,
           <1>14, <1>15 DEF Arrives, Step, BookingStep, PaymentStep, RoomStep

LEMMA BookedStep == TypeInv /\ MoneyInv /\ BookedInv /\ [Next]_vars => BookedInv'
<1> SUFFICES ASSUME TypeInv, MoneyInv, BookedInv, [Next]_vars PROVE BookedInv'
  OBVIOUS
<1>1. CASE UNCHANGED vars
  BY <1>1 DEF vars, bookingVars, stripeVars, BookedInv, BookedOK
<1>2. CASE Stripe
  <2>1. /\ UNCHANGED <<status, req, intentBooking>>
        /\ \A i \in Intents : intent'[i] # "NONE" => intent[i] # "NONE"
    BY <1>2 DEF Stripe, StripeDeclines, StripeSucceeds, bookingVars, TypeInv, TypeOK
  <2> QED BY <2>1 DEF BookedInv, BookedOK
<1>3. ASSUME NEW s \in Slots, Arrives(s) \/ Step(s) \/ RequestFails(s) PROVE BookedInv'
  BY <1>3, BookedSlot
<1> QED BY <1>1, <1>2, <1>3 DEF Next

--------------------------------------------------------------------------------
\* What BookingLifecycle calls paid.
Paid == {b \in Bookings : RecordedFor(b)}

\* Steps the life cycle does not see.
LEMMA Stutters ==
    ASSUME UNCHANGED status, \A b \in Bookings : RecordedFor(b)' <=> RecordedFor(b)
    PROVE  UNCHANGED <<status, Paid>>
  BY DEF Paid

\* A step that writes neither a payment row nor what Stripe has collected.
LEMMA PaidUnchanged ==
    ASSUME UNCHANGED <<payVars, intent, intentBooking>>
    PROVE  \A b \in Bookings : RecordedFor(b)' <=> RecordedFor(b)
  BY DEF RecordedFor, CardPaid, CashRow, payVars

\* The state the life cycle step of a slot starts from.
Good == TypeInv /\ MoneyInv /\ BookedInv /\ SerialInv

\* create and patchStatus: Create, CheckIn, CheckOut and Cancel.
LEMMA BookingSimulates ==
    ASSUME Good, NEW s \in Slots, BookingStep(s) \/ BookingRequest(s)
    PROVE  Lifecycle!Next \/ UNCHANGED <<status, Paid>>
<1>1. CASE CreateInsert(s)
  <2>1. PICK b \in Bookings : status[b] = "NONE" /\ status' = [status EXCEPT ![b] = "PENDING"]
    BY <1>1 DEF CreateInsert
  <2>2. Paid' = Paid
    BY <1>1, PaidUnchanged DEF Paid, CreateInsert, stripeVars
  <2>3. Lifecycle!Moves(b, {"NONE"}, "PENDING")
    BY <2>1, <2>2 DEF Lifecycle!Moves, Paid
  <2> QED BY <2>3 DEF Lifecycle!Next, Lifecycle!Create
<1>2. CASE PatchStatusSave(s)
  <2> DEFINE b == req[s].b  to == req[s].to
  <2>1. b \in Bookings /\ status' = [status EXCEPT ![b] = to]
    BY <1>2 DEF PatchStatusSave, Good, TypeInv, LocalsOK, LocalOK
  <2>2. \/ to = "CANCELLED" /\ status[b] \in {"PENDING", "CONFIRMED"}
        \/ to = "CHECKED_IN" /\ status[b] \in {"CONFIRMED"}
        \/ to = "CHECKED_OUT" /\ status[b] \in {"CHECKED_IN"}
    <3>1. <<status[b], to>> \in CUSTOMER_ALLOWED_TRANSITIONS \cup ADMIN_ONLY_TRANSITIONS
      BY <1>2 DEF PatchStatusSave, Good, SerialInv, FreshOK
    <3> QED BY <3>1 DEF CUSTOMER_ALLOWED_TRANSITIONS, ADMIN_ONLY_TRANSITIONS
  <2>3. Paid' = Paid
    BY <1>2, PaidUnchanged DEF Paid, PatchStatusSave, stripeVars
  <2>4. \/ Lifecycle!Moves(b, {"PENDING", "CONFIRMED"}, "CANCELLED")
        \/ Lifecycle!Moves(b, {"CONFIRMED"}, "CHECKED_IN")
        \/ Lifecycle!Moves(b, {"CHECKED_IN"}, "CHECKED_OUT")
    BY <2>1, <2>2, <2>3 DEF Lifecycle!Moves, Paid
  <2> QED BY <2>1, <2>4 DEF Lifecycle!Next, Lifecycle!Cancel, Lifecycle!CheckIn, Lifecycle!CheckOut
<1>3. CASE \/ CreateValidateRoom(s) \/ CreateRecheckRoom(s) \/ CreateConflict(s)
           \/ PatchStatusRooms(s) \/ BookingRequest(s)
  <2>1. UNCHANGED <<status, payVars, intent, intentBooking>>
    BY <1>3 DEF CreateValidateRoom, CreateRecheckRoom, CreateConflict, PatchStatusRooms,
                BookingRequest, CreateStart, PatchStatusRead, bookingVars, stripeVars
  <2> QED BY <2>1, PaidUnchanged, Stutters
<1> QED BY <1>1, <1>2, <1>3 DEF BookingStep

\* The webhook and the cash desk: Confirm, and Pay when cash is recorded.
LEMMA PaymentSimulates ==
    ASSUME Good, NEW s \in Slots, PaymentStep(s) \/ PaymentRequest(s)
    PROVE  Lifecycle!Next \/ UNCHANGED <<status, Paid>>
<1>1. CASE HookConfirm(s)
  <2> DEFINE b == payBooking[req[s].pay]
  <2>1. b \in Bookings /\ RecordedFor(b)
    BY <1>1 DEF HookConfirm, Good, TypeInv, LocalsOK, LocalOK, MoneyInv, WritesAreCovered,
                CoveredOK, MoneyTables, RowMatchesIntent, RecordedFor, CardPaid, CashRow
  <2>2. \A c \in Bookings : RecordedFor(c)' <=> RecordedFor(c)
    BY <1>1, PaidUnchanged DEF HookConfirm, stripeVars
  <2>3. CASE status[b] = "PENDING"
    <3>1. status' = [status EXCEPT ![b] = "CONFIRMED"]
      BY <1>1, <2>3 DEF HookConfirm, Good, TypeInv, TypeOK
    <3>2. Lifecycle!Moves(b, {"PENDING"}, "CONFIRMED")
      BY <2>2, <2>3, <3>1 DEF Lifecycle!Moves, Paid
    <3> QED BY <2>1, <3>2 DEF Lifecycle!Next, Lifecycle!Confirm
  <2>4. CASE status[b] # "PENDING"
    <3>1. UNCHANGED status
      BY <1>1, <2>4 DEF HookConfirm, Good, TypeInv, TypeOK
    <3> QED BY <2>2, <3>1, Stutters
  <2> QED BY <2>3, <2>4
<1>2. CASE CashConfirm(s)
  <2> DEFINE b == req[s].b
  <2>1. /\ b \in Bookings /\ RecordedFor(b) /\ status[b] = "PENDING"
        /\ status' = [status EXCEPT ![b] = "CONFIRMED"]
    BY <1>2 DEF CashConfirm, Good, TypeInv, LocalsOK, LocalOK, MoneyInv, WritesAreCovered,
                CoveredOK, SerialInv, FreshOK
  <2>2. Paid' = Paid
    BY <1>2, PaidUnchanged DEF Paid, CashConfirm, stripeVars
  <2>3. Lifecycle!Moves(b, {"PENDING"}, "CONFIRMED")
    BY <2>1, <2>2 DEF Lifecycle!Moves, Paid
  <2> QED BY <2>1, <2>3 DEF Lifecycle!Next, Lifecycle!Confirm
<1>3. CASE CashSave(s)
  <2> DEFINE b == req[s].b
  <2>1. PICK p \in CashIds :
          /\ payStatus[p] = "NONE"
          /\ payStatus' = [payStatus EXCEPT ![p] = "COMPLETED"]
          /\ payBooking' = [payBooking EXCEPT ![p] = b]
    BY <1>3 DEF CashSave
  <2>2. b \in Bookings /\ status[b] # "NONE" /\ UNCHANGED <<status, intent, intentBooking>>
    BY <1>3 DEF CashSave, Good, TypeInv, LocalsOK, LocalOK, BookedInv, BookedOK, bookingVars,
                stripeVars
  <2>3. \A q \in CashIds : /\ payStatus'[q] = IF q = p THEN "COMPLETED" ELSE payStatus[q]
                           /\ payBooking'[q] = IF q = p THEN b ELSE payBooking[q]
    BY <2>1 DEF Good, TypeInv, TypeOK, Payments
  <2>4. \A c \in Bookings : RecordedFor(c)' <=> RecordedFor(c) \/ c = b
    BY <2>1, <2>2, <2>3 DEF RecordedFor, CardPaid, CashRow
  <2>5. Paid' = Paid \cup {b}
    BY <2>2, <2>4 DEF Paid
  <2>6. Lifecycle!Pay(b)
    BY <2>2, <2>5 DEF Lifecycle!Pay, Paid
  <2> QED BY <2>2, <2>6 DEF Lifecycle!Next
<1>4. CASE CreateIntentStripe(s)
  <2>1. PICK i \in Intents :
          /\ intent[i] = "NONE"
          /\ intent' = [intent EXCEPT ![i] = "created"]
          /\ intentBooking' = [intentBooking EXCEPT ![i] = req[s].b]
    BY <1>4 DEF CreateIntentStripe
  <2>2. \A j \in Intents : /\ j # i => intent'[j] = intent[j] /\ intentBooking'[j] = intentBooking[j]
                           /\ intent[i] # "succeeded" /\ intent'[i] # "succeeded"
    BY <2>1 DEF Good, TypeInv, TypeOK
  <2>3. UNCHANGED <<status, payStatus, payBooking>>
    BY <1>4 DEF CreateIntentStripe, bookingVars, payVars
  <2>4. \A c \in Bookings : RecordedFor(c)' <=> RecordedFor(c)
    BY <2>2, <2>3 DEF RecordedFor, CardPaid, CashRow
  <2> QED BY <2>3, <2>4, Stutters
<1>5. CASE CreateIntentReply(s)
  <2>1. req[s].pay \in Intents /\ intent[req[s].pay] = "created"
    BY <1>5 DEF CreateIntentReply, Good, TypeInv, LocalsOK, LocalOK, MoneyInv, WritesAreCovered,
                HeldOK, Holds
  <2>2. \A j \in Intents : (intent'[j] = "succeeded") <=> (intent[j] = "succeeded")
    BY <1>5, <2>1 DEF CreateIntentReply, Good, TypeInv, TypeOK
  <2>3. UNCHANGED <<status, payStatus, payBooking, intentBooking>>
    BY <1>5 DEF CreateIntentReply, bookingVars, payVars
  <2>4. \A c \in Bookings : RecordedFor(c)' <=> RecordedFor(c)
    BY <2>2, <2>3 DEF RecordedFor, CardPaid, CashRow
  <2> QED BY <2>3, <2>4, Stutters
<1>6. CASE CreateIntentSave(s) \/ HookSave(s)
  <2>1. req[s].pay \in Intents /\ req[s].pay \notin CashIds
    BY <1>6, IdsAssumption DEF CreateIntentSave, HookSave, Good, TypeInv, LocalsOK, LocalOK
  <2>2. \A p \in CashIds : payStatus'[p] = payStatus[p] /\ payBooking'[p] = payBooking[p]
    BY <1>6, <2>1 DEF CreateIntentSave, HookSave, Good, TypeInv, TypeOK, Payments
  <2>3. UNCHANGED <<status, intent, intentBooking>>
    BY <1>6 DEF CreateIntentSave, HookSave, bookingVars, stripeVars
  <2>4. \A c \in Bookings : RecordedFor(c)' <=> RecordedFor(c)
    BY <2>2, <2>3 DEF RecordedFor, CardPaid, CashRow
  <2> QED BY <2>3, <2>4, Stutters
<1>7. CASE CreateIntentCheckPending(s) \/ PaymentRequest(s)
  <2>1. UNCHANGED <<status, payVars, intent, intentBooking>>
    BY <1>7 DEF CreateIntentCheckPending, PaymentRequest, CreateIntentRead, CashRead, HookRead,
                bookingVars, stripeVars
  <2> QED BY <2>1, PaidUnchanged, Stutters
<1> QED BY <1>1, <1>2, <1>3, <1>4, <1>5, <1>6, <1>7 DEF PaymentStep

\* Stripe: Pay when the money is collected.
LEMMA StripeSimulates ==
    ASSUME Good, NEW i \in Intents, StripeDeclines(i) \/ StripeSucceeds(i)
    PROVE  Lifecycle!Next \/ UNCHANGED <<status, Paid>>
<1>1. CASE StripeDeclines(i)
  BY <1>1, PaidUnchanged, Stutters DEF StripeDeclines, bookingVars
<1>2. CASE StripeSucceeds(i)
  <2> DEFINE b == intentBooking[i]
  <2>1. b \in Bookings /\ status[b] # "NONE" /\ UNCHANGED <<status, payVars, intentBooking>>
    BY <1>2 DEF StripeSucceeds, Good, BookedInv, bookingVars
  <2>2. \A j \in Intents : intent'[j] = IF j = i THEN "succeeded" ELSE intent[j]
    BY <1>2 DEF StripeSucceeds, Good, TypeInv, TypeOK
  <2>3. \A c \in Bookings : RecordedFor(c)' <=> RecordedFor(c) \/ c = b
    BY <2>1, <2>2 DEF RecordedFor, CardPaid, CashRow, payVars
  <2>4. Paid' = Paid \cup {b}
    BY <2>1, <2>3 DEF Paid
  <2>5. Lifecycle!Pay(b)
    BY <2>1, <2>4 DEF Lifecycle!Pay, Paid
  <2> QED BY <2>1, <2>5 DEF Lifecycle!Next
<1> QED BY <1>1, <1>2

LEMMA StepSimulates == Good /\ [Next]_vars => [Lifecycle!Next]_<<status, Paid>>
<1> SUFFICES ASSUME Good, [Next]_vars PROVE Lifecycle!Next \/ UNCHANGED <<status, Paid>>
  OBVIOUS
<1>1. CASE UNCHANGED vars
  BY <1>1, PaidUnchanged, Stutters DEF vars, bookingVars, stripeVars
<1>2. CASE Stripe
  BY <1>2, StripeSimulates DEF Stripe
<1>3. ASSUME NEW s \in Slots, Arrives(s) \/ Step(s) \/ RequestFails(s)
      PROVE  Lifecycle!Next \/ UNCHANGED <<status, Paid>>
  <2>1. CASE RoomRequest(s) \/ RoomStep(s) \/ RequestFails(s)
    <3>1. UNCHANGED <<status, payVars, intent, intentBooking>>
      BY <2>1 DEF RoomRequest, UpdateRoomPreload, RoomStep, UpdateRoomSave, RequestFails,
                  bookingVars, stripeVars
    <3> QED BY <3>1, PaidUnchanged, Stutters
  <2> QED BY <1>3, <2>1, BookingSimulates, PaymentSimulates DEF Arrives, Step
<1> QED BY <1>1, <1>2, <1>3 DEF Next

\* One request at a time, the services implement the life cycle a booking is meant to have:
\* only the transitions of the tables and of the payment flow, and no confirmation before
\* a payment was recorded (booking.service.ts:20-40, payment.service.ts:181-185 and 248-251).
THEOREM LifecycleSerially == ASSUME Serial PROVE Spec => ImplementsLifecycle
<1>1. Init => Good
  BY InitTypes, InitMoney, InitSerial DEF Good
<1>2. Good /\ [Next]_vars => Good'
  BY TypeStep, MoneyStep, BookedStep, SerialStep DEF Good
<1>3. Init => Lifecycle!Init
  BY IdsAssumption DEF Init, Lifecycle!Init, RecordedFor, CardPaid, CashRow, Payments
<1>4. Good /\ [Next]_vars => [Lifecycle!Next]_(Lifecycle!lifecycleVars)
  BY StepSimulates DEF Lifecycle!lifecycleVars, Paid
<1> QED BY <1>1, <1>2, <1>3, <1>4, PTL DEF Spec, ImplementsLifecycle, Lifecycle!Spec


--------------------------------------------------------------------------------
(***************************************************************************)
(* With one request at a time, a room that the booking service marked      *)
(* OCCUPIED has a guest who is checked in, or was left behind by a         *)
(* check-out that died half way.                                           *)
(***************************************************************************)

\* A step that leaves the rooms alone, and the bookings of guests who are in, or have left, as
\* they are, and is not about to write rooms, before or after.
LEMMA GuestKeeps ==
    ASSUME NEW s, Slots = {s}, TypeInv, GuestInv, UNCHANGED roomVars,
           \A b \in Bookings : status[b] \in {"CHECKED_IN", "CHECKED_OUT"} =>
               status'[b] = status[b] /\ stays'[b] = stays[b],
           req[s].pc # "patchRooms", req'[s].pc # "patchRooms"
    PROVE  GuestInv'
<1>1. (\A t \in Slots : PatchedOK(req[t]))'
  BY DEF PatchedOK
<1>2. ASSUME NEW m \in Rooms, roomStatus'[m] = "OCCUPIED", roomWriter'[m] = "BOOKING"
      PROVE  \E b \in Bookings : HoldsRoom(b, m)'
  <2>1. PICK b \in Bookings : HoldsRoom(b, m)
    BY <1>2 DEF roomVars, GuestInv, OccupiedHasGuest
  <2>2. /\ m \in RoomsOf(b)
        /\ \/ status[b] = "CHECKED_IN"
           \/ status[b] = "CHECKED_OUT" /\ b \in leftBehind
    BY <2>1 DEF HoldsRoom, LeavesRooms
  <2>3. status'[b] = status[b] /\ stays'[b] = stays[b] /\ leftBehind' = leftBehind
    BY <2>2 DEF roomVars
  <2> QED BY <2>2, <2>3 DEF HoldsRoom, LeavesRooms, RoomsOf
<1> QED BY <1>1, <1>2 DEF GuestInv, OccupiedHasGuest

\* The requests that start, and those that go on or end elsewhere than before the rooms.
LEMMA StartsElsewhere ==
    ASSUME NEW s \in Slots, TypeInv, Arrives(s)
    PROVE  /\ req[s].pc = "idle" /\ req'[s].pc # "patchRooms"
           /\ UNCHANGED <<bookingVars, roomVars>>
<1>0. req \in [Slots -> Request]
  BY DEF TypeInv, TypeOK
<1>1. \A r : Start(s, r) => req[s].pc = "idle" /\ req'[s] = r
  BY <1>0 DEF Start, Idle
<1>2. CASE CreateStart(s)
  <2>1. PICK ask \in Requests :
          Start(s, [Idle EXCEPT !.pc = "validate", !.ask = ask, !.todo = ask])
    BY <1>2 DEF CreateStart
  <2>2. [Idle EXCEPT !.pc = "validate", !.ask = ask, !.todo = ask].pc = "validate"
    BY DEF Idle
  <2> QED BY <1>1, <1>2, <2>1, <2>2 DEF CreateStart
<1>3. CASE PatchStatusRead(s)
  <2>1. PICK b \in Bookings, to \in BookingStatus :
          Start(s, [Idle EXCEPT !.pc = "patchSave", !.b = b, !.to = to])
    BY <1>3 DEF PatchStatusRead
  <2>2. [Idle EXCEPT !.pc = "patchSave", !.b = b, !.to = to].pc = "patchSave"
    BY DEF Idle
  <2> QED BY <1>1, <1>3, <2>1, <2>2 DEF PatchStatusRead
<1>4. CASE CreateIntentRead(s)
  <2>1. PICK b \in Bookings : Start(s, [Idle EXCEPT !.pc = "intentPending", !.b = b])
    BY <1>4 DEF CreateIntentRead
  <2>2. [Idle EXCEPT !.pc = "intentPending", !.b = b].pc = "intentPending"
    BY DEF Idle
  <2> QED BY <1>1, <1>4, <2>1, <2>2 DEF CreateIntentRead
<1>5. CASE CashRead(s)
  <2>1. PICK b \in Bookings : Start(s, [Idle EXCEPT !.pc = "cashSave", !.b = b])
    BY <1>5 DEF CashRead
  <2>2. [Idle EXCEPT !.pc = "cashSave", !.b = b].pc = "cashSave"
    BY DEF Idle
  <2> QED BY <1>1, <1>5, <2>1, <2>2 DEF CashRead
<1>6. CASE \E e \in Event : HookRead(s, e)
  <2>1. PICK e \in Event :
          /\ Start(s, [Idle EXCEPT !.pc = "hookSave", !.to = TargetOf(e), !.pay = e.intent])
          /\ HookRead(s, e)
    BY <1>6 DEF HookRead
  <2>2. [Idle EXCEPT !.pc = "hookSave", !.to = TargetOf(e), !.pay = e.intent].pc = "hookSave"
    BY DEF Idle
  <2> QED BY <1>1, <2>1, <2>2 DEF HookRead
<1>7. CASE UpdateRoomPreload(s)
  <2>1. PICK m \in Rooms, to \in StaffStatuses \cup {UnnamedStatus} :
          Start(s, [Idle EXCEPT !.pc = "roomSave", !.room = m, !.to = to])
    BY <1>7 DEF UpdateRoomPreload
  <2>2. [Idle EXCEPT !.pc = "roomSave", !.room = m, !.to = to].pc = "roomSave"
    BY DEF Idle
  <2> QED BY <1>1, <1>7, <2>1, <2>2 DEF UpdateRoomPreload
<1> QED BY <1>2, <1>3, <1>4, <1>5, <1>6, <1>7
        DEF Arrives, BookingRequest, PaymentRequest, RoomRequest

LEMMA GoesElsewhere ==
    ASSUME NEW s \in Slots, TypeInv,
           \/ CreateValidateRoom(s) \/ CreateRecheckRoom(s) \/ CreateConflict(s) \/ CreateInsert(s)
           \/ PaymentStep(s)
    PROVE  /\ req[s].pc # "patchRooms" /\ req'[s].pc # "patchRooms"
           /\ UNCHANGED roomVars
<1>0. req \in [Slots -> Request] /\ req[s] \in Request
  BY DEF TypeInv, TypeOK
<1>1. Finish(s) => req'[s].pc = "idle"
  BY <1>0 DEF Finish, Idle
<1>2. \A r : Continue(s, r) => req'[s] = r
  BY <1>0 DEF Continue
<1>3. \A pc \in Suspended : [req[s] EXCEPT !.pc = pc].pc = pc
  BY <1>0 DEF Request
<1>4. CASE CreateValidateRoom(s)
  <2>1. PICK left : Continue(s, IF left = {}
                                THEN [req[s] EXCEPT !.pc = "recheck", !.todo = req[s].ask]
                                ELSE [req[s] EXCEPT !.todo = left])
    BY <1>4 DEF CreateValidateRoom
  <2>2. /\ [req[s] EXCEPT !.pc = "recheck", !.todo = req[s].ask].pc = "recheck"
        /\ [req[s] EXCEPT !.todo = left].pc = req[s].pc
    BY <1>0 DEF Request
  <2> QED BY <1>2, <1>4, <2>1, <2>2 DEF CreateValidateRoom
<1>5. CASE CreateRecheckRoom(s)
  <2>1. PICK left : Continue(s, [req[s] EXCEPT !.pc = IF left = {} THEN "insert" ELSE "recheck",
                                               !.todo = left])
    BY <1>5 DEF CreateRecheckRoom
  <2> DEFINE pc == IF left = {} THEN "insert" ELSE "recheck"
  <2>2. pc # "patchRooms"
    OBVIOUS
  <2> HIDE DEF pc
  <2>3. [req[s] EXCEPT !.pc = pc, !.todo = left].pc = pc
    BY <1>0 DEF Request
  <2>4. Continue(s, [req[s] EXCEPT !.pc = pc, !.todo = left])
    BY <2>1 DEF pc
  <2> QED BY <1>2, <1>5, <2>2, <2>3, <2>4 DEF CreateRecheckRoom
<1>6. CASE \/ CreateConflict(s) \/ CreateInsert(s) \/ CreateIntentReply(s)
           \/ HookConfirm(s) \/ CashConfirm(s)
  BY <1>1, <1>6 DEF CreateConflict, CreateInsert, CreateIntentReply, HookConfirm, CashConfirm
<1>7. CASE CreateIntentCheckPending(s)
  <2>1. [req[s] EXCEPT !.pc = "intentStripe"].pc = "intentStripe"
    BY <1>0 DEF Request
  <2> QED BY <1>1, <1>2, <1>7, <2>1 DEF CreateIntentCheckPending
<1>8. CASE CreateIntentStripe(s)
  <2>1. PICK i \in Intents : Continue(s, [req[s] EXCEPT !.pc = "intentSave", !.pay = i])
    BY <1>8 DEF CreateIntentStripe
  <2>2. [req[s] EXCEPT !.pc = "intentSave", !.pay = i].pc = "intentSave"
    BY <1>0 DEF Request
  <2> QED BY <1>2, <1>8, <2>1, <2>2 DEF CreateIntentStripe
<1>9. CASE CreateIntentSave(s)
  <2>1. [req[s] EXCEPT !.pc = "intentReply"].pc = "intentReply"
    BY <1>0 DEF Request
  <2> QED BY <1>2, <1>9, <2>1 DEF CreateIntentSave
<1>10. CASE HookSave(s)
  <2>1. [req[s] EXCEPT !.pc = "hookConfirm"].pc = "hookConfirm"
    BY <1>0 DEF Request
  <2> QED BY <1>1, <1>2, <1>10, <2>1 DEF HookSave
<1>11. CASE CashSave(s)
  <2>1. [req[s] EXCEPT !.pc = "cashConfirm"].pc = "cashConfirm"
    BY <1>0 DEF Request
  <2> QED BY <1>2, <1>11, <2>1 DEF CashSave
<1> QED BY <1>4, <1>5, <1>6, <1>7, <1>8, <1>9, <1>10, <1>11 DEF PaymentStep

\* Those steps leave the bookings of guests who are in, or have left, as they are.
LEMMA GuestsStay ==
    ASSUME NEW s, Slots = {s}, TypeInv, SerialInv,
           \/ CreateValidateRoom(s) \/ CreateRecheckRoom(s) \/ CreateConflict(s) \/ CreateInsert(s)
           \/ PaymentStep(s),
           NEW b \in Bookings, status[b] \in {"CHECKED_IN", "CHECKED_OUT"}
    PROVE  status'[b] = status[b] /\ stays'[b] = stays[b]
<1>0. status \in [Bookings -> BookingStatus \cup {"NONE"}] /\ stays \in [Bookings -> SUBSET Stay]
  BY DEF TypeInv, TypeOK
<1>1. CASE CreateInsert(s)
  BY <1>0, <1>1 DEF CreateInsert
<1>2. CASE HookConfirm(s)
  BY <1>0, <1>2 DEF HookConfirm
<1>3. CASE CashConfirm(s)
  BY <1>0, <1>3 DEF CashConfirm, SerialInv, FreshOK
<1>4. CASE UNCHANGED bookingVars
  BY <1>4 DEF bookingVars
<1> QED BY <1>1, <1>2, <1>3, <1>4 DEF PaymentStep, CreateValidateRoom, CreateRecheckRoom,
        CreateConflict, CreateIntentCheckPending, CreateIntentStripe, CreateIntentSave,
        CreateIntentReply, HookSave, CashSave

\* patchStatus: whoever leaves is on the way to the rooms; the rooms are given what became of
\* the booking.
LEMMA PatchGuest ==
    ASSUME NEW s, Slots = {s}, TypeInv, SerialInv, GuestInv,
           PatchStatusSave(s) \/ PatchStatusRooms(s)
    PROVE  GuestInv'
<1>0. /\ req \in [Slots -> Request] /\ req[s] \in Request
      /\ status \in [Bookings -> BookingStatus \cup {"NONE"}]
      /\ UNCHANGED <<stays, leftBehind>> /\ req[s].b \in Bookings
  BY DEF TypeInv, TypeOK, LocalsOK, LocalOK, PatchStatusSave, PatchStatusRooms, bookingVars, roomVars
<1> DEFINE c == req[s].b
<1>1. CASE PatchStatusSave(s)
  <2>1. /\ req[s].pc = "patchSave"
        /\ req'[s].pc = "patchRooms" /\ req'[s].b = c /\ req'[s].to = req[s].to
        /\ status'[c] = req[s].to /\ UNCHANGED roomVars
        /\ \A b \in Bookings : b # c => status'[b] = status[b]
    BY <1>0, <1>1 DEF PatchStatusSave, Continue, Request
  <2>2. (\A t \in Slots : PatchedOK(req[t]))'
    BY <2>1 DEF PatchedOK
  <2>3. /\ status[c] # "CHECKED_OUT"
        /\ status[c] = "CHECKED_IN" => status'[c] = "CHECKED_OUT"
    BY <2>1 DEF SerialInv, FreshOK, CUSTOMER_ALLOWED_TRANSITIONS, ADMIN_ONLY_TRANSITIONS
  <2>4. ASSUME NEW m \in Rooms, roomStatus'[m] = "OCCUPIED", roomWriter'[m] = "BOOKING"
        PROVE  \E b \in Bookings : HoldsRoom(b, m)'
    <3>1. PICK b \in Bookings : HoldsRoom(b, m)
      BY <2>1, <2>4 DEF roomVars, GuestInv, OccupiedHasGuest
    <3>2. CASE b = c
      BY <1>0, <2>1, <2>3, <3>1, <3>2 DEF HoldsRoom, LeavesRooms, RoomsOf
    <3>3. CASE b # c
      BY <1>0, <2>1, <3>1, <3>3 DEF HoldsRoom, LeavesRooms, RoomsOf
    <3> QED BY <3>2, <3>3
  <2> QED BY <2>2, <2>4 DEF GuestInv, OccupiedHasGuest
<1>2. CASE PatchStatusRooms(s)
  <2>1. req'[s].pc = "idle" /\ UNCHANGED status /\ status[c] = req[s].to
    BY <1>0, <1>2 DEF PatchStatusRooms, Finish, Idle, GuestInv, PatchedOK, bookingVars
  <2>2. (\A t \in Slots : PatchedOK(req[t]))'
    BY <2>1 DEF PatchedOK
  <2>3. ASSUME NEW m \in Rooms, roomStatus'[m] = "OCCUPIED", roomWriter'[m] = "BOOKING"
        PROVE  \E b \in Bookings : HoldsRoom(b, m)'
    <3>1. CASE m \in RoomsOf(c)
      <4>1. roomStatus'[m] = RoomStatusFor(req[s].to)
        BY <1>2, <3>1 DEF PatchStatusRooms
      <4>2. req[s].to = "CHECKED_IN"
        BY <2>3, <4>1 DEF RoomStatusFor
      <4> QED BY <1>0, <2>1, <3>1, <4>2 DEF HoldsRoom, RoomsOf
    <3>2. CASE m \notin RoomsOf(c)
      <4>1. roomStatus'[m] = roomStatus[m] /\ roomWriter'[m] = roomWriter[m]
        BY <1>2, <3>2 DEF PatchStatusRooms
      <4>2. PICK b \in Bookings : HoldsRoom(b, m)
        BY <2>3, <4>1 DEF GuestInv, OccupiedHasGuest
      <4>3. b # c
        BY <3>2, <4>2 DEF HoldsRoom
      <4> QED BY <1>0, <2>1, <4>2, <4>3 DEF HoldsRoom, LeavesRooms, RoomsOf
    <3> QED BY <3>1, <3>2
  <2> QED BY <2>2, <2>3 DEF GuestInv, OccupiedHasGuest
<1> QED BY <1>1, <1>2

\* A check-out that dies before it has freed the rooms is remembered; elsewhere its death
\* changes nothing a guest has.
LEMMA FailGuest ==
    ASSUME NEW s, Slots = {s}, TypeInv, GuestInv, RequestFails(s)
    PROVE  GuestInv'
<1>1. /\ req'[s].pc = "idle" /\ UNCHANGED <<status, stays, roomStatus, roomWriter>>
      /\ leftBehind \subseteq leftBehind'
      /\ \A b \in Bookings :
           req[s].pc = "patchRooms" /\ req[s].b = b /\ req[s].to = "CHECKED_OUT" => b \in leftBehind'
  BY DEF RequestFails, Finish, Idle, TypeInv, TypeOK, bookingVars
<1>2. (\A t \in Slots : PatchedOK(req[t]))'
  BY <1>1 DEF PatchedOK
<1>3. \A b \in Bookings : LeavesRooms(b) => LeavesRooms(b)'
  BY <1>1 DEF LeavesRooms, GuestInv, PatchedOK
<1>4. \A b \in Bookings, m \in Rooms : HoldsRoom(b, m) => HoldsRoom(b, m)'
  BY <1>1, <1>3 DEF HoldsRoom, RoomsOf
<1>5. OccupiedHasGuest'
  BY <1>1, <1>4 DEF OccupiedHasGuest, GuestInv
<1> QED BY <1>2, <1>5 DEF GuestInv

\* What staff save over another status is theirs.
LEMMA OtherGuest ==
    ASSUME NEW s, Slots = {s}, TypeInv, GuestInv, UpdateRoomSave(s) \/ Stripe \/ UNCHANGED vars
    PROVE  GuestInv'
<1>0. req \in [Slots -> Request]
  BY DEF TypeInv, TypeOK
<1>1. CASE UpdateRoomSave(s)
  <2>1. /\ req[s].pc = "roomSave" /\ req'[s].pc = "idle"
        /\ UNCHANGED <<status, stays, leftBehind>>
    BY <1>0, <1>1 DEF UpdateRoomSave, Finish, Idle, bookingVars
  <2>2. (\A t \in Slots : PatchedOK(req[t]))'
    BY <2>1 DEF PatchedOK
  <2>3. ASSUME NEW m \in Rooms, roomWriter'[m] = "BOOKING"
        PROVE  roomStatus'[m] = roomStatus[m] /\ roomWriter[m] = "BOOKING"
    BY <1>1, <2>3 DEF UpdateRoomSave, TypeInv, TypeOK
  <2>4. \A b \in Bookings, m \in Rooms : HoldsRoom(b, m) => HoldsRoom(b, m)'
    BY <2>1 DEF HoldsRoom, LeavesRooms, RoomsOf
  <2>5. OccupiedHasGuest'
    BY <2>3, <2>4 DEF GuestInv, OccupiedHasGuest
  <2> QED BY <2>2, <2>5 DEF GuestInv
<1>2. CASE Stripe \/ UNCHANGED vars
  <2>1. UNCHANGED <<status, stays, roomStatus, roomWriter, leftBehind, req>>
    BY <1>2 DEF Stripe, StripeDeclines, StripeSucceeds, vars, bookingVars, roomVars
  <2> QED BY <2>1 DEF GuestInv, PatchedOK, OccupiedHasGuest, HoldsRoom, LeavesRooms, RoomsOf
<1> QED BY <1>1, <1>2

LEMMA InitGuest == Init => GuestInv
BY DEF Init, Idle, GuestInv, PatchedOK, OccupiedHasGuest

LEMMA GuestStep ==
    ASSUME Serial PROVE TypeInv /\ SerialInv /\ GuestInv /\ [Next]_vars => GuestInv'
<1> SUFFICES ASSUME TypeInv, SerialInv, GuestInv, [Next]_vars PROVE GuestInv'
  OBVIOUS
<1>1. PICK s : Slots = {s}
  BY DEF Serial
<1>2. CASE Arrives(s)
  BY <1>1, <1>2, StartsElsewhere, GuestKeeps DEF bookingVars
<1>3. CASE PaymentStep(s)
  BY <1>1, <1>3, GoesElsewhere, GuestsStay, GuestKeeps
<1>4. CASE CreateValidateRoom(s) \/ CreateRecheckRoom(s) \/ CreateConflict(s) \/ CreateInsert(s)
  BY <1>1, <1>4, GoesElsewhere, GuestsStay, GuestKeeps
<1>5. CASE PatchStatusSave(s) \/ PatchStatusRooms(s)
  BY <1>1, <1>5, PatchGuest
<1>6. CASE RequestFails(s)
  BY <1>1, <1>6, FailGuest
<1>7. CASE RoomStep(s) \/ Stripe \/ UNCHANGED vars
  BY <1>1, <1>7, OtherGuest DEF RoomStep
<1> QED BY <1>1, <1>2, <1>3, <1>4, <1>5, <1>6, <1>7 DEF Next, Step, BookingStep

\* One request at a time, any of which may die: a room that the booking service marked
\* OCCUPIED has a guest who is checked in, or one whose check-out is between its two
\* statements or died there (booking.service.ts:184-220).
THEOREM OccupiedHasGuestSerially == ASSUME Serial PROVE Spec => []OccupiedHasGuest
<1>1. Init => TypeInv /\ SerialInv /\ GuestInv
  BY InitTypes, InitSerial, InitGuest
<1>2. TypeInv /\ SerialInv /\ GuestInv /\ [Next]_vars => (TypeInv /\ SerialInv /\ GuestInv)'
  BY TypeStep, SerialStep, GuestStep
<1>3. GuestInv => OccupiedHasGuest
  BY DEF GuestInv
<1> QED BY <1>1, <1>2, <1>3, PTL DEF Spec
================================================================================
