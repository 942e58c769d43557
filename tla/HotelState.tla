------------------------------ MODULE HotelState ------------------------------
(***************************************************************************)
(* The state the reservation core works on: the rows of the PostgreSQL     *)
(* tables bookings, booking_rooms, rooms and payments, what Stripe knows   *)
(* of the PaymentIntents this API created, and the requests in flight.     *)
(*                                                                         *)
(* The API is one Node.js process.  A request handler runs alone between   *)
(* two awaits and interleaves with every other handler at each await, so a *)
(* handler is a slot whose pc names the await it has reached, and every    *)
(* action below and in the service modules is the code from one await to   *)
(* the next.  With one slot the requests are served one at a time; with    *)
(* several they overlap.                                                   *)
(***************************************************************************)
EXTENDS Integers, FiniteSets

CONSTANTS
    Slots,          \* requests that may be in flight at the same time
    Bookings,       \* ids of bookings that may be created
    Rooms,          \* rooms of the hotel
    Users,          \* customers
    Intents,        \* ids of Stripe PaymentIntents
    CashIds,        \* synthetic intent ids of cash payments
    None,           \* "no such row", distinct from every id
    Today,          \* the current day, as a number
    Days,           \* days a stay may start or end on
    MaxFails        \* bound: requests that may die half way

VARIABLES
    status,         \* bookings.status, or "NONE" before the row exists
    owner,          \* bookings.userId
    stays,          \* booking_rooms rows of a booking
    roomStatus,     \* rooms.status
    roomWriter,     \* history: the service that last changed rooms.status
    leftBehind,     \* history: bookings whose check-out was saved and died before it freed the rooms
    payStatus,      \* payments.status by paymentIntentId, or "NONE"
    payBooking,     \* payments.bookingId
    adminCash,      \* history: cash payments recorded by an admin, not by a customer
    intent,         \* Stripe's PaymentIntent: what the customer may do with it
    intentBooking,  \* Stripe's metadata.bookingId of the intent
    events,         \* webhook events Stripe has emitted and may (re)deliver
    req,            \* the request each slot is serving
    fails           \* requests that died half way so far

bookingVars == <<status, owner, stays>>
roomVars    == <<roomStatus, roomWriter, leftBehind>>
payVars     == <<payStatus, payBooking, adminCash>>
stripeVars  == <<intent, intentBooking, events>>
vars == <<bookingVars, roomVars, payVars, stripeVars, req, fails>>

\* The ids must not clash: a payment row is found by its paymentIntentId alone.
ASSUME IdsAssumption ==
    /\ Intents \cap CashIds = {}
    /\ None \notin Bookings \cup Rooms \cup Users \cup Intents \cup CashIds

ASSUME BoundsAssumption ==
    /\ Today \in Int
    /\ Days \subseteq Int
    /\ MaxFails \in Nat

BookingStatus == {"PENDING", "CONFIRMED", "CHECKED_IN", "CHECKED_OUT", "CANCELLED"}
RoomStatus    == {"AVAILABLE", "OCCUPIED", "MAINTENANCE", "OUT_OF_SERVICE"}
\* REFUNDED, REFUND_PENDING and REFUND_FAILED exist in the enum; no code writes them.
PaymentStatus == {"PENDING", "COMPLETED", "FAILED"}

Payments == Intents \cup CashIds

\* A booking_rooms row: the room and the half-open stay [checkIn, checkOut).
Stay == [room : Rooms, checkIn : Days, checkOut : Days]

\* The two webhook events the service listens to, by the payment status each one asks for.
EventTarget == {"COMPLETED", "FAILED"}
Event == [intent : Intents, target : EventTarget]

\* Where a handler can be suspended.
Suspended == {"validate", "recheck", "insert",       \* BookingService.create
              "patchSave", "patchRooms",             \* BookingService.patchStatus
              "intentPending", "intentStripe",       \* PaymentService.createPaymentIntent
              "intentSave", "intentReply",
              "hookSave", "hookConfirm",             \* PaymentService.handleStripeWebhook
              "cashSave", "cashConfirm",             \* PaymentService.confirmCashPayment
              "roomSave"}                            \* RoomService.update

\* A request: where it is suspended and the local variables it carries across the await.
Request == [pc   : Suspended \cup {"idle"},
            b    : Bookings \cup {None},
            to   : BookingStatus \cup RoomStatus \cup PaymentStatus \cup {None},
            pay  : Payments \cup {None},
            room : Rooms \cup {None},
            ask  : SUBSET Stay,
            todo : SUBSET Stay]

Idle == [pc |-> "idle", b |-> None, to |-> None, pay |-> None, room |-> None,
         ask |-> {}, todo |-> {}]

\* Bound: a request starts only while there is an id left for the row it may insert.
IdLeft(unused, creating) ==
    Cardinality(unused) > Cardinality({s \in Slots : req[s].pc \in creating})

Start(s, r)    == req[s] = Idle /\ req' = [req EXCEPT ![s] = r]
Continue(s, r) == req' = [req EXCEPT ![s] = r]
Finish(s)      == req' = [req EXCEPT ![s] = Idle]

Init ==
    /\ status = [b \in Bookings |-> "NONE"]
    /\ owner = [b \in Bookings |-> None]
    /\ stays = [b \in Bookings |-> {}]
    /\ roomStatus = [m \in Rooms |-> "AVAILABLE"]
    /\ roomWriter = [m \in Rooms |-> "STAFF"]
    /\ leftBehind = {}
    /\ payStatus = [p \in Payments |-> "NONE"]
    /\ payBooking = [p \in Payments |-> None]
    /\ adminCash = {}
    /\ intent = [i \in Intents |-> "NONE"]
    /\ intentBooking = [i \in Intents |-> None]
    /\ events = {}
    /\ req = [s \in Slots |-> Idle]
    /\ fails = 0

\* A query, the cache or Stripe answers a handler with an error, or the process dies: the
\* request ends where it is suspended and what it has written stays.  A crash of the
\* whole process is this step taken by every slot in turn.
RequestFails(s) ==
    /\ req[s] # Idle
    /\ fails < MaxFails
    /\ fails' = fails + 1
    /\ leftBehind' = leftBehind \cup
           {b \in Bookings : req[s].b = b /\ req[s].pc = "patchRooms" /\ req[s].to = "CHECKED_OUT"}
    /\ Finish(s)
    /\ UNCHANGED <<bookingVars, roomStatus, roomWriter, payVars, stripeVars>>

\* Types of the tables, of Stripe's side and of the requests in flight.
TypeOK ==
    /\ status \in [Bookings -> BookingStatus \cup {"NONE"}]
    /\ owner \in [Bookings -> Users \cup {None}]
    /\ stays \in [Bookings -> SUBSET Stay]
    /\ roomStatus \in [Rooms -> RoomStatus]
    /\ roomWriter \in [Rooms -> {"BOOKING", "STAFF"}]
    /\ leftBehind \subseteq Bookings
    /\ payStatus \in [Payments -> PaymentStatus \cup {"NONE"}]
    /\ payBooking \in [Payments -> Bookings \cup {None}]
    /\ adminCash \subseteq CashIds
    /\ intent \in [Intents -> {"NONE", "created", "open", "succeeded"}]
    /\ intentBooking \in [Intents -> Bookings \cup {None}]
    /\ events \subseteq Event
    /\ req \in [Slots -> Request]
    /\ fails \in 0..MaxFails
===============================================================================
