------------------------------ MODULE Reservation ------------------------------
(***************************************************************************)
(* The reservation core: BookingService, PaymentService and                *)
(* RoomService.update serving requests against the same tables, with       *)
(* Stripe beside them.  The properties are about the composition: each one *)
(* involves steps of several requests.                                     *)
(***************************************************************************)
EXTENDS Booking, Payment, RoomUpkeep

Step(s)    == BookingStep(s) \/ PaymentStep(s) \/ RoomStep(s)
Arrives(s) == BookingRequest(s) \/ PaymentRequest(s) \/ RoomRequest(s)

Next ==
    \/ \E s \in Slots : Arrives(s) \/ Step(s) \/ RequestFails(s)
    \/ Stripe

Spec == Init /\ [][Next]_vars

\* Node resumes every handler whose await has been answered, and Stripe delivers an event
\* until it is acknowledged.  The slots are a bound of the model, not of the server, so a
\* delivery must not wait for ever behind other requests: strong fairness.
Fairness ==
    /\ \A s \in Slots : WF_vars(Step(s))
    /\ \A e \in Event : SF_vars(\E s \in Slots : HookRead(s, e))

FairSpec == Spec /\ Fairness

\* Requests are served one at a time.
Serial == \E s : Slots = {s}

--------------------------------------------------------------------------------
\* A row that says the booking was paid in cash.
CashRow(p, b) == payStatus[p] = "COMPLETED" /\ payBooking[p] = b

\* Stripe collected money for a booking.
CardPaid(b) == \E i \in Intents : intent[i] = "succeeded" /\ intentBooking[i] = b

\* Money was taken for a booking: Stripe collected it, or an admin recorded cash.
CollectedFor(b) == CardPaid(b) \/ \E p \in adminCash : CashRow(p, b)

\* A customer's own confirm-cash call recorded cash nobody took.
ClaimedFor(b) == \E p \in CashIds \ adminCash : CashRow(p, b)

\* A payment is recorded for a booking, whoever recorded it.
RecordedFor(b) == CardPaid(b) \/ \E p \in CashIds : CashRow(p, b)

\* Whoever is confirmed, checked in or checked out was confirmed by the payment flow, however
\* requests, webhooks and failures interleave (booking.service.ts:20-21, CONFIRMED "is only
\* reachable via the payment flow"): Stripe collected the money, an admin recorded cash, or,
\* the one way without money, a customer called confirm-cash.
NoFreeConfirmation ==
    \A b \in Bookings :
        status[b] \in {"CONFIRMED", "CHECKED_IN", "CHECKED_OUT"} =>
            CollectedFor(b) \/ ClaimedFor(b)

\* The same without that way: cash is recorded by an admin (payment.controller.ts:98 "Admin:
\* record a physical/cash payment and confirm the booking").  Any customer violates it.
ConfirmedByAdminOrCard ==
    \A b \in Bookings :
        status[b] \in {"CONFIRMED", "CHECKED_IN", "CHECKED_OUT"} => CollectedFor(b)

\* Every event Stripe can deliver finds its payment row, and the row names the booking the
\* customer paid for: the webhook handlers' "no Payment record" returns lose no payment
\* (payment.service.ts:163-168).
EventFindsPayment ==
    \A e \in events : /\ payStatus[e.intent] # "NONE"
                      /\ payBooking[e.intent] = intentBooking[e.intent]

\* A card payment is COMPLETED only if Stripe collected it, whatever order the events of
\* one intent are handled in (payment.service.ts:145-211).
CompletedWasCollected ==
    \A i \in Intents : payStatus[i] = "COMPLETED" => intent[i] = "succeeded"

\* One room is never in two live bookings for the same night (booking.service.ts:298-321
\* and assertNoDoubleBooking).
NoDoubleBooking ==
    \A b, c \in Bookings :
        b # c /\ Active(b) /\ Active(c) =>
            \A x \in stays[b], y \in stays[c] : ~Overlap(x, y)

\* A booking has at most one payment the customer could still complete
\* (payment.service.ts:89-96).
AtMostOnePendingPayment ==
    \A p, q \in Payments :
        payStatus[p] = "PENDING" /\ payStatus[q] = "PENDING" /\ payBooking[p] = payBooking[q]
            => p = q

\* A booking whose check-out is saved while its rooms are not free yet: the request is on its
\* way, or died between 185 and 212-219, which are in no transaction.
LeavesRooms(b) ==
    /\ status[b] = "CHECKED_OUT"
    /\ b \in leftBehind \/ \E s \in Slots : req[s].pc = "patchRooms" /\ req[s].b = b

\* The booking's guest is in the room, or leaves it.
HoldsRoom(b, m) == m \in RoomsOf(b) /\ (status[b] = "CHECKED_IN" \/ LeavesRooms(b))

\* A room the booking service marked OCCUPIED has a guest who is checked in, or one who
\* leaves: only a check-out that died half way leaves a room OCCUPIED for good, whatever else
\* dies and whatever other bookings and staff do to it (booking.service.ts:184-220).
OccupiedHasGuest ==
    \A m \in Rooms :
        roomStatus[m] = "OCCUPIED" /\ roomWriter[m] = "BOOKING" =>
            \E b \in Bookings : HoldsRoom(b, m)

\* Staff named the status the room has in an update: they did not just edit something else of it.
NamedByStaff(m) ==
    roomWriter[m] = "STAFF" /\ roomStatus[m] \in StaffStatuses

\* A guest who is checked in has a room marked OCCUPIED, unless RoomService.update changed
\* it since or the request that moves the guest is not over (booking.service.ts:187 "When a
\* guest checks in, mark rooms as OCCUPIED").
CheckedInIsOccupied ==
    \A b \in Bookings : status[b] = "CHECKED_IN" =>
        \A m \in RoomsOf(b) :
            \/ roomStatus[m] = "OCCUPIED"
            \/ roomWriter[m] = "STAFF"
            \/ \E s \in Slots : req[s].pc = "patchRooms" /\ req[s].b = b

\* The same where only an update that names a status excuses.  One that names none writes
\* AVAILABLE over OCCUPIED (create-room.dto.ts:34) and violates it.
CheckedInUnlessNamed ==
    \A b \in Bookings : status[b] = "CHECKED_IN" =>
        \A m \in RoomsOf(b) :
            \/ roomStatus[m] = "OCCUPIED"
            \/ NamedByStaff(m)
            \/ \E s \in Slots : req[s].pc = "patchRooms" /\ req[s].b = b

\* A pending payment is one the customer can complete, or will be able to when the request
\* that created it answers (payment.service.ts:94 "Please complete or cancel it").
PendingPaymentIsPayable ==
    \A i \in Intents : payStatus[i] = "PENDING" =>
        \/ intent[i] \in {"open", "succeeded"}
        \/ \E s \in Slots : req[s].pc = "intentReply" /\ req[s].pay = i

\* The services implement the life cycle a booking is meant to have.
Lifecycle == INSTANCE BookingLifecycle WITH paid <- {b \in Bookings : RecordedFor(b)}
ImplementsLifecycle == Lifecycle!Spec

--------------------------------------------------------------------------------
\* What Stripe collected is recorded as COMPLETED, however many deliveries fail half way:
\* a delivery that failed before the save is repeated (payment.service.ts:158-179).
CollectedIsRecorded ==
    \A i \in Intents : intent[i] = "succeeded" ~> payStatus[i] = "COMPLETED"

\* A booking does not stay PENDING once a payment is recorded for it or Stripe collected one
\* (payment.service.ts:181-185 and 248-251).
CollectedIsConfirmed ==
    \A b \in Bookings : RecordedFor(b) ~> status[b] # "PENDING"

\* The same, as far as no request dies: the redelivery that would repair a dead one is
\* skipped at payment.service.ts:170-175.
ConfirmedUnlessRequestFailed ==
    \A b \in Bookings : RecordedFor(b) ~> (status[b] # "PENDING" \/ fails > 0)

--------------------------------------------------------------------------------
\* The inductive invariants behind the theorems, as conjunctions of named parts, so that TLC can
\* check each of them before it is proved.

\* The local variables a suspended handler needs, by where it is suspended.
LocalOK(r) ==
    /\ r.pc \in {"patchSave", "patchRooms"} => r.b \in Bookings /\ r.to \in BookingStatus
    /\ r.pc \in {"intentPending", "intentStripe", "intentSave", "intentReply",
                 "cashSave", "cashConfirm"} => r.b \in Bookings
    /\ r.pc \in {"intentSave", "intentReply", "hookSave", "hookConfirm"} => r.pay \in Intents
    /\ r.pc = "hookSave" => r.to \in EventTarget
    /\ r.pc = "roomSave" => r.room \in Rooms /\ r.to \in RoomStatus

LocalsOK == \A s \in Slots : LocalOK(req[s])

TypeInv == TypeOK /\ LocalsOK

--------------------------------------------------------------------------------
\* An intent the customer can act on, or has paid, has its payment row.
OpenHasRow == \A i \in Intents :
    intent[i] \in {"open", "succeeded"} => payStatus[i] # "NONE"

\* A card payment's row was written for an intent Stripe has created.
RowHasIntent == \A i \in Intents : payStatus[i] # "NONE" => intent[i] # "NONE"

\* The row and Stripe's metadata name the same booking.
RowMatchesIntent == \A i \in Intents :
    payStatus[i] # "NONE" => payBooking[i] = intentBooking[i] /\ payBooking[i] \in Bookings

\* Events are about intents the customer was given, and a success means money.
EventsAreTrue == \A e \in events :
    /\ intent[e.intent] \in {"open", "succeeded"}
    /\ e.target = "COMPLETED" => intent[e.intent] = "succeeded"

\* A handler between creating an intent and answering with its client secret.
Holds(r) == r.pc \in {"intentSave", "intentReply"}

\* It has the intent for itself: the customer cannot have paid it yet.
HeldOK(r) == Holds(r) =>
    /\ intent[r.pay] = "created"
    /\ intentBooking[r.pay] = r.b
    /\ r.pc = "intentReply" => payStatus[r.pay] # "NONE"

HeldApart == \A s, t \in Slots :
    s # t /\ Holds(req[s]) /\ Holds(req[t]) => req[s].pay # req[t].pay

\* What a suspended handler is about to write is backed by a payment where it must be, and
\* patchStatus is never about to write PENDING or CONFIRMED.
CoveredOK(r) ==
    /\ r.pc \in {"hookSave", "hookConfirm"} => payStatus[r.pay] # "NONE"
    /\ r.pc = "hookSave" /\ r.to = "COMPLETED" => intent[r.pay] = "succeeded"
    /\ r.pc = "hookConfirm" => intent[r.pay] = "succeeded"
    /\ r.pc = "cashConfirm" => RecordedFor(r.b)
    /\ r.pc = "patchSave" => /\ r.to \in {"CHECKED_IN", "CHECKED_OUT", "CANCELLED"}
                             /\ r.to # "CANCELLED" => RecordedFor(r.b)

WritesAreCovered == \A s \in Slots : HeldOK(req[s]) /\ CoveredOK(req[s])

\* NoFreeConfirmation without the question who recorded the cash.
ConfirmedIsRecorded == \A b \in Bookings :
    status[b] \in {"CONFIRMED", "CHECKED_IN", "CHECKED_OUT"} => RecordedFor(b)

\* The part of the invariant that is about the tables alone.
MoneyTables ==
    /\ OpenHasRow
    /\ RowHasIntent
    /\ RowMatchesIntent
    /\ EventsAreTrue
    /\ CompletedWasCollected
    /\ ConfirmedIsRecorded

MoneyInv == MoneyTables /\ HeldApart /\ WritesAreCovered

--------------------------------------------------------------------------------
\* With one request at a time, what a handler has read is still so when it writes.
FreshOK(r) ==
    /\ r.pc = "patchSave" =>
          <<status[r.b], r.to>> \in CUSTOMER_ALLOWED_TRANSITIONS \cup ADMIN_ONLY_TRANSITIONS
    /\ r.pc \in {"cashSave", "cashConfirm"} => status[r.b] = "PENDING"

\* With one request at a time, a room found free stays free until the insert.
CheckedOK(r) ==
    /\ r.pc \in {"recheck", "insert"} => \A x \in r.ask \ r.todo : ~Taken(x)
    /\ r.pc = "insert" => r.todo = {}

\* With one request at a time, an intent is created for a booking without a pending one.
NoPendingOK(r) ==
    r.pc \in {"intentStripe", "intentSave"} =>
        \A p \in Payments : payBooking[p] = r.b => payStatus[p] # "PENDING"

\* A booking that is being paid for, or worked on, exists.
BookedOK(r) == r.b \in Bookings => status[r.b] # "NONE"

BookedInv ==
    /\ \A s \in Slots : BookedOK(req[s])
    /\ \A i \in Intents : intent[i] # "NONE" =>
          intentBooking[i] \in Bookings /\ status[intentBooking[i]] # "NONE"

SerialInv ==
    /\ \A s \in Slots : FreshOK(req[s]) /\ CheckedOK(req[s]) /\ NoPendingOK(req[s])
    /\ NoDoubleBooking
    /\ AtMostOnePendingPayment

\* With one request at a time, a booking has the status its rooms are about to be given, and
\* a room marked OCCUPIED has its guest or was left behind by one.
PatchedOK(r) == r.pc = "patchRooms" => status[r.b] = r.to

GuestInv == (\A s \in Slots : PatchedOK(req[s])) /\ OccupiedHasGuest
================================================================================
