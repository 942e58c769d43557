-------------------------------- MODULE Payment --------------------------------
(***************************************************************************)
(* PaymentService: createPaymentIntent, the Stripe webhook and             *)
(* confirmCashPayment, with Stripe itself as an external actor.  A         *)
(* customer can act on a PaymentIntent once the API has answered with its  *)
(* client secret; the attempt may fail any number of times and succeeds at *)
(* most once.  Stripe delivers each event at least once, in any order and  *)
(* possibly long after it was emitted: an event stays in `events`.         *)
(***************************************************************************)
EXTENDS HotelState

\* Whether Stripe's call passes the JwtAuthGuard that app.module.ts puts before every route
\* not marked @Public.  The webhook route is not, so it takes a proxy that adds a token.
CONSTANT WebhookAdmitted

ASSUME WebhookAssumption == WebhookAdmitted \in BOOLEAN

PaymentsOf(b) == {p \in Payments : payStatus[p] # "NONE" /\ payBooking[p] = b}

--------------------------------------------------------------------------------
\* createPaymentIntent: the booking is read, its owner and status judged
CreateIntentRead(s) ==
    /\ IdLeft({i \in Intents : intent[i] = "NONE"}, {"intentPending", "intentStripe"})
    /\ \E b \in Bookings, isAdmin \in BOOLEAN, u \in Users :
         /\ isAdmin \/ owner[b] = u
         /\ status[b] = "PENDING"
         /\ Start(s, [Idle EXCEPT !.pc = "intentPending", !.b = b])
    /\ UNCHANGED <<bookingVars, roomVars, payVars, stripeVars, fails>>

\* Variant: nobody looks for a pending payment.
CreateIntentCheckNothing(s) ==
    /\ req[s].pc = "intentPending"
    /\ Continue(s, [req[s] EXCEPT !.pc = "intentStripe"])
    /\ UNCHANGED <<bookingVars, roomVars, payVars, stripeVars, fails>>

\* A pending payment of the booking ends the request with a 400.
CreateIntentCheckPending(s) ==
    /\ req[s].pc = "intentPending"
    /\ IF \E p \in PaymentsOf(req[s].b) : payStatus[p] = "PENDING"
       THEN Finish(s)
       ELSE Continue(s, [req[s] EXCEPT !.pc = "intentStripe"])
    /\ UNCHANGED <<bookingVars, roomVars, payVars, stripeVars, fails>>

\* Variant: the client secret is handed out before the payment row is saved.
CreateIntentStripeEager(s) ==
    /\ req[s].pc = "intentStripe"
    /\ \E i \in Intents :
         /\ intent[i] = "NONE"
         /\ intent' = [intent EXCEPT ![i] = "open"]
         /\ intentBooking' = [intentBooking EXCEPT ![i] = req[s].b]
         /\ Continue(s, [req[s] EXCEPT !.pc = "intentSave", !.pay = i])
    /\ UNCHANGED <<bookingVars, roomVars, payVars, events, fails>>

\* Stripe creates the PaymentIntent; its client secret is known to the API alone.
CreateIntentStripe(s) ==
    /\ req[s].pc = "intentStripe"
    /\ \E i \in Intents :
         /\ intent[i] = "NONE"
         /\ intent' = [intent EXCEPT ![i] = "created"]
         /\ intentBooking' = [intentBooking EXCEPT ![i] = req[s].b]
         /\ Continue(s, [req[s] EXCEPT !.pc = "intentSave", !.pay = i])
    /\ UNCHANGED <<bookingVars, roomVars, payVars, events, fails>>

CreateIntentSave(s) ==
    /\ req[s].pc = "intentSave"
    /\ payStatus' = [payStatus EXCEPT ![req[s].pay] = "PENDING"]
    /\ payBooking' = [payBooking EXCEPT ![req[s].pay] = req[s].b]
    /\ Continue(s, [req[s] EXCEPT !.pc = "intentReply"])
    /\ UNCHANGED <<bookingVars, roomVars, adminCash, stripeVars, fails>>

\* The lists are invalidated and the client secret goes out with the answer.
CreateIntentReply(s) ==
    /\ req[s].pc = "intentReply"
    /\ intent' = [intent EXCEPT ![req[s].pay] = "open"]
    /\ Finish(s)
    /\ UNCHANGED <<bookingVars, roomVars, payVars, intentBooking, events, fails>>

--------------------------------------------------------------------------------
\* Stripe: the customer's attempt is declined, and may be tried again
StripeDeclines(i) ==
    /\ intent[i] = "open"
    /\ events' = events \cup {[intent |-> i, target |-> "FAILED"]}
    /\ UNCHANGED <<bookingVars, roomVars, payVars, intent, intentBooking, req, fails>>

\* Stripe: the money is collected
StripeSucceeds(i) ==
    /\ intent[i] = "open"
    /\ intent' = [intent EXCEPT ![i] = "succeeded"]
    /\ events' = events \cup {[intent |-> i, target |-> "COMPLETED"]}
    /\ UNCHANGED <<bookingVars, roomVars, payVars, intentBooking, req, fails>>

--------------------------------------------------------------------------------
\* Variant: both event types are taken for a success.
TargetOfAnyEvent(e) == "COMPLETED"

\* handleStripeWebhook: which of the two handlers an event goes to
TargetOf(e) == e.target

\* Variant: a payment that failed once is taken for finished.
AlreadyEnded(i) == payStatus[i] # "PENDING"

\* The success handler skips a payment already completed; the failure handler has no such test.
AlreadyCompleted(i) == payStatus[i] = "COMPLETED"

\* Both handlers begin by reading the payment row; without one the event is acknowledged
\* and dropped, which changes nothing.
HookRead(s, e) ==
    /\ WebhookAdmitted
    /\ e \in events
    /\ payStatus[e.intent] # "NONE"
    /\ TargetOf(e) = "COMPLETED" => ~AlreadyCompleted(e.intent)
    /\ Start(s, [Idle EXCEPT !.pc = "hookSave", !.to = TargetOf(e), !.pay = e.intent])
    /\ UNCHANGED <<bookingVars, roomVars, payVars, stripeVars, fails>>

\* The row read above is saved with its new status, whatever the row holds by now.
HookSave(s) ==
    /\ req[s].pc = "hookSave"
    /\ payStatus' = [payStatus EXCEPT ![req[s].pay] = req[s].to]
    /\ IF req[s].to = "COMPLETED"
       THEN Continue(s, [req[s] EXCEPT !.pc = "hookConfirm"])
       ELSE Finish(s)
    /\ UNCHANGED <<bookingVars, roomVars, payBooking, adminCash, stripeVars, fails>>

\* Variant: the update has no condition on the status.
HookConfirmAlways(s) ==
    /\ req[s].pc = "hookConfirm"
    /\ status' = [status EXCEPT ![payBooking[req[s].pay]] = "CONFIRMED"]
    /\ Finish(s)
    /\ UNCHANGED <<owner, stays, roomVars, payVars, stripeVars, fails>>

\* UPDATE ... WHERE id = payment.bookingId AND status = PENDING
HookConfirm(s) ==
    /\ req[s].pc = "hookConfirm"
    /\ status' = [b \in Bookings |->
                    IF b = payBooking[req[s].pay] /\ status[b] = "PENDING"
                    THEN "CONFIRMED" ELSE status[b]]
    /\ Finish(s)
    /\ UNCHANGED <<owner, stays, roomVars, payVars, stripeVars, fails>>

--------------------------------------------------------------------------------
\* confirmCashPayment: the route asks for PAYMENTS:create, which the seeded roles give to
\* customers too, and the service looks neither at the caller nor at the booking's owner.
CashRead(s) ==
    /\ IdLeft({p \in CashIds : payStatus[p] = "NONE"}, {"cashSave"})
    /\ \E b \in Bookings :
         /\ status[b] = "PENDING"
         /\ Start(s, [Idle EXCEPT !.pc = "cashSave", !.b = b])
    /\ UNCHANGED <<bookingVars, roomVars, payVars, stripeVars, fails>>

\* Variant: the booking is confirmed first and the payment recorded after.
CashSaveAfterConfirm(s) ==
    /\ req[s].pc = "cashSave"
    /\ status' = [status EXCEPT ![req[s].b] = "CONFIRMED"]
    /\ Continue(s, [req[s] EXCEPT !.pc = "cashConfirm"])
    /\ UNCHANGED <<owner, stays, roomVars, payVars, stripeVars, fails>>

\* Who called shows in a log line only, so it is chosen where the payment is recorded.
CashSave(s) ==
    /\ req[s].pc = "cashSave"
    /\ \E p \in CashIds, isAdmin \in BOOLEAN :
         /\ payStatus[p] = "NONE"
         /\ payStatus' = [payStatus EXCEPT ![p] = "COMPLETED"]
         /\ payBooking' = [payBooking EXCEPT ![p] = req[s].b]
         /\ adminCash' = adminCash \cup (IF isAdmin THEN {p} ELSE {})
    /\ Continue(s, [req[s] EXCEPT !.pc = "cashConfirm"])
    /\ UNCHANGED <<bookingVars, roomVars, stripeVars, fails>>

\* Variant: the update of the booking is forgotten.
CashConfirmNothing(s) ==
    /\ req[s].pc = "cashConfirm"
    /\ Finish(s)
    /\ UNCHANGED <<bookingVars, roomVars, payVars, stripeVars, fails>>

\* UPDATE ... WHERE id = booking.id: no condition on the status
CashConfirm(s) ==
    /\ req[s].pc = "cashConfirm"
    /\ status' = [status EXCEPT ![req[s].b] = "CONFIRMED"]
    /\ Finish(s)
    /\ UNCHANGED <<owner, stays, roomVars, payVars, stripeVars, fails>>

--------------------------------------------------------------------------------
PaymentStep(s) ==
    \/ CreateIntentCheckPending(s)
    \/ CreateIntentStripe(s)
    \/ CreateIntentSave(s)
    \/ CreateIntentReply(s)
    \/ HookSave(s)
    \/ HookConfirm(s)
    \/ CashSave(s)
    \/ CashConfirm(s)

PaymentRequest(s) ==
    \/ CreateIntentRead(s)
    \/ CashRead(s)
    \/ \E e \in Event : HookRead(s, e)

Stripe == \E i \in Intents : StripeDeclines(i) \/ StripeSucceeds(i)
================================================================================
