# Verification of the hotel booking management API

TLA+ models of the NestJS API in `src/src`, TLC configurations that check them on small
instances, and TLAPS proofs for every value of the constants. Paths below are relative to
`src/src/v1/` unless they start with `src/`.

    tlc -workers 2 -config MCSerial.cfg MCReservation     # any run of the tables below
    tlapm ReservationProofs.tla                           # any module of "What is proved"

## 1. The system

One Node.js process serves HTTP requests over PostgreSQL (TypeORM), a cache (cache-manager),
Stripe, and BullMQ queues for e-mail and SMS. Handlers run alone between two `await`s and
interleave at every `await`. Only a few statements are in a transaction; none takes a lock,
and no table has an exclusion constraint. So what is hard here is not any single handler but
what happens between the statements of several, and after a statement that failed.

| component | state it keeps | operations | talks to | hard behaviour | what makes it correct |
|---|---|---|---|---|---|
| BookingService `booking/services` | `bookings`, `booking_rooms` | create, patchStatus, find | writes `rooms.status` | check and insert are apart; three statements of patchStatus in no transaction | no double booking; status follows the transition tables; rooms follow their guests |
| PaymentService `payment/services` | `payments` | createPaymentIntent, webhook, confirmCashPayment, find | Stripe; writes `bookings.status` | events late, repeated, reordered; the process dies between payment and booking | no confirmation without a recorded payment; money collected is recorded; one pending payment |
| StripeModule | none | createPaymentIntent | Stripe | external | modelled as Stripe's side of Payment |
| RoomService `room/services` | `rooms`, list cache | CRUD, bulk create | shares `rooms.status` with BookingService | whole-row save over a concurrent status | staff and bookings do not undo each other |
| HotelService, RoomTypeService, RateOptionService | `hotels`, `room_types`, `rate_options` and their joins; list and detail cache | CRUD | what one writes another caches | registry of keys read and written apart | no answer stays old |
| TokenService `auth/services` | `refresh_tokens` | issue, refresh, revoke, cleanup cron | sign-in, reset | overlapping logins; death between revoke and issue | one session; sessions end with the password |
| UserAuthService, AdminAuthService | `users`, `admins` | login, registration, OAuth, profile, password, deletion, logout | TokenService, TwoFactorService, SMS | whole-row saves; flows that do and do not end sessions | sessions agree with accounts |
| TwoFactorService | `otp_records`, `admins.isTwoFactorEnabled` | enable, verify, disable, send, validate | e-mail events | flag and record are two statements | flag and record agree; a code works once; login asks for a code |
| PasswordResetService | `otp_records`, reset JWT | send, verify, reset (admins and customers) | e-mail, SMS | tries are counted on every path | tries are bounded |
| OtpService | `otp_records` | create, verify | injected nowhere | | |
| UserService, AdminService `user`, `admin` | `users`, `admins`, profile pictures in S3 | CRUD | TokenService, file upload | whole-row saves; objects and rows change in separate calls, and failures of S3 are only logged | a row names an object that is there; no object without a row |
| RoleService, Transactions | `roles`, `role_permissions` | CRUD | the guards read what it writes | the only transactions with more than an insert; checks are made outside them | nobody sees a role without its permissions; admins keep a live role |
| Notification queue `src/src/notification`, e-mail service, SettingService | BullMQ jobs, `settings`, a copy of the SMTP settings in memory | emit, enqueue, process, retry, save settings | Redis, the mail server | retries, stalls and restarts; the copy expires while a query is under way | a completed job was mailed; every job ends; no mail with settings long gone |
| Seeders and clear `src/src/seeders` | every table but bookings, payments and logs | seed, truncate | staff edit what was seeded | look-then-insert without a transaction; runs die and are repeated | a name once; complete in the end |
| Guards, logs, health, bootstrap, migrations | append-only or configuration | | | | |

Each component's hazards, with the line where each bites and the properties about it, are
listed in `PROJECT.json` under `hazards`.

## 2. Modules

| module | models |
|---|---|
| `HotelState` | tables `bookings`, `booking_rooms`, `rooms`, `payments`, Stripe's intents and events, requests in flight; failure of a request |
| `Booking` | BookingService.create and patchStatus |
| `Payment` | PaymentService.createPaymentIntent, both webhook handlers, confirmCashPayment; Stripe |
| `RoomUpkeep` | RoomService.update as far as `rooms.status` goes |
| `BookingLifecycle` | abstract specification: the life cycle of a booking, without requests |
| `Reservation` | the composition of the three services with Stripe, its properties, its fairness, the refinement of `BookingLifecycle`, and the inductive invariants |
| `ReservationProofs` | the proofs, in four parts: types, money, one request at a time, refinement |
| `ListCache` | the list and detail caches of HotelService, RoomService and PaymentService |
| `ListCacheProofs` | the proofs about it |
| `AccountState` | tables `users`/`admins`, `refresh_tokens`, `otp_records`, reset tokens, requests in flight |
| `Token`, `SignIn`, `TwoFactor`, `PasswordReset` | the services of the same names and the flows on top of them |
| `Accounts` | the composition of the four, and its properties |
| `AccountsProofs` | the proofs about it |
| `Registration` | how customers come to exist: registration in steps and in one request, OAuth sign-in, and the flows that load and save rows of `users` meanwhile |
| `RegistrationProofs` | the proofs about it |
| `Catalogue` | HotelService, RoomTypeService, RoomService, RateOptionService as writers of rows that refer to each other, and the choice of room and rate in BookingService.create |
| `CatalogueProofs` | the proofs about it |
| `StaffState` | tables `roles`, `role_permissions`, `admins`/`users`, the S3 bucket, requests in flight |
| `Roles` | RoleService and its transactions, with their locks |
| `Pictures` | AdminService, UserService and registration as far as roles and profile pictures go; file upload |
| `Staff` | the composition of the two, its properties and its inductive invariant |
| `StaffProofs` | the proofs about it |
| `Smtp` | SettingService.createSMTPSettings and the copy EmailServiceUtils keeps |
| `Notification` | the code for the second factor from the event through the queue to the mail; the reset code, mailed by its request; restarts |
| `NotificationProofs` | the proofs about both |
| `Seeding` | a seeder run as a program of entries, `clear.ts`, and staff at work meanwhile |
| `SeedingProofs` | the proofs about it |
| `SeedPlan` | that program: the rows the ten seeders ensure, in their order |
| `MCReservation`, `MCAccounts`, `MCRegistration`, `MCCatalogue`, `MCStaff`, `MCSeeding` | values and bounds for TLC; `ListCache` and `Notification` are run directly |

`Reservation` EXTENDS `Booking`, `Payment` and `RoomUpkeep`, which share `HotelState`;
`Accounts` is the end of the chain `AccountState`, `Token`, `SignIn`, `TwoFactor`,
`PasswordReset`. `Registration` stands alone: it asks how rows come to be and what
overlapping saves do to them, `Accounts` what a row means for sessions. Two handlers that
insert a user have no action there: UserService.create and the sign-up in handleOAuthLogin give no
`roleId`, which the table requires, so the insert is always refused. (In `Pictures`
UserService.create has one, because it uploads a picture before it is refused.)

`Staff` is the end of the chain `StaffState`, `Roles`, `Pictures`; `Notification` EXTENDS
`Smtp`; `SeedPlan` EXTENDS `Seeding`, whose constant `Plans` it gives a value. `Catalogue`
stands alone: it is about which rows exist and refer to which, `Reservation` about what
happens in a room that exists.

### How state and actions correspond to the code

*A request is a slot.* `req[s].pc` names the `await` a handler is suspended at, the other
fields are the local variables it still needs. One action is the code from one `await` to the
next: everything up to and including the statement's effect in the database. The first action
of a handler also takes its input. A request that is refused before it wrote anything changes
nothing and is left out, except where its refusal is the point (`CreateConflict`, `SendCode`).
A request whose client was answered 408 by TimeoutInterceptor is still in its slot, because
its handler goes on; the client's next attempt is another slot. With one slot requests are served one after the other; with two they overlap.

*The database* executes one statement at a time (READ COMMITTED, single-row statements).
The transaction of BookingService.create is one action, because it only inserts. Those of
RoleService delete and insert, so `Roles` has an action for each statement: what a
transaction has written is in its request until `Commit`, others neither see it nor get past
the rows it holds, and a DELETE that waited goes on with the rows it had found (READ
COMMITTED), which is why overlapping updates of one role need its row's lock to be in order.
In `Catalogue` foreign keys and the unique index on rooms are in the guards of the writes,
and a `save` of a row that was deleted since it was loaded inserts it again.

*TypeORM `save`* of a loaded entity is two statements: the row is read again, and the columns
that differ from what this second reading found are updated, and no other. It can undo what
was saved since the entity was loaded, and what is saved between the two statements is
compared with nothing. `Registration` has both, `Save` and `Update`, because its properties
relate two columns. Elsewhere a save is one action. In `Booking`, `Payment` and `RoomUpkeep`
the status is the only column that can differ, and one column is written at the update or left
at the read. In `SignIn` (`LoginSave`, `RowSave`) every property but the type invariant is
about requests that do not overlap. In `Catalogue` a row's columns that refer to its parent are
not written again but for the type of a room, and in `Pictures` the property about the row is
about requests that do not overlap.

*`UnnamedStatus`.* UpdateRoomDto inherits the initializer `status = AVAILABLE` of
`room/dto/create-room.dto.ts:34`, so an update of a room always writes a status. It is the one
that `StaffStatuses` names, or, in every configuration, AVAILABLE, whatever the room's was.

*`mock`.* Whether OTP mock is on is read from the environment
(`src/src/common/utils/otp-mock.util.ts:23-39`; on by default in development). `Notification`
starts with either value and keeps it; with mock on the two functions that mail a code return
at once (`Begin`; `src/src/common/utils/email-service.utils.ts:117-120` and `224-227`).

*Who records cash.* POST payments/confirm-cash is documented as an administrator's ("Admin: record
a physical/cash payment", `payment/controllers/payment.controller.ts:98`) and asks for
PAYMENTS:create, which the seeded Customer role has (`auth/seeders/auth.seeder.ts:92`); the
service looks neither at role nor at owner. So `CashSave` is called by either, and `adminCash`
remembers which.

*Failure.* `RequestFails` ends a request where it is suspended: a query, the cache or Stripe
answered with an error, or the process died (which is that step for every slot). What was
written stays. `MaxFails` bounds it.

*Stripe* is external: an intent can be paid once the API has answered with its client secret;
an attempt is declined any number of times and succeeds at most once; each event is delivered
at least once, in any order, possibly after later ones, so `events` never shrinks.

*`WebhookAdmitted`.* `src/src/app.module.ts:102-104` puts JwtAuthGuard before every route and
the webhook route is not `@Public()`. FALSE is the program as it stands; TRUE is a deployment
where a proxy adds what the guard asks for. Everything but `guarded_webhook` is checked with
TRUE, because with FALSE no event is ever handled and the handlers would go unexamined.

*Time* in `Booking` is the fixed day `Today` (only the check `checkIn >= today` reads the
clock); in `ListCache` it is ticks; codes, tokens and reset tokens expire by an action.

*History variables*: `roomWriter` (who wrote `rooms.status` last), `leftBehind` (bookings
whose check-out was saved and died before it freed their rooms), `adminCash`, `torn` (users of whom two
saves, each with stage or password to update, were between their two statements at the same
time), `calm` (no two requests
have overlapped; in `ListCache` also no failure and no other writer), `signedIn`, `wrong`,
`refused`, the fields `password` and `exchanges` of a token, the field `via` of a row in
`Registration`, `asked` (what was last requested for a type or a role), `bare`, `stranded`,
`held` (when the table last held a setting), `overlapped` and `alone` in `Seeding`. No action
is guarded by them, except for the bounds `MaxExchanges` and `IsNew`.

*Variants.* A definition marked `Variant` is not used by any action. It is its neighbour
with a plausible mistake in it: for every checked property there is one that, put in the
place of the real one, makes TLC find the property violated.

## 3. What the runs check

| run | cfg | instance | shows |
|---|---|---|---|
| serial | `MCSerial` | 1 slot, 2 bookings, 2 rooms, 4 days, 2 intents, 1 cash payment, 1 failure | TypeOK, NoDoubleBooking, AtMostOnePendingPayment, OccupiedHasGuest, ImplementsLifecycle |
| recorded | `MCRecorded` | 2 slots, 1 booking, 1 intent, 1 cash payment, 1 failure, fairness | NoFreeConfirmation, EventFindsPayment, CompletedWasCollected, CollectedIsRecorded, ConfirmedUnlessRequestFailed |
| list_cache | `MCListCache` | 2 slots, 2 lists, 1 detail, lifetime 2, 2 writes, fairness | CalmIsFresh, EventuallyFresh |
| accounts | `MCAccounts` | 1 slot, 1 live account, 2 tokens, 2 codes sent, 2 tries each, 1 failure | TypeOK, OneSession, SessionHasPassword, CodeSignsInOnce, TwoFactorIsConfirmed, TriesAreCounted |
| registration | `MCRegistration` | 2 slots, 2 phones, 1 failure, 2 accounts (1 account of 1 phone once requests have overlapped) | TypeOK, PasswordBeforeAccount, PhoneRegistersOnce, StagesAdvance |
| catalogue | `MCCatalogue` | 2 slots, 2 hotels, 2 types, 2 rooms, 2 numbers, 1 rate, 1 characteristic, 1 benefit, 1 failure | TypeOK, RoomsMatchTheirType, BookedWithinHotel, ReplacedWhenCalm, BookedRateFits |
| staff | `MCStaff` | 2 slots, 2 roles, 2 names, 2 permissions, 1 admin, 2 users, 3 pictures, 1 failure | TypeOK, PermissionsAsAsked, RolesLiveWhenCalm, BucketMatches, NeverStripped |
| notification | `MCNotification` | 1 worker and 1 request that mail, 1 save at a time, 2 versions, 1 job of 3 attempts, TTL 1, 1 failure, 2 restarts, fairness | TypeOK, RecentSettings, CompletedIsMailed, EveryJobEnds |
| seeding | `MCSeeding` | six scenes: all rows of the ten seeders by one run; 3 to 5 tables with one or two rows each by one or two runs, with a death, an edit and a clearing | OneRowPerKey, AloneEndsWell, RoomTypeOfItsHotel, EventuallySeeded |

Why the bounds are enough for the cases that matter. Two requests are what every race found
needs; one failure reaches every suspended state, and what a second could add is that a
repair fails too, which no property promises to survive.

- *Bookings and money.* Two bookings are enough to collide or to follow each other in a room,
  and `TwoRooms` has a booking of two rooms, an overlap in each and an adjacent stay; two
  intents of one booking are one that fails and one that is paid.
- *Accounts.* No flow of `Accounts` reads or writes two accounts, so `MCInit` leaves one of
  them not deleted, a customer or an administrator. A code allows 2 tries instead of the 3 in
  the source: one below the limit and one at it. Two codes are an old and a new one.
- *Registration.* Two accounts are what a phone can be shared by, and `Small` keeps one, and one
  phone, once requests have overlapped, because the properties of two rows end there. What is
  left under overlap, PasswordBeforeAccount, is about one row and no phone, and is proved for any
  number of both.
- *Lists.* The lifetime 2 in `ListCache` lets a key be cached between the registration and the
  expiry of the registry.
- *Catalogue.* Two hotels with a type each are what a room or a rate can be torn between.
  `OneTopic` follows a behaviour while it is about characteristics, or benefits, or rooms and
  rates, which meet in no action; two rooms matter only for their numbers, so they are
  together only without a rate and a failure. `OneGone` deletes one row: which row is deleted,
  and when, is free. The properties are proved for any number of everything.
- *Staff.* `OneTopic` separates the permissions of one role, the names of two, an admin's role
  and picture, and the pictures of users. Two permissions make old, new and half-way sets
  differ; three keys are an old picture and two that race to replace it. The invariants are
  proved for any number of everything.
- *Notification.* Attempts are the 3 of the source. Two restarts make a job stall once more
  than BullMQ gives it back. A clock of one tick with a TTL of one tick lets the copy expire
  at any moment; the theorem has any TTL and any clock. One version enables mail, one disables
  it. Jobs share nothing but the worker, which takes one at a time.
- *Seeding.* The real plan of about 1300 entries is run alone, so that every name a seeder
  looks for is seen to be seeded before it. The shortened plans keep one row in each table of
  the chain hotel, type, room, with what each seeder looks up, and let two runs, a death, an
  edit and a clearing come at any statement; one has two types in a hotel, so that a run can
  meet the duplicates an earlier overlap made more than once.

**Conditions in the properties.** `calm` and `fails = 0` are in a property exactly where the
code needs them; the runs below, or a cfg of section 5, show the case that is excluded.
`OneSession` and `CodeSignsInOnce` hold with failures; `SessionHasPassword`,
`TwoFactorIsConfirmed` and `TriesAreCounted` do not, because two statements that belong
together are in no transaction. `SessionHasPassword` speaks of the flows that end sessions
(changePassword, userResetPassword, and a login); updateProfile, an edit by an administrator and
resetPassword set a password and end none. The one-slot run makes `calm` TRUE throughout;
the condition is there so that the property means the same with more slots.
`PermissionsAsAsked` holds under overlap unless two updates of a role give it permissions and
one of them writes nothing else (`bare`): the lock on the role's row is what serialises them.
`RolesLiveWhenCalm`, `ReplacedWhenCalm` and `BookedRateFits` need calm because nothing joins
the two statements each is about, `BucketMatches` also that no call of S3 failed.
`OccupiedHasGuest` holds with failures, for it names the one that matters: a check-out that
died between the booking and its rooms, after which the room stays OCCUPIED. `NoFreeConfirmation`
says that a booking is confirmed only after a payment was recorded, and by whom: Stripe
collected the money, an administrator recorded cash (`CollectedFor`), or a customer called
confirm-cash himself (`ClaimedFor`), for which nobody took money. Without the last it is false
(`MCCashByCustomer`). `CheckedInIsOccupied` of freed_room excuses a room whose status
RoomService.update changed last; an update that names no status makes it AVAILABLE too, over
OCCUPIED (`MCEditedRoom`). `PasswordBeforeAccount` holds however old the rows are that requests
save, because a save that takes the password away takes the stage back; but two saves whose
re-reads and updates run through each other each write half of it, so `torn` users are excluded
(`MCPasswordLost`). In `CompletedIsMailed` a job is completed without a mail exactly where mock
is on. `OneRowPerKey` needs that no two seeder runs overlapped. `AloneEndsWell` needs that there are
no duplicates: a seeder that meets two hotels of one name may look up one of them for the first
room type and the other for the second, so that the hotel it holds in the end is not the parent
of all the types (the scene with two types shows it). `NeverStripped`,
`RoomsMatchTheirType`, `BookedWithinHotel`, `RecentSettings`, `CompletedIsMailed`,
`EveryJobEnds` and `RoomTypeOfItsHotel` hold whatever overlaps or fails.

**Deadlock** is checked except where the system may really stop: accounts, where the only
account may be deleted; registration, catalogue and staff, where all ids may be used up and
deleted; notification, where every job may have ended and the clock, the saves and the restarts
are used up. That no other run deadlocks says little: Stripe may always decline again, time
may always pass and a seeder may always be started again.

**Fairness.** `FairSpec` of `Reservation` has weak fairness for every slot's step: Node
resumes each handler whose `await` was answered, and one that is never answered is a failure.
It has strong fairness for the delivery of each event: Stripe repeats a delivery until it is
acknowledged, and slots are a bound of the model which a delivery must not starve behind.
`FairSpec` of `ListCache` has weak fairness for every slot's step and for time. No arrival of
a request is fair. `Spec` of `Notification` has weak fairness for the worker and for what
the queue does with each job: BullMQ takes waiting jobs, moves delayed ones back when their
backoff is over and looks for stalled ones, and a process that was restarted does so again.
Saves, failures, restarts and the clock are not fair. `Spec` of `Seeding` has weak fairness
for the statements of a run and of the cleaner, which Node resumes as above, and for starting
a run again that did not end well, which is what the developer does who needs the data; deaths,
edits and clearings are bounded and not fair. `Accounts`, `Registration`, `Catalogue` and
`Staff` state no liveness.

## 4. Findings

| run | property | what the code does |
|---|---|---|
| double_booking | NoDoubleBooking | two creates pass both availability checks before either inserts (`booking.service.ts:351`) |
| freed_room | CheckedInIsOccupied | cancelling a later booking frees the room of the guest who is checked in (`booking.service.ts:203-219`) |
| guarded_webhook | CollectedIsRecorded | the route documented as "no auth" is behind the global guard (`payment.controller.ts:63-64`) |

## 5. Further counterexamples

These configurations are kept because their traces explain a condition of a property above
or a place where the code and its documents differ. TLC reports the property violated in
each. `MCRotation` and `MCTwoFactorLogin` are run on `MCAccounts`, `MCRegisteredTwice` and
`MCPasswordLost` on `MCRegistration`, the others on `MCReservation`.

| cfg | property | trace |
|---|---|---|
| `MCLostUpdate` | ImplementsLifecycle | a booking is cancelled while confirmCashPayment is between check and save: cash is recorded for a cancelled booking, which is CONFIRMED again (`payment/services/payment.service.ts:226-251`) |
| `MCUnpayable` | PendingPaymentIsPayable | createPaymentIntent dies after the row was saved; the pending row blocks every later attempt |
| `MCLostConfirmation` | CollectedIsConfirmed | the handler dies between COMPLETED and CONFIRMED; the redelivery is skipped (`payment/services/payment.service.ts:170-190`) |
| `MCCashByCustomer` | ConfirmedByAdminOrCard | a customer with a pending booking calls confirm-cash and is confirmed, against "Admin: record a physical/cash payment and confirm the booking" (`payment/controllers/payment.controller.ts:87-98`, `auth/seeders/auth.seeder.ts:92`, `payment/services/payment.service.ts:213-231`) |
| `MCEditedRoom` | CheckedInUnlessNamed | staff edit something of a room whose guest is checked in and name no status; the room becomes AVAILABLE (`room/dto/create-room.dto.ts:34`, `room/services/room.service.ts:245-254`) |
| `MCRotation` | RefreshRotates | a refresh issues no new refresh token and keeps the old one, against `src/README.md:427` (`auth/services/token.service.ts:67-137`) |
| `MCTwoFactorLogin` | LoginAsksForCode | a confirmed code counts as a code already sent, so an administrator with two-factor login on gets no code, against `src/README.md:415` (`auth/services/two-factor.service.ts:194-206`) |
| `MCRegisteredTwice` | OneAccountPerPhone | a registration in steps is begun, the same phone registers in one request, and the first is completed: two completed accounts with one phone, against the message of `user-auth.service.ts:616` |
| `MCPasswordLost` | AccountHasPassword | an edit that loaded the row before the password was set reads it again, and finds stage and password to write back; the last step of the registration reads it again, and finds only the stage; the edit updates, the last step updates: COMPLETED without a password (`auth/services/user-auth.service.ts:448`, `user/services/user.service.ts:165`) |

Seen while reading, and not stated as a property: a late `payment_failed` turns a COMPLETED
row to FAILED (`HookSave`); a booking cancelled with an open intent can still be paid, and
nothing refunds; `cleanupExpiredRefreshTokens` names columns that do not exist; the logout
of an administrator revokes only the token it names, because revokeAllUserTokens is given
the id of an administrator; wrong login codes are not counted, because validateLoginCode
looks a record up by the code; a list key that is registered already does not renew the
registry's lifetime, so a key can outlive the registry that would invalidate it (the reason
CalmIsFresh speaks of registered keys); an OAuth sign-in writes the provider's id and then
saves the row it loaded before, so the account is not linked (`Link`, `Save`); nothing
compares the phone a customer sets in updateProfile with others; overlapping updates of a
type's characteristics leave the union of both sets or answer with an error, against "removes
any existing characteristics" (`room/services/room-type.service.ts:193`), and a type whose
characteristics are not found is saved before it is answered 404; an administrator can be
given a role while it is removed, against the message of `auth/services/role.service.ts:214`;
of two overlapping changes of a picture the one saved last may name an object the other
deleted; UserService.create uploads a picture and inserts no row (`roleId` is NOT NULL since
the migration AddRoleIdInUserTable), so the object stays; a soft-deleted seeded administrator
is not found by the seeder while his e-mail is taken, so the seeders fail until the row is
deleted; nobody calls invalidateSmtpCache.

## 6. What is proved

All for any number of slots, bookings, rooms, users, intents and days, of cached keys and
writes, of accounts, sessions, codes and tries, of hotels, types, rates and characteristics, of
roles, permissions, people and pictures, of senders, writers, versions and jobs, of seeder runs
and entries, and any TTL and number of attempts. They use only the named assumptions on the
constants:

- `IdsAssumption`, `BoundsAssumption`, `RequestsAssumption`, `StaffAssumption` and
  `WebhookAssumption` of `Reservation`, `CacheAssumption`, `AccountAssumption`,
  `RegistrationAssumption`, `CatalogueAssumption`, `StaffAssumption` of `StaffState`,
  `SmtpAssumption` and `NotificationAssumption`: sets of ids that name different things are
  apart, the values for "none", "unknown" and "not given" are none of the ids, bounds are numbers.
- `SeedingAssumption` is about the seeders' texts, which `Plans` abstracts: an entry refers to
  rows that earlier entries gave; it has a name; a room is preceded by the lookup of its type in
  its own hotel; what is looked for was ensured before; a label is used again only for the same
  name of the same parents. TLC evaluates each part on the whole of `SeedPlan`.

| module | theorem | states |
|---|---|---|
| `ReservationProofs` | TypeCorrect | Spec => []TypeOK |
| `ReservationProofs` | MoneyCorrect | Spec => []NoFreeConfirmation |
| `ReservationProofs` | EventsFindPayments | Spec => []EventFindsPayment |
| `ReservationProofs` | CompletedCorrect | Spec => []CompletedWasCollected |
| `ReservationProofs` | NoDoubleBookingSerially | Serial: Spec => []NoDoubleBooking |
| `ReservationProofs` | OnePendingPaymentSerially | Serial: Spec => []AtMostOnePendingPayment |
| `ReservationProofs` | OccupiedHasGuestSerially | Serial: Spec => []OccupiedHasGuest |
| `ReservationProofs` | LifecycleSerially | Serial: Spec => BookingLifecycle!Spec |
| `ListCacheProofs` | OnlyOwedIsStale | Spec => []ListCacheInv |
| `ListCacheProofs` | CacheIsFresh | Spec => []CalmIsFresh |
| `AccountsProofs` | AccountsInvHolds | Spec => []AccountsInv |
| `AccountsProofs` | AccountsTypes | Spec => []TypeOK |
| `AccountsProofs` | OneSessionEach | Spec => []OneSession |
| `AccountsProofs` | SessionsFollowPassword | Spec => []SessionHasPassword |
| `AccountsProofs` | CodesSignInOnce | Spec => []CodeSignsInOnce |
| `AccountsProofs` | TwoFactorFollowsCodes | Spec => []TwoFactorIsConfirmed |
| `AccountsProofs` | WrongTriesCount | Spec => []TriesAreCounted |
| `RegistrationProofs` | RegistrationTypes | Spec => []TypeOK |
| `RegistrationProofs` | PasswordsComeFirst | Spec => []PasswordBeforeAccount |
| `RegistrationProofs` | PhonesRegisterOnce | Spec => []PhoneRegistersOnce |
| `RegistrationProofs` | StagesOnlyAdvance | Spec => StagesAdvance |
| `CatalogueProofs` | CatalogueKept | Spec => []CatalogueInv |
| `CatalogueProofs` | CatalogueTyped | Spec => []TypeOK |
| `CatalogueProofs` | RoomsStayInTheirHotel | Spec => []RoomsMatchTheirType |
| `CatalogueProofs` | BookingsStayInTheirHotel | Spec => []BookedWithinHotel |
| `CatalogueProofs` | CalmKept | Spec => []CalmInv |
| `CatalogueProofs` | ReplacementsAreWhole | Spec => []ReplacedWhenCalm |
| `CatalogueProofs` | BooksAtItsOwnRate | Spec => BookedRateFits |
| `StaffProofs` | StaffKept | Spec => []StaffInv |
| `StaffProofs` | StaffTyped | Spec => []TypeOK |
| `StaffProofs` | NobodyIsStripped | Spec => NeverStripped |
| `StaffProofs` | GivenAsAsked | Spec => []PermissionsAsAsked |
| `StaffProofs` | RolesStayLive | Spec => []RolesLiveWhenCalm |
| `StaffProofs` | PicturesMatch | Spec => []BucketMatches |
| `NotificationProofs` | NotificationKept | Spec => []NotificationInv |
| `NotificationProofs` | NotificationTyped | Spec => []TypeOK |
| `NotificationProofs` | SettingsAreRecent | Spec => []RecentSettings |
| `NotificationProofs` | CodesAreMailed | Spec => []CompletedIsMailed |
| `SeedingProofs` | SeedingCorrect | Spec => []SeedingInv |
| `SeedingProofs` | OneRowForAKey | Spec => []OneRowPerKey |
| `SeedingProofs` | RoomsAreOfTheirHotel | Spec => []RoomTypeOfItsHotel |
| `SeedingProofs` | AloneRunsEndWell | Spec => []AloneEndsWell |

The argument. `TypeInv` adds to `TypeOK` that a suspended request has the local variables its
`pc` needs. `MoneyInv` is about money under every interleaving. NoFreeConfirmation is not
inductive: a handler about to confirm must be known to act on a recorded payment (`CoveredOK`, of
which a cash payment is one since the row was saved before, by an admin or a customer); for a
webhook this
holds because a COMPLETED event is about a succeeded intent (`EventsAreTrue`), whose row
names the booking the customer paid for (`RowMatchesIntent`), which holds because the
request that saves the row has the intent for itself until it answers (`HeldOK`,
`HeldApart`). `SerialInv` is for one slot (`Serial`): what a handler read is still so when it
writes (`FreshOK`, `NoPendingOK`), and a room found free is free at the insert (`CheckedOK`).
The run double_booking and the cfg MCLostUpdate show that with two slots the first and the
last of the serial theorems are false, and two overlapping createPaymentIntent requests pass
the check together. `BookedInv` says that a booking someone works on
exists; the refinement needs it, since money may arrive only for a booking that exists. In
the refinement `paid` is the set of bookings RecordedFor; each step of the services is a
step of `BookingLifecycle` or leaves status and paid unchanged. OccupiedHasGuest
needs `GuestInv`: a patchStatus that has saved the status and has yet to save the rooms
(`PatchedOK`) still finds the status it saved; if it dies there, `leftBehind` has its booking,
whose CHECKED_OUT no later step changes.

In `ListCache`, CalmIsFresh speaks of moments without a request. `ListCacheInv` says what holds
during one: a key is stale only while the one request in flight has still to delete it
(`StaleIsOwed`, `Owed`), a request that read the table holds what the table holds, and the
registry it read lists only fresh keys (`Held`). With two requests in flight `Held` fails: an
answer read before a write is cached after the deletes.

In `Accounts` the five properties share the facts that one request is in flight while calm
(`OneAtATime`) and that what it loaded of a row and of a code is still so when it writes
(`HeldInv`). `SessionInv` adds that no session is open when one is about to be issued,
`PasswordInv` that an open session is not of its account's password only while the request that
changed it has still to revoke, `SignedInInv` that a pending code has let nobody in yet,
`TriesInv` that the record of a pending code is behind the wrong tries by at most the one
under way, and `TwoFactorInv` that flag and record differ only between the two statements of
the request that changes both. `PasswordInv`, `TriesInv` and `TwoFactorInv` are about histories
without a failure, as their properties are.

In `Registration`, PasswordBeforeAccount needs that every row a request carries has it too,
since any of them may be saved at any time, and that between the two statements of a save what
it is not going to update of stage and password is as it would leave it (`Covers`). Both are in
`PasswordInv`. The second stays so because nobody else updates either column meanwhile, which is
what `torn` remembers an exception of. PhoneRegistersOnce and StagesAdvance
are about requests that do not overlap, for any number of slots: `CalmInv` says that then
only one is in flight, that what it found about its phone is still so (`KnowsOK`), that the
row it will save is `Ahead` of the one in the table, and that the accounts registered in one
request are completed, which is all that way looks for. MCRegisteredTwice shows that across
the two ways the conclusion is false.

In `Catalogue` the checks are made on reads that are old by the time of the write, and no
constraint of the database relates the columns. `CatalogueInv` says why it is enough: the
hotel of a type, the hotel of a room and the type of a rate are never written again, not even
by the save that revives a deleted row (`Frame`), so what a suspended request remembers of
them (`Remembers`) is still true when it writes; what can change, whether a row is live, is
checked once more by a foreign key (`RowsFit`). BookedWithinHotel is weaker than "the rate is
of the room's type", which holds without overlap (BooksAtItsOwnRate) and which overlap breaks:
both types are of one hotel all the same. ReplacedWhenCalm and BookedRateFits need `CalmInv`
on top: the links of a type were all deleted when the new ones are inserted, and the type a
booking read is still that of its room (`HeldAlone`).

In `Staff`, NeverStripped is about transactions that replace the permissions of one role at
the same time. A delete finds all links that are committed when it starts, and a commit takes
from it those that are gone, so what the transactions of a role have deleted or are about to
delete is nested (`Nested`); two have never deleted the same link, since the second waits. So
at most one of them has deleted any, and whatever of its new links it found there, and does not
insert, is there when it commits (`LinksFit`). PermissionsAsAsked needs in addition that the
lock of the role's row leaves one transaction at a time past it (`OneHolder`) and that this one
finds every link (`SeesAll`); a request that gives permissions without a name takes no lock,
which is why `bare` excludes it. The other two are about requests that do not overlap:
`AloneInv` says that what the one request found of a role is still so, and `ObjectsInv` that
each key belongs to one person, or to the request that has uploaded it or is to delete it.

In `Notification`, RecentSettings is not inductive because a query may be slow:
`NotificationInv` adds that a sender about to store a copy has seen values the table held at
the time it is going to stamp the copy with, or later (`SenderFits`), and that time is the one
before the query. With the time of arrival instead (`StampOnArrival`) it is false.
CompletedIsMailed needs that each mail is paid for by an attempt that failed or a worker that
died, except the one of the attempt under way or of the last one (`Unpaid`), and that a worker
that has sent is at a job with a mail, or in mock mode, where a sender is never anywhere but idle
or done.

In `Seeding`, `SeedingInv` says what a run holds: a row for every label behind it (`HeldInv`).
OneRowPerKey follows because without overlap a row about to be saved is still missing
(`MissingInv`), for staff never revive a row nor give a name that a seeder looks for.
RoomTypeOfItsHotel holds under overlap because a run ensures a room right after it looked for
the type by the hotel's row (`TypeFoundInv`), whichever of the duplicates it holds.
AloneEndsWell is about a run alone after anything. `UndisturbedInv` adds that the labels it
holds stand for live rows, that all that it went through is found by the very rows it now
holds (`Done`), and that a row came from an entry with its name (`OriginInv`). The crux is a
label that is given again: without duplicates the row found now is the one it stood for, so
what was done remains done (`SameAgain`, `DoneFurther`). A lookup then finds what was ensured
before, and only a removed row, which can only be an administrator's (`RemovedInv`), refuses an
insert. The attempt to prove it without the condition on duplicates is what showed that the
condition is needed.

Only model-checked: the liveness properties (CollectedIsRecorded, ConfirmedUnlessRequestFailed,
EventuallyFresh, EveryJobEnds, EventuallySeeded), since liveness under fairness is out of the
prover's reach, and that the parts of `SeedingAssumption` hold of the real plan, which TLC
evaluates. Every invariant and action property of a passing run has a theorem.

## 7. Not modelled

- OtpService, which nothing injects, and the jobs nobody puts on a queue: the SMS queue and
  the queued reset mail of NotificationService.
- Guards and interceptors, which read and answer; that JwtAuthGuard is global is the constant
  `WebhookAdmitted`. What an access token still permits after its owner lost a role is not
  asked.
- Audit and activity logs: written after the answer, read back by no decision.
- Queries, filters, paging, signed URLs, the text of mails; prices, nights and
  occupancy, which BookingService.create computes once from one request.
- Start-up checks, health endpoints and migrations; the constraints migrations create are in
  the guards of the inserts and saves that meet them.
- The codes OTP mock gives, which are all the same one, and its SMS side: in `Accounts` a code is
  a code, and the provider that verifies one sent by SMS accepts or refuses. That no mail is sent
  in mock mode is in `Notification`.
- Columns that only describe: names, addresses, floors, amenities.

## 8. Plan

Order so far: the reservation core first, because money and rooms are at stake; then the
cache, because three services share its protocol; accounts and registration; the catalogue,
staff, mail and seeding. Left:

1. Refinement proved for more than bookings: an abstract specification of sessions that `Token`
   and `SignIn` implement.
2. `Accounts` with two slots: stale whole-row saves and overlapping logins in a reduced
   instance.
3. `Access`: the guards that read roles and permissions, and what a request in flight sees
   while they change.
4. `StayRules`: dates, nights and prices as pure operators.
