-------------------------------- MODULE Catalogue --------------------------------
(***************************************************************************)
(* What staff offer: hotels, their room types, rooms and rate options, the *)
(* characteristics of a type and the benefits of a rate, kept by four      *)
(* services whose requests overlap, and the bookings that refer to them.   *)
(*                                                                         *)
(* Every `remove` deletes the row.  The database refuses to delete a row   *)
(* that rooms, types, rates or bookings refer to, deletes the links of a   *)
(* type or a rate with it, and refuses a row that refers to none.  A save  *)
(* writes the whole row that was loaded; if the row has been deleted       *)
(* meanwhile, TypeORM inserts it again, or finds it gone only when it      *)
(* updates and changes nothing.                                            *)
(*                                                                         *)
(* The reads a handler makes before its first write are one step: what     *)
(* they look at either cannot change later or is checked again by the      *)
(* database at the write.  Columns that only describe are left out.        *)
(***************************************************************************)
EXTENDS Integers, FiniteSets

CONSTANTS
    Slots,          \* requests that may be in flight at the same time
    Hotels, Types, Rooms, Rates,    \* ids of rows that may be inserted
    Numbers,        \* room numbers
    Characteristics, Benefits,
    Unknown,        \* an id that is no characteristic's
    None,           \* no row, or a field that is not given
    MaxFails        \* bound: requests that may die half way

VARIABLES
    hotel,          \* state of each row of hotels
    type,           \* rows of room_types
    room,           \* rows of rooms
    rate,           \* rows of rate_options
    chars,          \* characteristics linked to each type
    benefits,       \* benefits linked to each rate
    booked,         \* room and rate of each row of booking_rooms
    req,            \* the request each slot is serving
    asked,          \* history: the characteristics last given to each type
    calm,           \* history: no two requests have overlapped
    fails           \* requests that died half way so far

rows == <<hotel, type, room, rate, booked>>
links == <<chars, benefits, asked>>
vars == <<hotel, type, room, rate, chars, benefits, booked, req, asked, calm, fails>>

ASSUME CatalogueAssumption ==
    /\ None \notin Hotels \cup Types \cup Rooms \cup Rates \cup Numbers
    /\ Unknown \notin Characteristics
    /\ MaxFails \in Nat

\* A row that is GONE was there and was deleted.
RowState == {"NONE", "LIVE", "GONE"}

NoType == [state |-> "NONE", hotel |-> None]
NoRoom == [state |-> "NONE", hotel |-> None, type |-> None, number |-> None]
NoRate == [state |-> "NONE", type |-> None]

RoomType   == {NoType} \cup [state : {"LIVE", "GONE"}, hotel : Hotels]
Room       == {NoRoom} \cup [state : {"LIVE", "GONE"}, hotel : Hotels, type : Types, number : Numbers]
RateOption == {NoRate} \cup [state : {"LIVE", "GONE"}, type : Types]

HotelLive(h) == hotel[h] = "LIVE"
TypeLive(t)  == type[t].state = "LIVE"
RoomLive(r)  == room[r].state = "LIVE"
RateLive(o)  == rate[o].state = "LIVE"

--------------------------------------------------------------------------------
Idle == [pc |-> "idle", id |-> None, hotel |-> None, type |-> None, number |-> None,
         row |-> NoRoom, room |-> None, set |-> {}]

Suspended == {
    "hotelPreload", "hotelSave", "hotelRemove",
    "typeInsert", "typePreload", "typeSave", "typeRemove", "syncFind", "syncDelete", "syncSave",
    "roomsInsert", "roomPreload", "roomSave", "roomRemove",
    "rateInsert", "ratePreload", "rateSave", "rateRemove", "addBenefits", "removeBenefits",
    "bookRate", "bookInsert"}

Start(s, r) ==
    /\ req[s] = Idle
    /\ req' = [req EXCEPT ![s] = r]
    /\ calm' = (calm /\ \A t \in Slots : req[t] = Idle)
    /\ UNCHANGED fails

Continue(s, r) == req' = [req EXCEPT ![s] = r] /\ UNCHANGED <<calm, fails>>
Goto(s, pc)    == Continue(s, [req[s] EXCEPT !.pc = pc])
Finish(s)      == Continue(s, Idle)

Init ==
    /\ hotel = [h \in Hotels |-> "NONE"]
    /\ type = [t \in Types |-> NoType]
    /\ room = [r \in Rooms |-> NoRoom]
    /\ rate = [o \in Rates |-> NoRate]
    /\ chars = [t \in Types |-> {}]
    /\ benefits = [o \in Rates |-> {}]
    /\ booked = {}
    /\ req = [s \in Slots |-> Idle]
    /\ asked = [t \in Types |-> {}]
    /\ calm = TRUE
    /\ fails = 0

RequestFails(s) ==
    /\ req[s] # Idle
    /\ fails < MaxFails
    /\ fails' = fails + 1
    /\ req' = [req EXCEPT ![s] = Idle]
    /\ UNCHANGED <<rows, links, calm>>

--------------------------------------------------------------------------------
\* HotelService

CreateHotel(s) ==
    /\ req[s] = Idle
    /\ \E h \in Hotels : hotel[h] = "NONE" /\ hotel' = [hotel EXCEPT ![h] = "LIVE"]
    /\ UNCHANGED <<type, room, rate, booked, links, req, calm, fails>>

UpdateHotel(s) ==
    /\ \E h \in Hotels : HotelLive(h) /\ Start(s, [Idle EXCEPT !.pc = "hotelPreload", !.id = h])
    /\ UNCHANGED <<rows, links>>

HotelPreload(s) ==
    /\ req[s].pc = "hotelPreload"
    /\ IF HotelLive(req[s].id) THEN Goto(s, "hotelSave") ELSE Finish(s)
    /\ UNCHANGED <<rows, links>>

HotelSave(s) ==
    /\ req[s].pc = "hotelSave"
    /\ hotel' \in {hotel, [hotel EXCEPT ![req[s].id] = "LIVE"]}
    /\ Finish(s)
    /\ UNCHANGED <<type, room, rate, booked, links>>

RemoveHotel(s) ==
    /\ \E h \in Hotels : HotelLive(h) /\ Start(s, [Idle EXCEPT !.pc = "hotelRemove", !.id = h])
    /\ UNCHANGED <<rows, links>>

HotelFree(h) ==
    /\ \A t \in Types : ~(TypeLive(t) /\ type[t].hotel = h)
    /\ \A r \in Rooms : ~(RoomLive(r) /\ room[r].hotel = h)

HotelRemove(s) ==
    /\ req[s].pc = "hotelRemove"
    /\ hotel' = IF HotelFree(req[s].id) THEN [hotel EXCEPT ![req[s].id] = "GONE"] ELSE hotel
    /\ Finish(s)
    /\ UNCHANGED <<type, room, rate, booked, links>>

--------------------------------------------------------------------------------
\* RoomTypeService

CreateType(s) ==
    /\ \E h \in Hotels, cs \in SUBSET (Characteristics \cup {Unknown}) :
         /\ HotelLive(h)
         /\ Start(s, [Idle EXCEPT !.pc = "typeInsert", !.hotel = h, !.set = cs])
    /\ UNCHANGED <<rows, links>>

\* The row is there before the characteristics it is to have are looked at.
TypeInsert(s) ==
    /\ req[s].pc = "typeInsert"
    /\ \/ /\ HotelLive(req[s].hotel)
          /\ \E t \in Types :
               /\ type[t].state = "NONE"
               /\ type' = [type EXCEPT ![t] = [state |-> "LIVE", hotel |-> req[s].hotel]]
               /\ IF req[s].set = {} THEN Finish(s)
                  ELSE Continue(s, [req[s] EXCEPT !.pc = "syncFind", !.id = t])
       \/ ~HotelLive(req[s].hotel) /\ Finish(s) /\ UNCHANGED type
    /\ UNCHANGED <<hotel, room, rate, booked, links>>

UpdateType(s) ==
    /\ \E t \in Types, cs \in (SUBSET (Characteristics \cup {Unknown})) \cup {None} :
         /\ TypeLive(t)
         /\ Start(s, [Idle EXCEPT !.pc = "typePreload", !.id = t, !.set = cs])
    /\ UNCHANGED <<rows, links>>

TypePreload(s) ==
    /\ req[s].pc = "typePreload"
    /\ IF TypeLive(req[s].id) THEN Goto(s, "typeSave") ELSE Finish(s)
    /\ UNCHANGED <<rows, links>>

\* The hotel of a type is in no DTO and never changes.
TypeSave(s) ==
    /\ req[s].pc = "typeSave"
    /\ LET t == req[s].id
           next == IF req[s].set = None THEN Finish(s) ELSE Goto(s, "syncFind")
       IN  \/ HotelLive(type[t].hotel) /\ type' = [type EXCEPT ![t].state = "LIVE"] /\ next
           \/ ~TypeLive(t) /\ UNCHANGED type /\ next
           \/ ~TypeLive(t) /\ ~HotelLive(type[t].hotel) /\ UNCHANGED type /\ Finish(s)
    /\ UNCHANGED <<hotel, room, rate, booked, links>>

\* syncCharacteristics: the ids are looked up, the old links deleted, the new ones inserted.
SyncFind(s) ==
    /\ req[s].pc = "syncFind"
    /\ IF Unknown \in req[s].set THEN Finish(s) ELSE Goto(s, "syncDelete")
    /\ UNCHANGED <<rows, links>>

\* Variant: the new links are added to the old ones.
SyncDeleteNothing(s) ==
    /\ req[s].pc = "syncDelete"
    /\ asked' = [asked EXCEPT ![req[s].id] = req[s].set]
    /\ Goto(s, "syncSave")
    /\ UNCHANGED <<rows, chars, benefits>>

SyncDelete(s) ==
    /\ req[s].pc = "syncDelete"
    /\ chars' = [chars EXCEPT ![req[s].id] = {}]
    /\ asked' = [asked EXCEPT ![req[s].id] = req[s].set]
    /\ Goto(s, "syncSave")
    /\ UNCHANGED <<rows, benefits>>

\* All links or none: one of them may be there again, or the type deleted.
SyncSave(s) ==
    /\ req[s].pc = "syncSave"
    /\ LET t == req[s].id
       IN  chars' = IF TypeLive(t) /\ chars[t] \cap req[s].set = {}
                    THEN [chars EXCEPT ![t] = @ \cup req[s].set] ELSE chars
    /\ Finish(s)
    /\ UNCHANGED <<rows, benefits, asked>>

RemoveType(s) ==
    /\ \E t \in Types : TypeLive(t) /\ Start(s, [Idle EXCEPT !.pc = "typeRemove", !.id = t])
    /\ UNCHANGED <<rows, links>>

TypeFree(t) ==
    /\ \A r \in Rooms : ~(RoomLive(r) /\ room[r].type = t)
    /\ \A o \in Rates : ~(RateLive(o) /\ rate[o].type = t)

TypeRemove(s) ==
    /\ req[s].pc = "typeRemove"
    /\ LET t == req[s].id
       IN  IF TypeFree(t) /\ TypeLive(t)
           THEN /\ type' = [type EXCEPT ![t].state = "GONE"]
                /\ chars' = [chars EXCEPT ![t] = {}]
                /\ asked' = [asked EXCEPT ![t] = {}]
           ELSE UNCHANGED <<type, chars, asked>>
    /\ Finish(s)
    /\ UNCHANGED <<hotel, room, rate, booked, benefits>>

--------------------------------------------------------------------------------
\* RoomService

\* Variant: it is enough that the type exists.
TypeExists(t, h) == TypeLive(t)

\* assertRoomTypeBelongsToHotel
TypeOfHotel(t, h) == TypeLive(t) /\ type[t].hotel = h

NumberTaken(h, n, other) ==
    \E r \in Rooms \ {other} : RoomLive(r) /\ room[r].hotel = h /\ room[r].number = n

\* What a request asks for: rooms, each of a type and with a number of its own.
Wanted == {w \in SUBSET (Types \X Numbers) :
              Cardinality(w) \in 1..2 /\ \A a, b \in w : a[2] = b[2] => a = b}

\* create for one room, bulkCreate for several.
CreateRooms(s) ==
    /\ \E h \in Hotels, w \in Wanted :
         /\ HotelLive(h)
         /\ \A a \in w : TypeOfHotel(a[1], h) /\ ~NumberTaken(h, a[2], None)
         /\ Start(s, [Idle EXCEPT !.pc = "roomsInsert", !.hotel = h, !.set = w])
    /\ UNCHANGED <<rows, links>>

\* All of them or none.
RoomsInsert(s) ==
    /\ req[s].pc = "roomsInsert"
    /\ LET h == req[s].hotel
           accepted == \A a \in req[s].set : TypeLive(a[1]) /\ ~NumberTaken(h, a[2], None)
       IN  \/ /\ accepted
              /\ \E ids \in SUBSET {r \in Rooms : room[r].state = "NONE"} :
                 \E give \in [ids -> req[s].set] :
                   /\ \A a \in req[s].set : \E r \in ids : give[r] = a
                   /\ Cardinality(ids) = Cardinality(req[s].set)
                   /\ room' = [r \in Rooms |->
                         IF r \in ids THEN [state |-> "LIVE", hotel |-> h,
                                            type |-> give[r][1], number |-> give[r][2]]
                                      ELSE room[r]]
           \/ ~accepted /\ UNCHANGED room
    /\ Finish(s)
    /\ UNCHANGED <<hotel, type, rate, booked, links>>

UpdateRoom(s) ==
    /\ \E r \in Rooms, t \in Types \cup {None}, n \in Numbers \cup {None} :
         /\ RoomLive(r)
         /\ t \notin {None, room[r].type} => TypeOfHotel(t, room[r].hotel)
         /\ n \notin {None, room[r].number} => ~NumberTaken(room[r].hotel, n, r)
         /\ Start(s, [Idle EXCEPT !.pc = "roomPreload", !.id = r, !.type = t, !.number = n])
    /\ UNCHANGED <<rows, links>>

\* Variant: a field that is not given is cleared.
Cleared(given, existing) == given

Resolved(given, existing) == IF given = None THEN existing ELSE given

RoomPreload(s) ==
    /\ req[s].pc = "roomPreload"
    /\ LET r == req[s].id
           row == [room[r] EXCEPT !.type   = Resolved(req[s].type, @),
                                  !.number = Resolved(req[s].number, @)]
       IN  IF RoomLive(r) THEN Continue(s, [req[s] EXCEPT !.pc = "roomSave", !.row = row])
                          ELSE Finish(s)
    /\ UNCHANGED <<rows, links>>

RoomSave(s) ==
    /\ req[s].pc = "roomSave"
    /\ LET r == req[s].id
           row == req[s].row
       IN  \/ /\ HotelLive(row.hotel) /\ TypeLive(row.type)
              /\ ~NumberTaken(row.hotel, row.number, r)
              /\ room' = [room EXCEPT ![r] = row]
           \/ /\ ~RoomLive(r) \/ ~TypeLive(row.type) \/ NumberTaken(row.hotel, row.number, r)
              /\ UNCHANGED room
    /\ Finish(s)
    /\ UNCHANGED <<hotel, type, rate, booked, links>>

RemoveRoom(s) ==
    /\ \E r \in Rooms : RoomLive(r) /\ Start(s, [Idle EXCEPT !.pc = "roomRemove", !.id = r])
    /\ UNCHANGED <<rows, links>>

RoomFree(r) == \A b \in booked : b.room # r

RoomRemove(s) ==
    /\ req[s].pc = "roomRemove"
    /\ room' = IF RoomFree(req[s].id) THEN [room EXCEPT ![req[s].id].state = "GONE"] ELSE room
    /\ Finish(s)
    /\ UNCHANGED <<hotel, type, rate, booked, links>>

--------------------------------------------------------------------------------
\* RateOptionService

CreateRate(s) ==
    /\ \E t \in Types : TypeLive(t) /\ Start(s, [Idle EXCEPT !.pc = "rateInsert", !.type = t])
    /\ UNCHANGED <<rows, links>>

RateInsert(s) ==
    /\ req[s].pc = "rateInsert"
    /\ \/ /\ TypeLive(req[s].type)
          /\ \E o \in Rates :
               /\ rate[o].state = "NONE"
               /\ rate' = [rate EXCEPT ![o] = [state |-> "LIVE", type |-> req[s].type]]
       \/ ~TypeLive(req[s].type) /\ UNCHANGED rate
    /\ Finish(s)
    /\ UNCHANGED <<hotel, type, room, booked, links>>

UpdateRate(s) ==
    /\ \E o \in Rates : RateLive(o) /\ Start(s, [Idle EXCEPT !.pc = "ratePreload", !.id = o])
    /\ UNCHANGED <<rows, links>>

RatePreload(s) ==
    /\ req[s].pc = "ratePreload"
    /\ IF RateLive(req[s].id) THEN Goto(s, "rateSave") ELSE Finish(s)
    /\ UNCHANGED <<rows, links>>

RateSave(s) ==
    /\ req[s].pc = "rateSave"
    /\ LET o == req[s].id
       IN  \/ TypeLive(rate[o].type) /\ rate' = [rate EXCEPT ![o].state = "LIVE"]
           \/ ~RateLive(o) /\ UNCHANGED rate
    /\ Finish(s)
    /\ UNCHANGED <<hotel, type, room, booked, links>>

RemoveRate(s) ==
    /\ \E o \in Rates : RateLive(o) /\ Start(s, [Idle EXCEPT !.pc = "rateRemove", !.id = o])
    /\ UNCHANGED <<rows, links>>

RateFree(o) == \A b \in booked : b.rate # o

RateRemove(s) ==
    /\ req[s].pc = "rateRemove"
    /\ LET o == req[s].id
       IN  IF RateFree(o) THEN /\ rate' = [rate EXCEPT ![o].state = "GONE"]
                               /\ benefits' = [benefits EXCEPT ![o] = {}]
                          ELSE UNCHANGED <<rate, benefits>>
    /\ Finish(s)
    /\ UNCHANGED <<hotel, type, room, booked, chars, asked>>

\* Benefits that are linked already are refused before the insert, by the request or the index.
AddBenefits(s) ==
    /\ \E o \in Rates, bs \in (SUBSET Benefits) \ {{}} :
         /\ RateLive(o) /\ benefits[o] \cap bs = {}
         /\ Start(s, [Idle EXCEPT !.pc = "addBenefits", !.id = o, !.set = bs])
    /\ UNCHANGED <<rows, links>>

BenefitsInsert(s) ==
    /\ req[s].pc = "addBenefits"
    /\ LET o == req[s].id
       IN  benefits' = IF RateLive(o) /\ benefits[o] \cap req[s].set = {}
                       THEN [benefits EXCEPT ![o] = @ \cup req[s].set] ELSE benefits
    /\ Finish(s)
    /\ UNCHANGED <<rows, chars, asked>>

RemoveBenefits(s) ==
    /\ \E o \in Rates, bs \in (SUBSET Benefits) \ {{}} :
         /\ RateLive(o) /\ bs \subseteq benefits[o]
         /\ Start(s, [Idle EXCEPT !.pc = "removeBenefits", !.id = o, !.set = bs])
    /\ UNCHANGED <<rows, links>>

\* Links that were inserted since have ids of their own and stay; TLC's benefits are linked once.
BenefitsRemove(s) ==
    /\ req[s].pc = "removeBenefits"
    /\ benefits' = [benefits EXCEPT ![req[s].id] = @ \ req[s].set]
    /\ Finish(s)
    /\ UNCHANGED <<rows, chars, asked>>

--------------------------------------------------------------------------------
\* BookingService.create, of which Booking models the rest: the room is read, then the rate
\* by the type that was read, then both are written down.

Book(s) ==
    /\ \E r \in Rooms, o \in Rates :
         /\ RoomLive(r)
         /\ Start(s, [Idle EXCEPT !.pc = "bookRate", !.id = o, !.room = r, !.type = room[r].type])
    /\ UNCHANGED <<rows, links>>

\* Variants: a rate option of the hotel will do; any rate option will.
RateOfHotel(o, t) == RateLive(o) /\ type[rate[o].type].hotel = type[t].hotel
RateExists(o, t)  == RateLive(o)

RateOfType(o, t) == RateLive(o) /\ rate[o].type = t

BookRate(s) ==
    /\ req[s].pc = "bookRate"
    /\ IF RateOfType(req[s].id, req[s].type) THEN Goto(s, "bookInsert") ELSE Finish(s)
    /\ UNCHANGED <<rows, links>>

BookInsert(s) ==
    /\ req[s].pc = "bookInsert"
    /\ booked' = IF RoomLive(req[s].room) /\ RateLive(req[s].id)
                 THEN booked \cup {[room |-> req[s].room, rate |-> req[s].id]} ELSE booked
    /\ Finish(s)
    /\ UNCHANGED <<hotel, type, room, rate, links>>

--------------------------------------------------------------------------------
HotelStep(s) == UpdateHotel(s) \/ HotelPreload(s) \/ HotelSave(s) \/ RemoveHotel(s) \/ HotelRemove(s)

TypeStep(s) ==
    \/ CreateType(s) \/ TypeInsert(s) \/ UpdateType(s) \/ TypePreload(s) \/ TypeSave(s)
    \/ SyncFind(s) \/ SyncDelete(s) \/ SyncSave(s) \/ RemoveType(s) \/ TypeRemove(s)

RoomStep(s) ==
    \/ CreateRooms(s) \/ RoomsInsert(s) \/ UpdateRoom(s) \/ RoomPreload(s) \/ RoomSave(s)
    \/ RemoveRoom(s) \/ RoomRemove(s)

RateStep(s) ==
    \/ CreateRate(s) \/ RateInsert(s) \/ UpdateRate(s) \/ RatePreload(s) \/ RateSave(s)
    \/ RemoveRate(s) \/ RateRemove(s)

BenefitStep(s) == AddBenefits(s) \/ BenefitsInsert(s) \/ RemoveBenefits(s) \/ BenefitsRemove(s)

BookStep(s) == Book(s) \/ BookRate(s) \/ BookInsert(s)

Step(s) ==
    \/ CreateHotel(s) \/ HotelStep(s) \/ TypeStep(s) \/ RoomStep(s) \/ RateStep(s)
    \/ BenefitStep(s) \/ BookStep(s) \/ RequestFails(s)

Next == \E s \in Slots : Step(s)

Spec == Init /\ [][Next]_vars

--------------------------------------------------------------------------------
Given == {None} \cup (SUBSET (Types \X Numbers)) \cup (SUBSET (Characteristics \cup {Unknown}))
         \cup (SUBSET Benefits)

Request == [pc : Suspended \cup {"idle"}, id : {None} \cup Hotels \cup Types \cup Rooms \cup Rates,
            hotel : {None} \cup Hotels, type : {None} \cup Types, number : {None} \cup Numbers,
            row : Room, room : {None} \cup Rooms, set : Given]

\* The shape of every row and every request in flight.
TypeOK ==
    /\ hotel \in [Hotels -> RowState]
    /\ type \in [Types -> RoomType]
    /\ room \in [Rooms -> Room]
    /\ rate \in [Rates -> RateOption]
    /\ chars \in [Types -> SUBSET Characteristics]
    /\ benefits \in [Rates -> SUBSET Benefits]
    /\ booked \subseteq [room : Rooms, rate : Rates]
    /\ req \in [Slots -> Request]
    /\ asked \in [Types -> SUBSET Characteristics]
    /\ calm \in BOOLEAN /\ fails \in 0..MaxFails

\* A room is of a type of its own hotel.  The database has a key for each alone and no
\* constraint that relates them: the check is made only when the type of a room is given, and
\* only against what the request read (room.service.ts:224-232, 313-326).
RoomsMatchTheirType ==
    \A r \in Rooms : RoomLive(r) =>
        /\ TypeLive(room[r].type)
        /\ type[room[r].type].hotel = room[r].hotel
        /\ HotelLive(room[r].hotel)

\* A booking's rate option is one of the hotel the room is in, even when the room has been
\* given another type or its rate options have changed since it was read
\* (booking.service.ts:287-331).
BookedWithinHotel ==
    \A b \in booked : type[rate[b.rate].type].hotel = room[b.room].hotel

\* Without overlap a booking is made at a rate of the room's own type.
BookedRateFits ==
    [][calm' => \A b \in booked' \ booked : rate[b.rate].type = room[b.room].type]_vars

\* Without overlap and with no request lost half way, a type has the characteristics it was
\* last given: the replacement leaves no old link behind and loses no new one
\* (room-type.service.ts:192-195).
CharacteristicsReplaced ==
    \A t \in Types :
        (\A s \in Slots : ~(req[s].pc = "syncSave" /\ req[s].id = t)) => chars[t] = asked[t]

ReplacedWhenCalm == calm /\ fails = 0 => CharacteristicsReplaced

--------------------------------------------------------------------------------
\* Why a room stays in its hotel: every check is made on columns that are never written again, so
\* what a suspended request remembers is still true when it writes.
IsType(t)    == t \in Types /\ type[t].state # "NONE"
IsRoom(r)    == r \in Rooms /\ room[r].state # "NONE"
IsRate(o)    == o \in Rates /\ rate[o].state # "NONE"
TypeIn(t, h) == IsType(t) /\ type[t].hotel = h

RememberedRoom(r) ==
    /\ r.pc = "roomsInsert" =>
          /\ r.hotel \in Hotels /\ r.set \subseteq Types \X Numbers
          /\ \A a \in r.set : TypeIn(a[1], r.hotel)
    /\ r.pc \in {"roomPreload", "roomSave", "roomRemove"} => IsRoom(r.id)
    /\ r.pc = "roomPreload" /\ r.type # None => TypeIn(r.type, room[r.id].hotel)
    /\ r.pc = "roomSave" =>
          /\ r.row.state = "LIVE"
          /\ r.row.hotel = room[r.id].hotel
          /\ TypeIn(r.row.type, r.row.hotel)

RememberedRate(r) ==
    /\ r.pc = "rateInsert" => r.type \in Types
    /\ r.pc \in {"ratePreload", "rateSave", "rateRemove", "addBenefits", "removeBenefits"} =>
          IsRate(r.id)
    /\ r.pc \in {"addBenefits", "removeBenefits"} => r.set \subseteq Benefits
    /\ r.pc \in {"bookRate", "bookInsert"} =>
          r.type # None /\ r.id \in Rates /\ IsRoom(r.room) /\ TypeIn(r.type, room[r.room].hotel)
    /\ r.pc = "bookInsert" => IsRate(r.id) /\ rate[r.id].type = r.type

RememberedType(r) ==
    /\ r.pc \in {"hotelPreload", "hotelSave", "hotelRemove"} => r.id \in Hotels
    /\ r.pc = "typeInsert" => r.hotel \in Hotels
    /\ r.pc \in {"typePreload", "typeSave", "typeRemove", "syncFind", "syncDelete", "syncSave"} =>
          IsType(r.id)
    /\ r.pc \in {"typeInsert", "syncFind"} => r.set \subseteq Characteristics \cup {Unknown}
    /\ r.pc \in {"typePreload", "typeSave"} =>
          r.set = None \/ r.set \subseteq Characteristics \cup {Unknown}
    /\ r.pc \in {"syncDelete", "syncSave"} => r.set \subseteq Characteristics

Remembers(s) == RememberedType(req[s]) /\ RememberedRoom(req[s]) /\ RememberedRate(req[s])

RowsFit ==
    /\ \A t \in Types : TypeLive(t) => HotelLive(type[t].hotel)
    /\ \A r \in Rooms : room[r].state # "NONE" => TypeIn(room[r].type, room[r].hotel)
    /\ \A r \in Rooms : RoomLive(r) => TypeLive(room[r].type) /\ HotelLive(room[r].hotel)
    /\ \A o \in Rates : rate[o].state # "NONE" => IsType(rate[o].type)
    /\ \A b \in booked : /\ IsRoom(b.room) /\ IsRate(b.rate)
                         /\ type[rate[b.rate].type].hotel = room[b.room].hotel

\* The inductive invariant behind RoomsMatchTheirType and BookedWithinHotel.
CatalogueInv == TypeOK /\ RowsFit /\ \A s \in Slots : Remembers(s)

\* What no step changes.
Frame ==
    /\ \A t \in Types : type[t].state # "NONE" =>
          type'[t].state # "NONE" /\ type'[t].hotel = type[t].hotel
    /\ \A r \in Rooms : room[r].state # "NONE" =>
          room'[r].state # "NONE" /\ room'[r].hotel = room[r].hotel
    /\ \A o \in Rates : rate[o].state # "NONE" =>
          rate'[o].state # "NONE" /\ rate'[o].type = rate[o].type
================================================================================
