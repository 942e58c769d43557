----------------------------- MODULE CatalogueProofs -----------------------------
(***************************************************************************)
(* Catalogue for any number of requests, hotels and rows: types, a room    *)
(* and its type in one hotel, and a booking's room and rate in one hotel.  *)
(***************************************************************************)
EXTENDS Catalogue, TLAPS

\* What a request may have been given.
LEMMA GivenSets ==
    /\ None \in Given /\ {} \in Given
    /\ \A cs \in SUBSET (Characteristics \cup {Unknown}) :
          cs \in Given /\ cs \subseteq Characteristics \cup {Unknown}
    /\ \A cs \in (SUBSET (Characteristics \cup {Unknown})) \cup {None} :
          cs \in Given /\ (cs = None \/ cs \subseteq Characteristics \cup {Unknown})
    /\ \A w \in SUBSET (Types \X Numbers) : w \in Given /\ w \subseteq Types \X Numbers
    /\ \A bs \in SUBSET Benefits : bs \in Given /\ bs \subseteq Benefits
<1> DEFINE A == SUBSET (Types \X Numbers)
           B == SUBSET (Characteristics \cup {Unknown})
           C == SUBSET Benefits
<1>1. Given = {None} \cup A \cup B \cup C
  BY Zenon DEF Given
<1>2. {} \in C
  OBVIOUS
<1>3. /\ \A cs \in B : cs \subseteq Characteristics \cup {Unknown}
      /\ \A w \in A : w \subseteq Types \X Numbers
      /\ \A bs \in C : bs \subseteq Benefits
  OBVIOUS
<1> HIDE DEF A, B, C
<1>5. \A cs \in B \cup {None} : cs = None \/ cs \subseteq Characteristics \cup {Unknown}
  BY <1>3
<1>4. None \in Given /\ {} \in Given /\ A \subseteq Given /\ B \subseteq Given /\ C \subseteq Given
  BY <1>1, <1>2
<1>6. \A cs \in B \cup {None} : cs \in Given
  BY <1>4
<1> QED BY <1>3, <1>4, <1>5, <1>6, Zenon DEF A, B, C

\* TypeOK without the requests.
TablesOK ==
    /\ hotel \in [Hotels -> RowState]
    /\ type \in [Types -> RoomType]
    /\ room \in [Rooms -> Room]
    /\ rate \in [Rates -> RateOption]
    /\ chars \in [Types -> SUBSET Characteristics]
    /\ benefits \in [Rates -> SUBSET Benefits]
    /\ booked \subseteq [room : Rooms, rate : Rates]
    /\ asked \in [Types -> SUBSET Characteristics]
    /\ calm \in BOOLEAN /\ fails \in 0..MaxFails

LEMMA TablesTyped == TypeOK <=> TablesOK /\ req \in [Slots -> Request]
  BY DEF TypeOK, TablesOK

\* What a request may be between two of its steps.
RemembersAll(r) == RememberedType(r) /\ RememberedRoom(r) /\ RememberedRate(r)

LEMMA IdleOK == Idle \in Request /\ RemembersAll(Idle)
<1>1. {} \in Given
  BY GivenSets
<1> QED
  BY <1>1 DEF Idle, Request, Suspended, Room, NoRoom, RemembersAll, RememberedType, RememberedRoom,
              RememberedRate

\* What is remembered is about columns that never change.
LEMMA FactsKept ==
    ASSUME TypeOK, TablesOK', Frame
    PROVE  /\ \A t \in Types : IsType(t) => IsType(t)' /\ type'[t].hotel = type[t].hotel
           /\ \A r \in Rooms : IsRoom(r) => IsRoom(r)' /\ room'[r].hotel = room[r].hotel
           /\ \A o \in Rates : IsRate(o) => IsRate(o)' /\ rate'[o].type = rate[o].type
           /\ \A t, h : TypeIn(t, h) => TypeIn(t, h)'
  BY DEF Frame, IsType, IsRoom, IsRate, TypeIn

LEMMA MemoryKept ==
    ASSUME TypeOK, TablesOK', Frame, NEW r \in Request, RemembersAll(r)
    PROVE  RemembersAll(r)'
<1>0. /\ \A t \in Types : IsType(t) => IsType(t)'
      /\ \A x \in Rooms : IsRoom(x) => IsRoom(x)' /\ room'[x].hotel = room[x].hotel
      /\ \A o \in Rates : IsRate(o) => IsRate(o)' /\ rate'[o].type = rate[o].type
      /\ \A t, h : TypeIn(t, h) => TypeIn(t, h)'
  BY FactsKept
<1>t. \A t : IsType(t) => t \in Types
  BY DEF IsType
<1>r. \A x : IsRoom(x) => x \in Rooms
  BY DEF IsRoom
<1>o. \A o : IsRate(o) => o \in Rates
  BY DEF IsRate
<1>1. RememberedType(r)'
  BY <1>0, <1>t DEF RemembersAll, RememberedType
<1>2. RememberedRoom(r)'
  <2>1. r.pc = "roomPreload" /\ r.type # None => TypeIn(r.type, room[r.id].hotel)'
    BY <1>0, <1>r DEF RemembersAll, RememberedRoom
  <2>2. r.pc = "roomSave" => r.row.hotel = room'[r.id].hotel /\ TypeIn(r.row.type, r.row.hotel)'
    BY <1>0, <1>r DEF RemembersAll, RememberedRoom
  <2> QED BY <1>0, <1>r, <2>1, <2>2 DEF RemembersAll, RememberedRoom
<1>3. RememberedRate(r)'
  BY <1>0, <1>r, <1>o DEF RemembersAll, RememberedRate
<1> QED BY <1>1, <1>2, <1>3 DEF RemembersAll

\* One slot moves, the tables stay in order, and the other requests remember what is still so.
LEMMA Moves ==
    ASSUME CatalogueInv, NEW s \in Slots, NEW r \in Request, req' = [req EXCEPT ![s] = r],
           TablesOK', RowsFit', Frame, RemembersAll(r)'
    PROVE  CatalogueInv'
<1>1. TypeOK /\ TypeOK'
  BY TablesTyped DEF CatalogueInv, TypeOK, TablesOK
<1>2. ASSUME NEW t \in Slots PROVE Remembers(t)'
  <2>1. CASE t = s
    <3>1. req'[t] = r
      BY <1>1, <2>1 DEF TypeOK
    <3> QED BY <3>1 DEF RemembersAll, Remembers
  <2>2. CASE t # s
    <3>1. PICK q \in Request : q = req[t]
      BY <1>1 DEF TypeOK
    <3>2. RemembersAll(q)
      BY <3>1 DEF CatalogueInv, Remembers, RemembersAll
    <3>3. RemembersAll(q)'
      BY <1>1, <3>2, MemoryKept
    <3>4. req'[t] = q
      BY <1>1, <2>2, <3>1 DEF TypeOK
    <3> QED BY <3>3, <3>4 DEF RemembersAll, Remembers
  <2> QED BY <2>1, <2>2
<1> QED BY <1>1, <1>2 DEF CatalogueInv

\* A request that writes no row.
LEMMA Quiet ==
    ASSUME CatalogueInv, NEW s \in Slots, NEW r \in Request, Start(s, r) \/ Continue(s, r),
           UNCHANGED <<rows, links>>, RemembersAll(r)
    PROVE  CatalogueInv'
<1>1. UNCHANGED <<hotel, type, room, rate, booked, chars, benefits, asked>>
  BY DEF rows, links
<1>2. req' = [req EXCEPT ![s] = r] /\ fails' = fails /\ calm' \in BOOLEAN
  BY DEF Start, Continue, CatalogueInv, TypeOK
<1>3. TypeOK /\ TablesOK'
  BY <1>1, <1>2 DEF CatalogueInv, TypeOK, TablesOK
<1>4. Frame
  BY <1>1 DEF Frame
<1>5. RowsFit'
  BY <1>1 DEF CatalogueInv, RowsFit, TypeLive, HotelLive, RoomLive, TypeIn, IsType, IsRoom, IsRate
<1>6. RemembersAll(r)'
  BY <1>3, <1>4, MemoryKept
<1> QED BY <1>2, <1>3, <1>4, <1>5, <1>6, Moves

LEMMA QuietEnd ==
    ASSUME CatalogueInv, NEW s \in Slots, Finish(s), UNCHANGED <<rows, links>>
    PROVE  CatalogueInv'
  BY IdleOK, Quiet DEF Finish

\* A request that writes and goes on with what it remembered before.
LEMMA WritesOn ==
    ASSUME CatalogueInv, NEW s \in Slots, NEW r \in Request, Continue(s, r), RemembersAll(r),
           TablesOK', RowsFit', Frame
    PROVE  CatalogueInv'
<1>1. RemembersAll(r)'
  BY MemoryKept DEF CatalogueInv
<1> QED BY <1>1, Moves DEF Continue

LEMMA WritesLast ==
    ASSUME CatalogueInv, NEW s \in Slots, Finish(s), TablesOK', RowsFit', Frame
    PROVE  CatalogueInv'
  BY IdleOK, WritesOn DEF Finish

LEMMA InitOK == Init => CatalogueInv
<1> SUFFICES ASSUME Init PROVE CatalogueInv
  OBVIOUS
<1>1. TypeOK
  BY IdleOK, CatalogueAssumption DEF Init, TypeOK, RowState, RoomType, NoType, Room, NoRoom,
     RateOption, NoRate
<1>2. RowsFit
  BY DEF Init, RowsFit, TypeLive, RoomLive, TypeIn, IsType, NoType, NoRoom, NoRate
<1>3. \A s \in Slots : Remembers(s)
  BY IdleOK DEF Init, Remembers, RemembersAll
<1> QED BY <1>1, <1>2, <1>3 DEF CatalogueInv

--------------------------------------------------------------------------------
\* The request of a slot, and what may be read off it.
LEMMA RequestOf ==
    ASSUME CatalogueInv, NEW s \in Slots
    PROVE  /\ req[s] \in Request
           /\ RemembersAll(req[s])
           /\ \A pc \in Suspended : [req[s] EXCEPT !.pc = pc] \in Request
<1>1. req[s] \in Request
  BY DEF CatalogueInv, TypeOK
<1>2. \A pc \in Suspended : [req[s] EXCEPT !.pc = pc] \in Request
  BY <1>1 DEF Request
<1> QED BY <1>1, <1>2 DEF CatalogueInv, Remembers, RemembersAll

\* What a row refers to is an id of the other table.
LEMMA References ==
    ASSUME TypeOK
    PROVE  /\ \A t \in Types : type[t].state # "NONE" => type[t].hotel \in Hotels
           /\ \A r \in Rooms : room[r].state # "NONE" =>
                  room[r].hotel \in Hotels /\ room[r].type \in Types
           /\ \A o \in Rates : rate[o].state # "NONE" => rate[o].type \in Types
  BY DEF TypeOK, RoomType, Room, RateOption, NoType, NoRoom, NoRate

\* A request that only moves on to another pc.
LEMMA MovesOn ==
    ASSUME CatalogueInv, NEW s \in Slots, NEW pc \in Suspended, Goto(s, pc),
           RemembersAll([req[s] EXCEPT !.pc = pc]), UNCHANGED <<rows, links>>
    PROVE  CatalogueInv'
  BY RequestOf, Quiet DEF Goto

LEMMA FailOK == ASSUME CatalogueInv, NEW s \in Slots, RequestFails(s) PROVE CatalogueInv'
<1>1. UNCHANGED <<hotel, type, room, rate, booked, chars, benefits, asked>>
  BY DEF RequestFails, rows, links
<1>2. TypeOK /\ TablesOK'
  BY <1>1, CatalogueAssumption DEF RequestFails, CatalogueInv, TypeOK, TablesOK
<1>3. Frame
  BY <1>1 DEF Frame
<1>4. RowsFit'
  BY <1>1 DEF CatalogueInv, RowsFit, TypeLive, HotelLive, RoomLive, TypeIn, IsType, IsRoom, IsRate
<1>5. RemembersAll(Idle)'
  BY <1>2, <1>3, IdleOK, MemoryKept
<1> QED BY <1>2, <1>3, <1>4, <1>5, IdleOK, Moves DEF RequestFails

\* A hotel may come alive; it goes only when no room and no type of it is live.
LEMMA HotelWrites ==
    ASSUME CatalogueInv, NEW s \in Slots, NEW h \in Hotels, Finish(s) \/ UNCHANGED <<req, calm, fails>>,
           \/ UNCHANGED hotel
           \/ hotel' = [hotel EXCEPT ![h] = "LIVE"]
           \/ HotelFree(h) /\ hotel' = [hotel EXCEPT ![h] = "GONE"],
           UNCHANGED <<type, room, rate, booked, links>>
    PROVE  CatalogueInv'
<1>1. UNCHANGED <<type, room, rate, booked, chars, benefits, asked, calm, fails>>
  BY DEF links, Finish, Continue
<1>2. TypeOK /\ TablesOK'
  BY <1>1 DEF CatalogueInv, TypeOK, TablesOK, RowState
<1>3. Frame
  BY <1>1 DEF Frame
<1>4. /\ \A t \in Types : TypeLive(t)' => HotelLive(type[t].hotel)'
      /\ \A r \in Rooms : RoomLive(r)' => HotelLive(room[r].hotel)'
  BY <1>1, <1>2, References
     DEF CatalogueInv, RowsFit, TypeLive, RoomLive, HotelLive, HotelFree, TypeOK
<1>5. RowsFit'
  BY <1>1, <1>4 DEF CatalogueInv, RowsFit, TypeLive, RoomLive, TypeIn, IsType, IsRoom, IsRate
<1>6. CASE Finish(s)
  BY <1>2, <1>3, <1>5, <1>6, WritesLast
<1>7. CASE UNCHANGED <<req, calm, fails>>
  <2>1. PICK q \in Request : q = req[s] /\ RemembersAll(q)
    BY RequestOf
  <2>2. Continue(s, q)
    BY <1>7, <1>2, <2>1 DEF Continue, TypeOK
  <2> QED BY <1>2, <1>3, <1>5, <2>1, <2>2, WritesOn
<1> QED BY <1>6, <1>7

LEMMA HotelOK ==
    ASSUME CatalogueInv, NEW s \in Slots, CreateHotel(s) \/ HotelStep(s)
    PROVE  CatalogueInv'
<1> USE DEF HotelStep
<1>1. CASE CreateHotel(s)
  BY <1>1, HotelWrites DEF CreateHotel
<1>2. CASE UpdateHotel(s) \/ RemoveHotel(s)
  <2>1. PICK h \in Hotels, pc \in {"hotelPreload", "hotelRemove"} :
           Start(s, [Idle EXCEPT !.pc = pc, !.id = h]) /\ UNCHANGED <<rows, links>>
    BY <1>2 DEF UpdateHotel, RemoveHotel
  <2> DEFINE r == [Idle EXCEPT !.pc = pc, !.id = h]
  <2>2. r \in Request /\ RemembersAll(r)
    BY IdleOK DEF Request, Idle, Suspended, RemembersAll, RememberedType, RememberedRoom,
                  RememberedRate
  <2> QED BY <2>1, <2>2, Quiet
<1>3. CASE HotelPreload(s)
  <2>1. CASE Finish(s)
    BY <1>3, <2>1, QuietEnd DEF HotelPreload
  <2>2. CASE Goto(s, "hotelSave")
    <3>1. RemembersAll([req[s] EXCEPT !.pc = "hotelSave"])
      BY <1>3, RequestOf DEF HotelPreload, Request, RemembersAll, RememberedType,
                             RememberedRoom, RememberedRate
    <3> QED BY <1>3, <2>2, <3>1, MovesOn DEF HotelPreload, Suspended
  <2> QED BY <1>3, <2>1, <2>2 DEF HotelPreload
<1>4. CASE HotelSave(s) \/ HotelRemove(s)
  <2>1. req[s].id \in Hotels
    BY <1>4, RequestOf DEF HotelSave, HotelRemove, RemembersAll, RememberedType
  <2> QED BY <1>4, <2>1, HotelWrites DEF HotelSave, HotelRemove
<1> QED BY <1>1, <1>2, <1>3, <1>4

--------------------------------------------------------------------------------
\* Writing one type keeps the tables in order: its hotel stays, a live type has a live hotel, and
\* a type goes only when nothing live refers to it.
LEMMA TypeWritten ==
    ASSUME CatalogueInv, NEW t \in Types, NEW row \in RoomType, row.state # "NONE",
           type[t].state # "NONE" => row.hotel = type[t].hotel,
           row.state = "LIVE" => HotelLive(row.hotel),
           row.state # "LIVE" => TypeFree(t),
           type' = [type EXCEPT ![t] = row],
           UNCHANGED <<hotel, room, rate, booked, benefits, calm, fails>>,
           chars' \in [Types -> SUBSET Characteristics],
           asked' \in [Types -> SUBSET Characteristics]
    PROVE  TablesOK' /\ Frame /\ RowsFit'
<1>1. TypeOK
  BY DEF CatalogueInv
<1>2. TablesOK'
  BY <1>1 DEF TypeOK, TablesOK
<1>3. \A u \in Types : type'[u] = IF u = t THEN row ELSE type[u]
  BY <1>1 DEF TypeOK
<1>4. Frame
  BY <1>3 DEF Frame
<1>5. \A u, h : TypeIn(u, h) => TypeIn(u, h)'
  BY <1>1, <1>2, <1>4, FactsKept
<1>6. \A u \in Types : TypeLive(u)' => HotelLive(type[u].hotel)'
  BY <1>3 DEF CatalogueInv, RowsFit, TypeLive, HotelLive
<1>7. \A r \in Rooms : RoomLive(r)' => TypeLive(room[r].type)' /\ HotelLive(room[r].hotel)'
  BY <1>1, <1>3, References DEF CatalogueInv, RowsFit, TypeLive, HotelLive, RoomLive, TypeFree
<1>8. \A o \in Rates : rate'[o].state # "NONE" => IsType(rate[o].type)'
  BY <1>1, <1>2, <1>4, References, FactsKept DEF CatalogueInv, RowsFit
<1>9. \A b \in booked' : /\ IsRoom(b.room)' /\ IsRate(b.rate)'
                         /\ (type[rate[b.rate].type].hotel = room[b.room].hotel)'
  <2> TAKE b \in booked'
  <2>1. /\ IsRoom(b.room) /\ IsRate(b.rate) /\ type[rate[b.rate].type].hotel = room[b.room].hotel
    BY DEF CatalogueInv, RowsFit
  <2>2. IsType(rate[b.rate].type)
    BY <2>1 DEF CatalogueInv, RowsFit, IsRate
  <2> QED BY <1>1, <1>3, <2>1, <2>2 DEF IsType, IsRoom, IsRate
<1> QED BY <1>2, <1>4, <1>5, <1>6, <1>7, <1>8, <1>9 DEF CatalogueInv, RowsFit

\* The rows the handlers make of a type.
LEMMA TypeRows ==
    ASSUME CatalogueInv, NEW t \in Types, type[t].state # "NONE", NEW st \in {"LIVE", "GONE"}
    PROVE  /\ [type[t] EXCEPT !.state = st] \in RoomType
           /\ [type[t] EXCEPT !.state = st].state = st
           /\ [type[t] EXCEPT !.state = st].hotel = type[t].hotel
           /\ [type EXCEPT ![t].state = st] = [type EXCEPT ![t] = [type[t] EXCEPT !.state = st]]
  BY DEF CatalogueInv, TypeOK, RoomType, NoType

\* Nothing but the links is written.
LEMMA LinksWritten ==
    ASSUME CatalogueInv, UNCHANGED <<rows, calm, fails>>,
           chars' \in [Types -> SUBSET Characteristics],
           asked' \in [Types -> SUBSET Characteristics],
           benefits' \in [Rates -> SUBSET Benefits]
    PROVE  TablesOK' /\ Frame /\ RowsFit'
<1>1. UNCHANGED <<hotel, type, room, rate, booked>>
  BY DEF rows
<1>2. TablesOK'
  BY <1>1 DEF CatalogueInv, TypeOK, TablesOK
<1> QED
  BY <1>1, <1>2 DEF CatalogueInv, RowsFit, Frame, TypeLive, HotelLive, RoomLive, TypeIn, IsType,
                    IsRoom, IsRate

LEMMA TypeArrives ==
    ASSUME CatalogueInv, NEW s \in Slots, CreateType(s) \/ UpdateType(s) \/ RemoveType(s)
    PROVE  CatalogueInv'
<1>1. CASE CreateType(s)
  <2>1. PICK h \in Hotels, cs \in SUBSET (Characteristics \cup {Unknown}) :
           Start(s, [Idle EXCEPT !.pc = "typeInsert", !.hotel = h, !.set = cs])
    BY <1>1 DEF CreateType
  <2> DEFINE r == [Idle EXCEPT !.pc = "typeInsert", !.hotel = h, !.set = cs]
  <2>g. cs \in Given /\ cs \subseteq Characteristics \cup {Unknown}
    BY GivenSets
  <2>2. r \in Request /\ r.pc = "typeInsert" /\ r.hotel = h /\ r.set = cs
    BY <2>g, IdleOK DEF Request, Suspended
  <2>3. RemembersAll(r)
    BY <2>g, <2>2 DEF RemembersAll, RememberedType, RememberedRoom, RememberedRate
  <2> HIDE DEF r
  <2> QED BY <1>1, <2>1, <2>2, <2>3, Quiet DEF CreateType, r
<1>2. CASE UpdateType(s)
  <2>1. PICK t \in Types, cs \in (SUBSET (Characteristics \cup {Unknown})) \cup {None} :
           TypeLive(t) /\ Start(s, [Idle EXCEPT !.pc = "typePreload", !.id = t, !.set = cs])
    BY <1>2 DEF UpdateType
  <2> DEFINE r == [Idle EXCEPT !.pc = "typePreload", !.id = t, !.set = cs]
  <2>g. cs \in Given /\ (cs = None \/ cs \subseteq Characteristics \cup {Unknown})
    BY GivenSets
  <2>2. r \in Request /\ r.pc = "typePreload" /\ r.id = t /\ r.set = cs
    BY <2>g, IdleOK DEF Request, Suspended
  <2>3. RemembersAll(r)
    BY <2>g, <2>1, <2>2
       DEF RemembersAll, RememberedType, RememberedRoom, RememberedRate, IsType, TypeLive
  <2> HIDE DEF r
  <2> QED BY <1>2, <2>1, <2>2, <2>3, Quiet DEF UpdateType, r
<1>3. CASE RemoveType(s)
  <2>1. PICK t \in Types : TypeLive(t) /\ Start(s, [Idle EXCEPT !.pc = "typeRemove", !.id = t])
    BY <1>3 DEF RemoveType
  <2> DEFINE r == [Idle EXCEPT !.pc = "typeRemove", !.id = t]
  <2>2. r \in Request /\ RemembersAll(r)
    BY <2>1, IdleOK DEF Request, Idle, Suspended, RemembersAll, RememberedType, RememberedRoom,
                        RememberedRate, IsType, TypeLive
  <2> QED BY <1>3, <2>1, <2>2, Quiet DEF RemoveType
<1> QED BY <1>1, <1>2, <1>3

LEMMA TypePreloadOK ==
    ASSUME CatalogueInv, NEW s \in Slots, TypePreload(s) \/ SyncFind(s)
    PROVE  CatalogueInv'
<1>1. CASE Finish(s)
  BY <1>1, QuietEnd DEF TypePreload, SyncFind
<1>2. CASE TypePreload(s) /\ Goto(s, "typeSave")
  <2>1. RemembersAll([req[s] EXCEPT !.pc = "typeSave"])
    BY <1>2, RequestOf DEF TypePreload, Request, RemembersAll, RememberedType, RememberedRoom,
                           RememberedRate
  <2> QED BY <1>2, <2>1, MovesOn DEF TypePreload, Suspended
<1>3. CASE SyncFind(s) /\ Unknown \notin req[s].set /\ Goto(s, "syncDelete")
  <2>1. RemembersAll([req[s] EXCEPT !.pc = "syncDelete"])
    BY <1>3, RequestOf DEF SyncFind, Request, RemembersAll, RememberedType, RememberedRoom,
                           RememberedRate
  <2> QED BY <1>3, <2>1, MovesOn DEF SyncFind, Suspended
<1> QED BY <1>1, <1>2, <1>3 DEF TypePreload, SyncFind

LEMMA TypeInsertOK == ASSUME CatalogueInv, NEW s \in Slots, TypeInsert(s) PROVE CatalogueInv'
<1> DEFINE h == req[s].hotel
<1>0. /\ h \in Hotels /\ req[s].set \subseteq Characteristics \cup {Unknown}
      /\ req[s] \in Request
  BY RequestOf DEF TypeInsert, RemembersAll, RememberedType
<1>1. CASE Finish(s) /\ UNCHANGED type
  BY <1>1, QuietEnd DEF TypeInsert, rows
<1>2. CASE HotelLive(h) /\ \E t \in Types :
              /\ type[t].state = "NONE"
              /\ type' = [type EXCEPT ![t] = [state |-> "LIVE", hotel |-> h]]
              /\ Finish(s) \/ Continue(s, [req[s] EXCEPT !.pc = "syncFind", !.id = t])
  <2>1. PICK t \in Types :
              /\ type[t].state = "NONE"
              /\ type' = [type EXCEPT ![t] = [state |-> "LIVE", hotel |-> h]]
              /\ Finish(s) \/ Continue(s, [req[s] EXCEPT !.pc = "syncFind", !.id = t])
    BY <1>2
  <2> DEFINE row == [state |-> "LIVE", hotel |-> h]
  <2>2. row \in RoomType
    BY <1>0 DEF RoomType
  <2>3. UNCHANGED <<hotel, room, rate, booked, chars, benefits, asked, calm, fails>>
    BY <2>1 DEF TypeInsert, links, Finish, Continue
  <2>4. TablesOK' /\ Frame /\ RowsFit'
    BY <1>2, <2>1, <2>2, <2>3, TypeWritten DEF CatalogueInv, TypeOK
  <2>5. CASE Finish(s)
    BY <2>4, <2>5, WritesLast
  <2>6. CASE Continue(s, [req[s] EXCEPT !.pc = "syncFind", !.id = t])
    <3>1. PICK r \in Request : r = [req[s] EXCEPT !.pc = "syncFind", !.id = t]
      BY <1>0 DEF Request, Suspended
    <3>2. IsType(t)'
      BY <2>1 DEF IsType, CatalogueInv, TypeOK
    <3>3. RemembersAll(r)'
      BY <1>0, <3>1, <3>2 DEF Request, RemembersAll, RememberedType, RememberedRoom, RememberedRate
    <3> QED BY <2>4, <2>6, <3>1, <3>3, Moves DEF Continue
  <2> QED BY <2>1, <2>5, <2>6
<1> QED BY <1>1, <1>2 DEF TypeInsert

LEMMA TypeSaveOK == ASSUME CatalogueInv, NEW s \in Slots, TypeSave(s) PROVE CatalogueInv'
<1> DEFINE t == req[s].id
           r == [req[s] EXCEPT !.pc = "syncFind"]
           row == [type[t] EXCEPT !.state = "LIVE"]
<1>0. /\ t \in Types /\ type[t].state # "NONE"
      /\ req[s].set = None \/ req[s].set \subseteq Characteristics \cup {Unknown}
  BY RequestOf DEF TypeSave, RemembersAll, RememberedType, IsType
<1>1. CASE Finish(s) /\ UNCHANGED type
  BY <1>1, QuietEnd DEF TypeSave, rows
<1>r. req[s].set # None => r \in Request /\ RemembersAll(r)
  <2>1. SUFFICES ASSUME req[s].set # None PROVE r \in Request /\ RemembersAll(r)
    OBVIOUS
  <2>a. r \in Request
    BY RequestOf DEF Suspended
  <2>b. r.pc = "syncFind" /\ r.id = t /\ r.set = req[s].set
    BY RequestOf DEF Request
  <2>2. r \in Request /\ r.pc = "syncFind" /\ r.id = t /\ r.set = req[s].set
    BY <2>a, <2>b
  <2> HIDE DEF r, row
  <2> QED BY <1>0, <2>1, <2>2 DEF RemembersAll, RememberedType, RememberedRoom, RememberedRate, IsType
<1>2. CASE HotelLive(type[t].hotel) /\ type' = [type EXCEPT ![t].state = "LIVE"]
  <2>1. /\ row \in RoomType /\ row.state = "LIVE" /\ row.hotel = type[t].hotel
        /\ type' = [type EXCEPT ![t] = row]
    BY <1>0, <1>2, TypeRows
  <2>a. \/ req[s].set = None /\ Finish(s)
        \/ req[s].set # None /\ Continue(s, r)
    BY <1>2 DEF TypeSave, Goto
  <2>b. UNCHANGED <<calm, fails>>
    BY <2>a DEF Finish, Continue
  <2>2. /\ UNCHANGED <<hotel, room, rate, booked, chars, benefits, asked, calm, fails>>
        /\ \/ req[s].set = None /\ Finish(s)
           \/ req[s].set # None /\ Continue(s, r)
    BY <2>a, <2>b DEF TypeSave, links
  <2> HIDE DEF row, r
  <2>3. TablesOK' /\ Frame /\ RowsFit'
    BY <1>0, <1>2, <2>1, <2>2, TypeWritten DEF CatalogueInv, TypeOK
  <2> QED BY <1>r, <2>2, <2>3, WritesLast, WritesOn
<1>3. CASE UNCHANGED type /\ Goto(s, "syncFind") /\ req[s].set # None
  <2> HIDE DEF r
  <2> QED BY <1>r, <1>3, Quiet DEF TypeSave, Goto, rows, r
<1> QED BY <1>1, <1>2, <1>3 DEF TypeSave

LEMMA SyncOK ==
    ASSUME CatalogueInv, NEW s \in Slots, SyncDelete(s) \/ SyncSave(s)
    PROVE  CatalogueInv'
<1>0. req[s].id \in Types /\ req[s].set \subseteq Characteristics
  BY RequestOf DEF SyncDelete, SyncSave, RemembersAll, RememberedType, IsType
<1>1. CASE SyncDelete(s)
  <2>1. PICK r \in Request : r = [req[s] EXCEPT !.pc = "syncSave"]
    BY RequestOf DEF Suspended
  <2>2. RemembersAll(r)
    BY <1>1, <2>1, RequestOf DEF SyncDelete, Request, RemembersAll, RememberedType,
                                 RememberedRoom, RememberedRate
  <2>3. Continue(s, r) /\ UNCHANGED <<rows, benefits, calm, fails>>
    BY <1>1, <2>1 DEF SyncDelete, Goto, Continue
  <2>4. /\ chars' \in [Types -> SUBSET Characteristics]
        /\ asked' \in [Types -> SUBSET Characteristics]
    BY <1>0, <1>1 DEF SyncDelete, CatalogueInv, TypeOK
  <2>5. TablesOK' /\ Frame /\ RowsFit'
    BY <2>3, <2>4, LinksWritten DEF CatalogueInv, TypeOK
  <2> QED BY <2>2, <2>3, <2>5, WritesOn
<1>2. CASE SyncSave(s)
  <2>1. chars' \in [Types -> SUBSET Characteristics]
    BY <1>0, <1>2 DEF SyncSave, CatalogueInv, TypeOK
  <2>2. Finish(s) /\ UNCHANGED <<rows, benefits, asked, calm, fails>>
    BY <1>2 DEF SyncSave, Finish, Continue
  <2>3. TablesOK' /\ Frame /\ RowsFit'
    BY <2>1, <2>2, LinksWritten DEF CatalogueInv, TypeOK
  <2> QED BY <2>2, <2>3, WritesLast
<1> QED BY <1>1, <1>2

LEMMA TypeRemoveOK == ASSUME CatalogueInv, NEW s \in Slots, TypeRemove(s) PROVE CatalogueInv'
<1> DEFINE t == req[s].id
           row == [type[t] EXCEPT !.state = "GONE"]
<1>0. t \in Types /\ type[t].state # "NONE"
  BY RequestOf DEF TypeRemove, RemembersAll, RememberedType, IsType
<1>1. CASE UNCHANGED <<type, chars, asked>>
  BY <1>1, QuietEnd DEF TypeRemove, rows, links
<1>2. CASE /\ TypeFree(t) /\ type' = [type EXCEPT ![t].state = "GONE"]
           /\ chars' = [chars EXCEPT ![t] = {}] /\ asked' = [asked EXCEPT ![t] = {}]
  <2>1. /\ row \in RoomType /\ row.state = "GONE" /\ row.hotel = type[t].hotel
        /\ type' = [type EXCEPT ![t] = row]
    BY <1>0, <1>2, TypeRows
  <2>2. /\ UNCHANGED <<hotel, room, rate, booked, benefits, calm, fails>> /\ Finish(s)
    BY DEF TypeRemove, Finish, Continue
  <2>3. /\ chars' \in [Types -> SUBSET Characteristics]
        /\ asked' \in [Types -> SUBSET Characteristics]
    BY <1>0, <1>2 DEF CatalogueInv, TypeOK
  <2> HIDE DEF row
  <2>4. TablesOK' /\ Frame /\ RowsFit'
    BY <1>0, <1>2, <2>1, <2>2, <2>3, TypeWritten
  <2> QED BY <2>2, <2>4, WritesLast
<1> QED BY <1>1, <1>2 DEF TypeRemove

LEMMA TypesOK == ASSUME CatalogueInv, NEW s \in Slots, TypeStep(s) PROVE CatalogueInv'
  BY TypeArrives, TypePreloadOK, TypeInsertOK, TypeSaveOK, SyncOK, TypeRemoveOK DEF TypeStep

--------------------------------------------------------------------------------
\* Writing rooms keeps the tables in order: a room's hotel stays, its type is one of its hotel, and
\* a live room has a live type and a live hotel.
LEMMA RoomsWritten ==
    ASSUME CatalogueInv, room' \in [Rooms -> Room],
           UNCHANGED <<hotel, type, rate, booked, links, calm, fails>>,
           \A x \in Rooms : room'[x] # room[x] =>
              /\ room'[x].state # "NONE" /\ TypeIn(room'[x].type, room'[x].hotel)
              /\ room[x].state # "NONE" => room'[x].hotel = room[x].hotel
              /\ room'[x].state = "LIVE" => TypeLive(room'[x].type) /\ HotelLive(room'[x].hotel)
    PROVE  TablesOK' /\ Frame /\ RowsFit'
<1>1. TypeOK /\ UNCHANGED <<chars, benefits, asked>>
  BY DEF CatalogueInv, links
<1>2. TablesOK'
  BY <1>1 DEF TypeOK, TablesOK
<1>3. Frame
  BY DEF Frame
<1>4. \A x \in Rooms : room'[x].state # "NONE" => TypeIn(room'[x].type, room'[x].hotel)
  BY DEF CatalogueInv, RowsFit
<1>5. \A x \in Rooms : RoomLive(x)' => TypeLive(room'[x].type) /\ HotelLive(room'[x].hotel)
  BY DEF CatalogueInv, RowsFit, RoomLive
<1>6. \A b \in booked' : IsRoom(b.room)' /\ IsRate(b.rate)'
                         /\ type'[rate'[b.rate].type].hotel = room'[b.room].hotel
  BY <1>3 DEF CatalogueInv, RowsFit, IsRoom, IsRate, Frame
<1>7. RowsFit'
  BY <1>4, <1>5, <1>6 DEF CatalogueInv, RowsFit, TypeLive, HotelLive, RoomLive, TypeIn, IsType
<1> QED BY <1>2, <1>3, <1>7

LEMMA RoomArrives ==
    ASSUME CatalogueInv, NEW s \in Slots, CreateRooms(s) \/ UpdateRoom(s) \/ RemoveRoom(s)
    PROVE  CatalogueInv'
<1>1. CASE CreateRooms(s)
  <2>1. PICK h \in Hotels, w \in SUBSET (Types \X Numbers) :
           /\ \A a \in w : TypeOfHotel(a[1], h)
           /\ Start(s, [Idle EXCEPT !.pc = "roomsInsert", !.hotel = h, !.set = w])
    BY <1>1 DEF CreateRooms, Wanted
  <2> DEFINE r == [Idle EXCEPT !.pc = "roomsInsert", !.hotel = h, !.set = w]
  <2>2. w \in Given /\ w \subseteq Types \X Numbers
    BY GivenSets
  <2>3. r \in Request /\ r.pc = "roomsInsert" /\ r.hotel = h /\ r.set = w
    BY <2>2, IdleOK DEF Request, Suspended
  <2>4. \A a \in w : TypeIn(a[1], h)
    BY <2>1, <2>2 DEF TypeOfHotel, TypeLive, TypeIn, IsType
  <2> HIDE DEF r
  <2>5. RemembersAll(r)
    BY <2>2, <2>3, <2>4 DEF RemembersAll, RememberedType, RememberedRoom, RememberedRate
  <2> QED BY <1>1, <2>1, <2>3, <2>5, Quiet DEF CreateRooms, r
<1>2. CASE UpdateRoom(s)
  <2>1. PICK x \in Rooms, t \in Types \cup {None}, n \in Numbers \cup {None} :
           /\ RoomLive(x)
           /\ t \notin {None, room[x].type} => TypeOfHotel(t, room[x].hotel)
           /\ Start(s, [Idle EXCEPT !.pc = "roomPreload", !.id = x, !.type = t, !.number = n])
    BY <1>2 DEF UpdateRoom
  <2> DEFINE r == [Idle EXCEPT !.pc = "roomPreload", !.id = x, !.type = t, !.number = n]
  <2>a. r.pc = "roomPreload" /\ r.id = x /\ r.type = t
    BY IdleOK DEF Request
  <2>b. "roomPreload" \in Suspended \cup {"idle"}
    BY DEF Suspended
  <2>2. r \in Request /\ r.pc = "roomPreload" /\ r.id = x /\ r.type = t
    BY <2>a, <2>b, IdleOK DEF Request
  <2>3. IsRoom(x) /\ (t # None => TypeIn(t, room[x].hotel))
    BY <2>1 DEF CatalogueInv, RowsFit, RoomLive, TypeOfHotel, TypeLive, TypeIn, IsType, IsRoom
  <2> HIDE DEF r
  <2>4. RemembersAll(r)
    BY <2>2, <2>3 DEF RemembersAll, RememberedType, RememberedRoom, RememberedRate
  <2> QED BY <1>2, <2>1, <2>2, <2>4, Quiet DEF UpdateRoom, r
<1>3. CASE RemoveRoom(s)
  <2>1. PICK x \in Rooms : RoomLive(x) /\ Start(s, [Idle EXCEPT !.pc = "roomRemove", !.id = x])
    BY <1>3 DEF RemoveRoom
  <2> DEFINE r == [Idle EXCEPT !.pc = "roomRemove", !.id = x]
  <2>2. r \in Request /\ r.pc = "roomRemove" /\ r.id = x
    BY IdleOK DEF Request, Suspended
  <2> HIDE DEF r
  <2>3. RemembersAll(r)
    BY <2>1, <2>2 DEF RemembersAll, RememberedType, RememberedRoom, RememberedRate, IsRoom, RoomLive
  <2> QED BY <1>3, <2>1, <2>2, <2>3, Quiet DEF RemoveRoom, r
<1> QED BY <1>1, <1>2, <1>3

LEMMA RoomsInsertOK == ASSUME CatalogueInv, NEW s \in Slots, RoomsInsert(s) PROVE CatalogueInv'
<1> DEFINE h == req[s].hotel
           w == req[s].set
<1>0. /\ h \in Hotels /\ w \subseteq Types \X Numbers /\ \A a \in w : TypeIn(a[1], h)
  BY RequestOf DEF RoomsInsert, RemembersAll, RememberedRoom
<1>1. CASE UNCHANGED room
  BY <1>1, QuietEnd DEF RoomsInsert, rows
<1>2. CASE /\ \A a \in w : TypeLive(a[1])
           /\ \E ids \in SUBSET {x \in Rooms : room[x].state = "NONE"} :
              \E give \in [ids -> w] :
                 room' = [x \in Rooms |->
                           IF x \in ids THEN [state |-> "LIVE", hotel |-> h,
                                              type |-> give[x][1], number |-> give[x][2]]
                                        ELSE room[x]]
  <2>0. PICK ids \in SUBSET {x \in Rooms : room[x].state = "NONE"} :
           \E give \in [ids -> w] :
              room' = [x \in Rooms |->
                        IF x \in ids THEN [state |-> "LIVE", hotel |-> h,
                                           type |-> give[x][1], number |-> give[x][2]]
                                     ELSE room[x]]
    BY <1>2
  <2>1. PICK give \in [ids -> w] :
           room' = [x \in Rooms |->
                     IF x \in ids THEN [state |-> "LIVE", hotel |-> h,
                                        type |-> give[x][1], number |-> give[x][2]]
                                  ELSE room[x]]
    BY <2>0
  <2>2. \A x \in ids : /\ x \in Rooms /\ room[x].state = "NONE" /\ give[x] \in w
                       /\ give[x][1] \in Types /\ give[x][2] \in Numbers
    BY <1>0
  <2>3. room' \in [Rooms -> Room]
    BY <1>0, <2>1, <2>2 DEF CatalogueInv, TypeOK, Room
  <2>4. HotelLive(h) \/ w = {}
    BY <1>0, <1>2 DEF CatalogueInv, RowsFit, TypeIn, IsType
  <2>5. \A x \in Rooms : room'[x] # room[x] =>
              /\ room'[x].state # "NONE" /\ TypeIn(room'[x].type, room'[x].hotel)
              /\ room[x].state # "NONE" => room'[x].hotel = room[x].hotel
              /\ room'[x].state = "LIVE" => TypeLive(room'[x].type) /\ HotelLive(room'[x].hotel)
    BY <1>0, <1>2, <2>1, <2>2, <2>4
  <2>6. Finish(s) /\ UNCHANGED <<hotel, type, rate, booked, links, calm, fails>>
    BY DEF RoomsInsert, Finish, Continue
  <2>7. TablesOK' /\ Frame /\ RowsFit'
    BY <2>3, <2>5, <2>6, RoomsWritten
  <2> QED BY <2>6, <2>7, WritesLast
<1> QED BY <1>1, <1>2 DEF RoomsInsert

\* The row a room update works out is one of the room's own hotel.
LEMMA RoomPreloadOK == ASSUME CatalogueInv, NEW s \in Slots, RoomPreload(s) PROVE CatalogueInv'
<1> DEFINE x == req[s].id
           t == Resolved(req[s].type, room[x].type)
           n == Resolved(req[s].number, room[x].number)
           row == [room[x] EXCEPT !.type = t, !.number = n]
           r == [req[s] EXCEPT !.pc = "roomSave", !.row = row]
<1>0. /\ x \in Rooms /\ room[x].state # "NONE" /\ req[s] \in Request
      /\ req[s].type # None => TypeIn(req[s].type, room[x].hotel)
  BY RequestOf DEF RoomPreload, RemembersAll, RememberedRoom, IsRoom
<1>1. CASE Finish(s)
  BY <1>1, QuietEnd DEF RoomPreload
<1>2. CASE RoomLive(x) /\ Continue(s, r)
  <2>1. /\ room[x] \in [state : {"LIVE", "GONE"}, hotel : Hotels, type : Types, number : Numbers]
        /\ room[x].state = "LIVE" /\ TypeIn(room[x].type, room[x].hotel)
    BY <1>0, <1>2 DEF CatalogueInv, TypeOK, RowsFit, Room, NoRoom, RoomLive
  <2>2. t \in Types /\ n \in Numbers /\ TypeIn(t, room[x].hotel)
    BY <1>0, <2>1 DEF Resolved, Request, TypeIn, IsType
  <2> HIDE DEF t, n
  <2>3. row \in Room /\ row.state = "LIVE" /\ row.hotel = room[x].hotel /\ row.type = t
    BY <2>1, <2>2 DEF Room
  <2> HIDE DEF row
  <2>4. r \in Request
    BY <1>0, <2>3 DEF Request, Suspended
  <2>5. r.pc = "roomSave" /\ r.id = x /\ r.row = row
    BY <1>0 DEF Request
  <2> HIDE DEF r
  <2>6. RemembersAll(r)
    BY <1>0, <2>2, <2>3, <2>5
       DEF RemembersAll, RememberedType, RememberedRoom, RememberedRate, IsRoom
  <2> QED BY <1>2, <2>4, <2>6, Quiet DEF RoomPreload
<1> QED BY <1>1, <1>2 DEF RoomPreload

LEMMA RoomSaveOK ==
    ASSUME CatalogueInv, NEW s \in Slots, RoomSave(s) \/ RoomRemove(s)
    PROVE  CatalogueInv'
<1> DEFINE x == req[s].id
<1>0. x \in Rooms /\ room[x].state # "NONE" /\ req[s].row \in Room
  BY RequestOf DEF RoomSave, RoomRemove, RemembersAll, RememberedRoom, IsRoom, Request
<1>f. Finish(s) /\ UNCHANGED <<hotel, type, rate, booked, links, calm, fails>>
  BY DEF RoomSave, RoomRemove, Finish, Continue
<1>1. CASE UNCHANGED room
  BY <1>1, <1>f, QuietEnd DEF rows
<1>2. CASE /\ RoomSave(s) /\ HotelLive(req[s].row.hotel) /\ TypeLive(req[s].row.type)
           /\ room' = [room EXCEPT ![x] = req[s].row]
  <2>1. /\ req[s].row.state = "LIVE" /\ req[s].row.hotel = room[x].hotel
        /\ TypeIn(req[s].row.type, req[s].row.hotel)
    BY <1>2, RequestOf DEF RoomSave, RemembersAll, RememberedRoom
  <2>2. room' \in [Rooms -> Room]
    BY <1>0, <1>2 DEF CatalogueInv, TypeOK
  <2>3. \A y \in Rooms : room'[y] = IF y = x THEN req[s].row ELSE room[y]
    BY <1>0, <1>2 DEF CatalogueInv, TypeOK
  <2>4. TablesOK' /\ Frame /\ RowsFit'
    BY <1>2, <1>f, <2>1, <2>2, <2>3, RoomsWritten
  <2> QED BY <1>f, <2>4, WritesLast
<1>3. CASE RoomRemove(s) /\ room' = [room EXCEPT ![x].state = "GONE"]
  <2> DEFINE row == [room[x] EXCEPT !.state = "GONE"]
  <2>1. /\ row \in Room /\ row.state = "GONE"
        /\ row.hotel = room[x].hotel /\ row.type = room[x].type
    BY <1>0 DEF CatalogueInv, TypeOK, Room, NoRoom
  <2>2. room' = [room EXCEPT ![x] = row]
    BY <1>0, <1>3 DEF CatalogueInv, TypeOK
  <2> HIDE DEF row
  <2>3. room' \in [Rooms -> Room]
    BY <1>0, <2>1, <2>2 DEF CatalogueInv, TypeOK
  <2>4. \A y \in Rooms : room'[y] = IF y = x THEN row ELSE room[y]
    BY <1>0, <2>2 DEF CatalogueInv, TypeOK
  <2>5. TypeIn(row.type, row.hotel)
    BY <1>0, <2>1 DEF CatalogueInv, RowsFit
  <2>6. TablesOK' /\ Frame /\ RowsFit'
    BY <1>f, <2>1, <2>3, <2>4, <2>5, RoomsWritten
  <2> QED BY <1>f, <2>6, WritesLast
<1> QED BY <1>1, <1>2, <1>3 DEF RoomSave, RoomRemove

LEMMA RoomsOK == ASSUME CatalogueInv, NEW s \in Slots, RoomStep(s) PROVE CatalogueInv'
  BY RoomArrives, RoomsInsertOK, RoomPreloadOK, RoomSaveOK DEF RoomStep

--------------------------------------------------------------------------------
\* Writing one rate option keeps the tables in order: its type stays.
LEMMA RateWritten ==
    ASSUME CatalogueInv, NEW o \in Rates, NEW row \in RateOption, row.state # "NONE",
           IsType(row.type), rate[o].state # "NONE" => row.type = rate[o].type,
           rate' = [rate EXCEPT ![o] = row],
           UNCHANGED <<hotel, type, room, booked, chars, asked, calm, fails>>,
           benefits' \in [Rates -> SUBSET Benefits]
    PROVE  TablesOK' /\ Frame /\ RowsFit'
<1>1. TypeOK
  BY DEF CatalogueInv
<1>2. TablesOK'
  BY <1>1 DEF TypeOK, TablesOK
<1>3. \A p \in Rates : rate'[p] = IF p = o THEN row ELSE rate[p]
  BY <1>1 DEF TypeOK
<1>4. Frame
  BY <1>3 DEF Frame
<1>5. \A p \in Rates : rate'[p].state # "NONE" => IsType(rate'[p].type)
  BY <1>3 DEF CatalogueInv, RowsFit
<1>6. \A b \in booked' : IsRoom(b.room)' /\ IsRate(b.rate)'
                         /\ type'[rate'[b.rate].type].hotel = room'[b.room].hotel
  BY <1>3 DEF CatalogueInv, RowsFit, IsRoom, IsRate
<1>7. RowsFit'
  BY <1>5, <1>6 DEF CatalogueInv, RowsFit, TypeLive, HotelLive, RoomLive, TypeIn, IsType
<1> QED BY <1>2, <1>4, <1>7

LEMMA RateArrives ==
    ASSUME CatalogueInv, NEW s \in Slots, CreateRate(s) \/ UpdateRate(s) \/ RemoveRate(s)
    PROVE  CatalogueInv'
<1>1. CASE CreateRate(s)
  <2>1. PICK t \in Types : Start(s, [Idle EXCEPT !.pc = "rateInsert", !.type = t])
    BY <1>1 DEF CreateRate
  <2> DEFINE r == [Idle EXCEPT !.pc = "rateInsert", !.type = t]
  <2>2. r \in Request /\ r.pc = "rateInsert" /\ r.type = t
    BY IdleOK DEF Request, Suspended
  <2> HIDE DEF r
  <2>3. RemembersAll(r)
    BY <2>2 DEF RemembersAll, RememberedType, RememberedRoom, RememberedRate
  <2> QED BY <1>1, <2>1, <2>2, <2>3, Quiet DEF CreateRate, r
<1>2. CASE UpdateRate(s) \/ RemoveRate(s)
  <2>1. PICK o \in Rates, pc \in {"ratePreload", "rateRemove"} :
           /\ RateLive(o) /\ Start(s, [Idle EXCEPT !.pc = pc, !.id = o])
           /\ UNCHANGED <<rows, links>>
    BY <1>2 DEF UpdateRate, RemoveRate
  <2> DEFINE r == [Idle EXCEPT !.pc = pc, !.id = o]
  <2>a. r.pc = pc /\ r.id = o
    BY IdleOK DEF Request
  <2>b. pc \in Suspended \cup {"idle"}
    BY DEF Suspended
  <2>2. r \in Request /\ r.pc = pc /\ r.id = o
    BY <2>a, <2>b, IdleOK DEF Request
  <2> HIDE DEF r
  <2>3. RemembersAll(r)
    BY <2>1, <2>2 DEF RemembersAll, RememberedType, RememberedRoom, RememberedRate, IsRate, RateLive
  <2> QED BY <2>1, <2>2, <2>3, Quiet DEF r
<1> QED BY <1>1, <1>2

LEMMA RatePreloadOK == ASSUME CatalogueInv, NEW s \in Slots, RatePreload(s) PROVE CatalogueInv'
<1>1. CASE Finish(s)
  BY <1>1, QuietEnd DEF RatePreload
<1>2. CASE Goto(s, "rateSave")
  <2>1. RemembersAll([req[s] EXCEPT !.pc = "rateSave"])
    BY RequestOf DEF RatePreload, Request, RemembersAll, RememberedType, RememberedRoom,
                     RememberedRate
  <2> QED BY <1>2, <2>1, MovesOn DEF RatePreload, Suspended
<1> QED BY <1>1, <1>2 DEF RatePreload

LEMMA RateWrites ==
    ASSUME CatalogueInv, NEW s \in Slots, RateInsert(s) \/ RateSave(s) \/ RateRemove(s)
    PROVE  CatalogueInv'
<1>f. Finish(s) /\ UNCHANGED <<hotel, type, room, booked, chars, asked, calm, fails>>
  BY DEF RateInsert, RateSave, RateRemove, Finish, Continue, links
<1>b. benefits' \in [Rates -> SUBSET Benefits]
  BY DEF RateInsert, RateSave, RateRemove, links, CatalogueInv, TypeOK
<1>1. CASE UNCHANGED <<rate, benefits>>
  BY <1>1, <1>f, QuietEnd DEF rows, links
<1>2. CASE RateInsert(s) /\ ~(UNCHANGED rate)
  <2>1. PICK o \in Rates :
           /\ TypeLive(req[s].type) /\ rate[o].state = "NONE"
           /\ rate' = [rate EXCEPT ![o] = [state |-> "LIVE", type |-> req[s].type]]
    BY <1>2 DEF RateInsert
  <2> DEFINE row == [state |-> "LIVE", type |-> req[s].type]
  <2>2. IsType(req[s].type)
    BY <1>2, <2>1, RequestOf DEF RateInsert, RemembersAll, RememberedRate, IsType, TypeLive
  <2>3. row \in RateOption
    BY <2>2 DEF RateOption, IsType
  <2>4. TablesOK' /\ Frame /\ RowsFit'
    BY <1>f, <1>b, <2>1, <2>2, <2>3, RateWritten
  <2> QED BY <1>f, <2>4, WritesLast
<1>3. CASE RateSave(s) \/ RateRemove(s)
  <2> DEFINE o == req[s].id
  <2>1. o \in Rates /\ rate[o].state # "NONE" /\ IsType(rate[o].type)
    BY <1>3, RequestOf DEF RateSave, RateRemove, RemembersAll, RememberedRate, IsRate,
                           CatalogueInv, RowsFit
  <2>2. CASE UNCHANGED rate
    BY <1>3, <1>1, <2>2, <1>f, <1>b, LinksWritten, WritesLast DEF rows, CatalogueInv, TypeOK
  <2>3. ASSUME NEW st \in {"LIVE", "GONE"}, rate' = [rate EXCEPT ![o].state = st]
        PROVE  CatalogueInv'
    <3> DEFINE row == [rate[o] EXCEPT !.state = st]
    <3>1. row \in RateOption /\ row.state = st /\ row.type = rate[o].type
      BY <2>1 DEF CatalogueInv, TypeOK, RateOption, NoRate
    <3>2. rate' = [rate EXCEPT ![o] = row]
      BY <2>1, <2>3 DEF CatalogueInv, TypeOK
    <3> HIDE DEF row
    <3>3. TablesOK' /\ Frame /\ RowsFit'
      BY <1>f, <1>b, <2>1, <3>1, <3>2, RateWritten
    <3> QED BY <1>f, <3>3, WritesLast
  <2> QED BY <1>3, <2>2, <2>3 DEF RateSave, RateRemove
<1>4. RateInsert(s) => UNCHANGED benefits
  BY DEF RateInsert, links
<1> QED BY <1>1, <1>2, <1>3, <1>4

LEMMA RatesOK == ASSUME CatalogueInv, NEW s \in Slots, RateStep(s) PROVE CatalogueInv'
  BY RateArrives, RatePreloadOK, RateWrites DEF RateStep

LEMMA BenefitsOK == ASSUME CatalogueInv, NEW s \in Slots, BenefitStep(s) PROVE CatalogueInv'
<1>1. CASE AddBenefits(s) \/ RemoveBenefits(s)
  <2>1. PICK o \in Rates, pc \in {"addBenefits", "removeBenefits"}, bs \in SUBSET Benefits :
           /\ RateLive(o) /\ Start(s, [Idle EXCEPT !.pc = pc, !.id = o, !.set = bs])
           /\ UNCHANGED <<rows, links>>
    BY <1>1 DEF AddBenefits, RemoveBenefits
  <2> DEFINE r == [Idle EXCEPT !.pc = pc, !.id = o, !.set = bs]
  <2>2. bs \in Given /\ bs \subseteq Benefits
    BY GivenSets
  <2>a. r.pc = pc /\ r.id = o /\ r.set = bs
    BY IdleOK DEF Request
  <2>b. pc \in Suspended \cup {"idle"}
    BY DEF Suspended
  <2>3. r \in Request /\ r.pc = pc /\ r.id = o /\ r.set = bs
    BY <2>a, <2>b, <2>2, IdleOK DEF Request
  <2> HIDE DEF r
  <2>4. RemembersAll(r)
    BY <2>1, <2>2, <2>3
       DEF RemembersAll, RememberedType, RememberedRoom, RememberedRate, IsRate, RateLive
  <2> QED BY <2>1, <2>3, <2>4, Quiet DEF r
<1>2. CASE BenefitsInsert(s) \/ BenefitsRemove(s)
  <2>1. req[s].id \in Rates /\ req[s].set \subseteq Benefits
    BY <1>2, RequestOf DEF BenefitsInsert, BenefitsRemove, RemembersAll, RememberedRate, IsRate
  <2>2. benefits' \in [Rates -> SUBSET Benefits]
    BY <1>2, <2>1 DEF BenefitsInsert, BenefitsRemove, CatalogueInv, TypeOK
  <2>3. Finish(s) /\ UNCHANGED <<rows, chars, asked, calm, fails>>
    BY <1>2 DEF BenefitsInsert, BenefitsRemove, Finish, Continue
  <2>4. TablesOK' /\ Frame /\ RowsFit'
    BY <2>2, <2>3, LinksWritten DEF CatalogueInv, TypeOK
  <2> QED BY <2>3, <2>4, WritesLast
<1> QED BY <1>1, <1>2 DEF BenefitStep

\* A booking that is written down was checked against the type the room had when it was read, and
\* that type is of the room's hotel for good.
LEMMA BookOK == ASSUME CatalogueInv, NEW s \in Slots, BookStep(s) PROVE CatalogueInv'
<1>1. CASE Book(s)
  <2>1. PICK x \in Rooms, o \in Rates, t \in Types :
           /\ RoomLive(x) /\ t = room[x].type
           /\ Start(s, [Idle EXCEPT !.pc = "bookRate", !.id = o, !.room = x, !.type = t])
    BY <1>1, References DEF Book, CatalogueInv, RoomLive
  <2> DEFINE r == [Idle EXCEPT !.pc = "bookRate", !.id = o, !.room = x, !.type = t]
  <2>2. r \in Request /\ r.pc = "bookRate" /\ r.id = o /\ r.room = x /\ r.type = t
    BY IdleOK DEF Request, Suspended
  <2>3. IsRoom(x) /\ TypeIn(t, room[x].hotel) /\ t # None
    BY <2>1, CatalogueAssumption DEF CatalogueInv, RowsFit, RoomLive, IsRoom
  <2> HIDE DEF r
  <2>4. RemembersAll(r)
    BY <2>2, <2>3 DEF RemembersAll, RememberedType, RememberedRoom, RememberedRate
  <2> QED BY <1>1, <2>1, <2>2, <2>4, Quiet DEF Book, r
<1>2. CASE BookRate(s) /\ Finish(s)
  BY <1>2, QuietEnd DEF BookRate
<1>3. CASE BookRate(s) /\ RateOfType(req[s].id, req[s].type) /\ Goto(s, "bookInsert")
  <2>1. req[s].id \in Rates
    BY <1>3, RequestOf, CatalogueAssumption DEF BookRate, RemembersAll, RememberedRate, RateOfType,
       RateLive
  <2>2. RemembersAll([req[s] EXCEPT !.pc = "bookInsert"])
    BY <1>3, <2>1, RequestOf DEF BookRate, Request, RemembersAll, RememberedType, RememberedRoom,
       RememberedRate, RateOfType, RateLive, IsRate
  <2> QED BY <1>3, <2>2, MovesOn DEF BookRate, Suspended
<1>4. CASE BookInsert(s)
  <2> DEFINE b == [room |-> req[s].room, rate |-> req[s].id]
  <2>1. /\ IsRoom(req[s].room) /\ IsRate(req[s].id)
        /\ type[rate[req[s].id].type].hotel = room[req[s].room].hotel
    BY <1>4, RequestOf DEF BookInsert, RemembersAll, RememberedRate, TypeIn
  <2>2. Finish(s) /\ UNCHANGED <<hotel, type, room, rate, chars, benefits, asked, calm, fails>>
    BY <1>4 DEF BookInsert, Finish, Continue, links
  <2>3. booked' = booked \/ booked' = booked \cup {b}
    BY <1>4 DEF BookInsert
  <2>4. TablesOK' /\ Frame
    BY <2>1, <2>2, <2>3 DEF CatalogueInv, TypeOK, TablesOK, Frame, IsRoom, IsRate
  <2>5. RowsFit'
    BY <2>1, <2>2, <2>3 DEF CatalogueInv, RowsFit, TypeLive, HotelLive, RoomLive, TypeIn, IsType,
       IsRoom, IsRate
  <2> QED BY <2>2, <2>4, <2>5, WritesLast
<1> QED BY <1>1, <1>2, <1>3, <1>4 DEF BookStep, BookRate

--------------------------------------------------------------------------------
\* No step stops what a suspended request remembers, or a row refers to, from being so.
LEMMA InvKept == CatalogueInv /\ [Next]_vars => CatalogueInv'
<1> SUFFICES ASSUME CatalogueInv, [Next]_vars PROVE CatalogueInv'
  OBVIOUS
<1>1. ASSUME NEW s \in Slots, Step(s) PROVE CatalogueInv'
  BY <1>1, HotelOK, TypesOK, RoomsOK, RatesOK, BenefitsOK, BookOK, FailOK DEF Step
<1>2. CASE UNCHANGED vars
  BY <1>2 DEF vars, CatalogueInv, TypeOK, RowsFit, Remembers, RememberedType, RememberedRoom,
              RememberedRate, TypeLive, HotelLive, RoomLive, TypeIn, IsType, IsRoom, IsRate
<1> QED BY <1>1, <1>2 DEF Next

\* The inductive invariant holds in every state.
THEOREM CatalogueKept == Spec => []CatalogueInv
<1> QED BY InitOK, InvKept, PTL DEF Spec

\* The rows and the requests of HotelService, RoomTypeService, RoomService and RateOptionService
\* always have their shape.
THEOREM CatalogueTyped == Spec => []TypeOK
<1>1. CatalogueInv => TypeOK
  BY DEF CatalogueInv
<1> QED BY <1>1, CatalogueKept, PTL

\* However requests overlap, and whatever is deleted in between, a live room is of a live type of
\* its own live hotel: the two checks RoomService makes on old reads are enough
\* (room.service.ts:224-232, 313-326).
THEOREM RoomsStayInTheirHotel == Spec => []RoomsMatchTheirType
<1>1. CatalogueInv => RoomsMatchTheirType
  BY DEF CatalogueInv, RowsFit, RoomsMatchTheirType, RoomLive, TypeIn
<1> QED BY <1>1, CatalogueKept, PTL

\* No booking joins a room of one hotel and a rate option of another, although the rate option is
\* judged by a type the room may have lost since (booking.service.ts:287-331).
THEOREM BookingsStayInTheirHotel == Spec => []BookedWithinHotel
<1>1. CatalogueInv => BookedWithinHotel
  BY DEF CatalogueInv, RowsFit, BookedWithinHotel
<1> QED BY <1>1, CatalogueKept, PTL


--------------------------------------------------------------------------------
\* Requests that follow one another.  A step of a slot is the start of a request or goes on with
\* one; a new hotel takes one statement and no slot.
Moved(s) == \A t \in Slots : t # s => req'[t] = req[t]

Begun(s) == Moved(s) /\ req[s] = Idle /\ fails' = fails
            /\ calm' = (calm /\ \A t \in Slots : req[t] = Idle)

Going(s) == Moved(s) /\ req[s] # Idle /\ UNCHANGED <<calm, fails>>

Syncing == {"typeSave", "syncFind", "syncDelete", "syncSave"}
Booking == {"bookRate", "bookInsert"}

LEMMA IdlePc ==
    /\ Idle.pc = "idle" /\ Idle.pc \notin Syncing \cup Booking
    /\ \A s : req[s].pc # "idle" => req[s] # Idle
<1>1. Idle.pc = "idle" BY DEF Idle
<1>. QED BY <1>1 DEF Syncing, Booking

LEMMA StartTo ==
    ASSUME CatalogueInv, NEW s \in Slots, NEW r, Start(s, r)
    PROVE  Begun(s) /\ req'[s] = r /\ req[s].pc = "idle"
BY IdlePc DEF Start, Begun, Moved, CatalogueInv, TypeOK

LEMMA ContinueTo ==
    ASSUME CatalogueInv, NEW s \in Slots, NEW r, Continue(s, r), req[s].pc # "idle"
    PROVE  Going(s) /\ req'[s] = r
BY IdlePc DEF Continue, Going, Moved, CatalogueInv, TypeOK

LEMMA FinishTo ==
    ASSUME CatalogueInv, NEW s \in Slots, Finish(s), req[s].pc # "idle"
    PROVE  Going(s) /\ req'[s] = Idle /\ req'[s].pc \notin Syncing \cup Booking
BY IdlePc, ContinueTo DEF Finish

LEMMA GotoTo ==
    ASSUME CatalogueInv, NEW s \in Slots, NEW pc, Goto(s, pc), req[s].pc # "idle"
    PROVE  /\ Going(s) /\ req'[s].pc = pc
           /\ \A f \in {"id", "type", "room", "set"} : req'[s][f] = req[s][f]
<1>1. Going(s) /\ req'[s] = [req[s] EXCEPT !.pc = pc] BY ContinueTo DEF Goto
<1>2. req[s] \in Request BY DEF CatalogueInv, TypeOK
<1>. QED BY <1>1, <1>2 DEF Request

\* Requests that are about nothing that is replaced, and about no booking.
Apart(s) == /\ Begun(s) \/ Going(s)
            /\ UNCHANGED <<type, chars, asked>> /\ req[s].pc # "syncSave"
            /\ req'[s].pc \notin Syncing \cup Booking

LEMMA HotelApart ==
    ASSUME CatalogueInv, NEW s \in Slots, HotelStep(s)
    PROVE  Apart(s)
<1> USE DEF rows, links, Syncing, Booking, Apart
<1>1. CASE UpdateHotel(s)
  <2>1. PICK h :
        /\ Start(s, [Idle EXCEPT !.pc = "hotelPreload", !.id = h])
        /\ UNCHANGED <<rows, links>>
    BY <1>1 DEF UpdateHotel
  <2> DEFINE x == [Idle EXCEPT !.pc = "hotelPreload", !.id = h]
  <2>2. x.pc = "hotelPreload" BY DEF Idle
  <2>. HIDE DEF x
  <2>. QED BY <2>1, <2>2, StartTo DEF x
<1>2. CASE HotelPreload(s) BY <1>2, GotoTo, FinishTo DEF HotelPreload
<1>3. CASE HotelSave(s) BY <1>3, FinishTo DEF HotelSave
<1>4. CASE RemoveHotel(s)
  <2>1. PICK h : Start(s, [Idle EXCEPT !.pc = "hotelRemove", !.id = h]) /\ UNCHANGED <<rows, links>>
    BY <1>4 DEF RemoveHotel
  <2> DEFINE x == [Idle EXCEPT !.pc = "hotelRemove", !.id = h]
  <2>2. x.pc = "hotelRemove" BY DEF Idle
  <2>. HIDE DEF x
  <2>. QED BY <2>1, <2>2, StartTo DEF x
<1>5. CASE HotelRemove(s) BY <1>5, FinishTo DEF HotelRemove
<1>. QED BY <1>1, <1>2, <1>3, <1>4, <1>5 DEF HotelStep

LEMMA RoomApart ==
    ASSUME CatalogueInv, NEW s \in Slots, RoomStep(s)
    PROVE  Apart(s)
<1> USE DEF rows, links, Syncing, Booking, Apart
<1>1. CASE CreateRooms(s)
  <2>1. PICK h, w :
        /\ Start(s, [Idle EXCEPT !.pc = "roomsInsert", !.hotel = h, !.set = w])
        /\ UNCHANGED <<rows, links>>
    BY <1>1 DEF CreateRooms
  <2> DEFINE x == [Idle EXCEPT !.pc = "roomsInsert", !.hotel = h, !.set = w]
  <2>2. x.pc = "roomsInsert" BY DEF Idle
  <2>. HIDE DEF x
  <2>. QED BY <2>1, <2>2, StartTo DEF x
<1>2. CASE RoomsInsert(s) BY <1>2, FinishTo DEF RoomsInsert
<1>3. CASE UpdateRoom(s)
  <2>1. PICK r, t, n :
        /\ Start(s, [Idle EXCEPT !.pc = "roomPreload", !.id = r, !.type = t, !.number = n])
        /\ UNCHANGED <<rows, links>>
    BY <1>3 DEF UpdateRoom
  <2> DEFINE x == [Idle EXCEPT !.pc = "roomPreload", !.id = r, !.type = t, !.number = n]
  <2>2. x.pc = "roomPreload" BY DEF Idle
  <2>. HIDE DEF x
  <2>. QED BY <2>1, <2>2, StartTo DEF x
<1>4. CASE RoomPreload(s)
  <2>1. req[s] \in Request BY DEF CatalogueInv, TypeOK
  <2>2. PICK row : Finish(s) \/ Continue(s, [req[s] EXCEPT !.pc = "roomSave", !.row = row])
    BY <1>4 DEF RoomPreload
  <2>3. CASE Finish(s) BY <1>4, <2>3, FinishTo DEF RoomPreload
  <2>4. CASE Continue(s, [req[s] EXCEPT !.pc = "roomSave", !.row = row])
    <3>1. [req[s] EXCEPT !.pc = "roomSave", !.row = row].pc = "roomSave"
      BY <2>1 DEF Request
    <3>2. req[s].pc = "roomPreload" /\ UNCHANGED <<rows, links>> BY <1>4 DEF RoomPreload
    <3>. QED BY <2>4, <3>1, <3>2, ContinueTo
  <2>. QED BY <2>2, <2>3, <2>4
<1>5. CASE RoomSave(s) BY <1>5, FinishTo DEF RoomSave
<1>6. CASE RemoveRoom(s)
  <2>1. PICK r : Start(s, [Idle EXCEPT !.pc = "roomRemove", !.id = r]) /\ UNCHANGED <<rows, links>>
    BY <1>6 DEF RemoveRoom
  <2> DEFINE x == [Idle EXCEPT !.pc = "roomRemove", !.id = r]
  <2>2. x.pc = "roomRemove" BY DEF Idle
  <2>. HIDE DEF x
  <2>. QED BY <2>1, <2>2, StartTo DEF x
<1>7. CASE RoomRemove(s) BY <1>7, FinishTo DEF RoomRemove
<1>. QED BY <1>1, <1>2, <1>3, <1>4, <1>5, <1>6, <1>7 DEF RoomStep

LEMMA RateApart ==
    ASSUME CatalogueInv, NEW s \in Slots, RateStep(s) \/ BenefitStep(s)
    PROVE  Apart(s)
<1> USE DEF rows, links, Syncing, Booking, Apart
<1>1. CASE CreateRate(s)
  <2>1. PICK t :
        /\ Start(s, [Idle EXCEPT !.pc = "rateInsert", !.type = t])
        /\ UNCHANGED <<rows, links>>
    BY <1>1 DEF CreateRate
  <2> DEFINE x == [Idle EXCEPT !.pc = "rateInsert", !.type = t]
  <2>2. x.pc = "rateInsert" BY DEF Idle
  <2>. HIDE DEF x
  <2>. QED BY <2>1, <2>2, StartTo DEF x
<1>2. CASE RateInsert(s) BY <1>2, FinishTo DEF RateInsert
<1>3. CASE UpdateRate(s)
  <2>1. PICK o : Start(s, [Idle EXCEPT !.pc = "ratePreload", !.id = o]) /\ UNCHANGED <<rows, links>>
    BY <1>3 DEF UpdateRate
  <2> DEFINE x == [Idle EXCEPT !.pc = "ratePreload", !.id = o]
  <2>2. x.pc = "ratePreload" BY DEF Idle
  <2>. HIDE DEF x
  <2>. QED BY <2>1, <2>2, StartTo DEF x
<1>4. CASE RatePreload(s) BY <1>4, GotoTo, FinishTo DEF RatePreload
<1>5. CASE RateSave(s) BY <1>5, FinishTo DEF RateSave
<1>6. CASE RemoveRate(s)
  <2>1. PICK o : Start(s, [Idle EXCEPT !.pc = "rateRemove", !.id = o]) /\ UNCHANGED <<rows, links>>
    BY <1>6 DEF RemoveRate
  <2> DEFINE x == [Idle EXCEPT !.pc = "rateRemove", !.id = o]
  <2>2. x.pc = "rateRemove" BY DEF Idle
  <2>. HIDE DEF x
  <2>. QED BY <2>1, <2>2, StartTo DEF x
<1>7. CASE RateRemove(s) BY <1>7, FinishTo DEF RateRemove
<1>8. CASE AddBenefits(s)
  <2>1. PICK o, bs :
        /\ Start(s, [Idle EXCEPT !.pc = "addBenefits", !.id = o, !.set = bs])
        /\ UNCHANGED <<rows, links>>
    BY <1>8 DEF AddBenefits
  <2> DEFINE x == [Idle EXCEPT !.pc = "addBenefits", !.id = o, !.set = bs]
  <2>2. x.pc = "addBenefits" BY DEF Idle
  <2>. HIDE DEF x
  <2>. QED BY <2>1, <2>2, StartTo DEF x
<1>9. CASE BenefitsInsert(s) BY <1>9, FinishTo DEF BenefitsInsert
<1>10. CASE RemoveBenefits(s)
  <2>1. PICK o, bs :
        /\ Start(s, [Idle EXCEPT !.pc = "removeBenefits", !.id = o, !.set = bs])
        /\ UNCHANGED <<rows, links>>
    BY <1>10 DEF RemoveBenefits
  <2> DEFINE x == [Idle EXCEPT !.pc = "removeBenefits", !.id = o, !.set = bs]
  <2>2. x.pc = "removeBenefits" BY DEF Idle
  <2>. HIDE DEF x
  <2>. QED BY <2>1, <2>2, StartTo DEF x
<1>11. CASE BenefitsRemove(s) BY <1>11, FinishTo DEF BenefitsRemove
<1>. QED BY <1>1, <1>2, <1>3, <1>4, <1>5, <1>6, <1>7, <1>8, <1>9, <1>10, <1>11
     DEF RateStep, BenefitStep

\* Requests that book.
LEMMA BookTo ==
    ASSUME CatalogueInv, NEW s \in Slots, Book(s)
    PROVE  /\ Begun(s) /\ req[s].pc = "idle"
           /\ req'[s].pc = "bookRate" /\ req'[s].type = room[req'[s].room].type
           /\ UNCHANGED <<rows, links>>
<1>1. PICK r \in Rooms, o \in Rates :
        /\ Start(s, [Idle EXCEPT !.pc = "bookRate", !.id = o, !.room = r, !.type = room[r].type])
        /\ UNCHANGED <<rows, links>>
  BY DEF Book
<1> DEFINE t == room[r].type
           x == [Idle EXCEPT !.pc = "bookRate", !.id = o, !.room = r, !.type = t]
<1>2. x.pc = "bookRate" /\ x.room = r /\ x.type = t BY DEF Idle
<1>3. Start(s, x) BY <1>1
<1>. HIDE DEF x
<1>. QED BY <1>1, <1>2, <1>3, StartTo

LEMMA BookRateTo ==
    ASSUME CatalogueInv, NEW s \in Slots, BookRate(s)
    PROVE  /\ Going(s) /\ req[s].pc = "bookRate"
           /\ \/ req'[s].pc \notin Syncing \cup Booking
              \/ /\ req'[s].pc = "bookInsert" /\ req'[s].room = req[s].room
                 /\ req'[s].type = req[s].type
           /\ UNCHANGED <<rows, links>>
BY GotoTo, FinishTo DEF BookRate

LEMMA BookInsertTo ==
    ASSUME CatalogueInv, NEW s \in Slots, BookInsert(s)
    PROVE  /\ Going(s) /\ req[s].pc = "bookInsert"
           /\ req'[s].pc \notin Syncing \cup Booking
           /\ \A b \in booked' \ booked : b.room = req[s].room /\ b.rate = req[s].id
           /\ UNCHANGED <<type, room, rate, chars, asked>>
BY FinishTo DEF BookInsert, links

\* Requests about a type and its characteristics.
LEMMA TypeStarts ==
    ASSUME CatalogueInv, NEW s \in Slots, CreateType(s) \/ UpdateType(s) \/ RemoveType(s)
    PROVE  Apart(s) /\ Begun(s) /\ room' = room
<1> USE DEF rows, links, Syncing, Booking, Apart
<1>1. CASE CreateType(s)
  <2>1. PICK h, cs : Start(s, [Idle EXCEPT !.pc = "typeInsert", !.hotel = h, !.set = cs])
                     /\ UNCHANGED <<rows, links>>
    BY <1>1 DEF CreateType
  <2> DEFINE x == [Idle EXCEPT !.pc = "typeInsert", !.hotel = h, !.set = cs]
  <2>2. x.pc = "typeInsert" BY DEF Idle
  <2>. HIDE DEF x
  <2>. QED BY <2>1, <2>2, StartTo DEF x
<1>2. CASE UpdateType(s)
  <2>1. PICK t, cs : Start(s, [Idle EXCEPT !.pc = "typePreload", !.id = t, !.set = cs])
                     /\ UNCHANGED <<rows, links>>
    BY <1>2 DEF UpdateType
  <2> DEFINE x == [Idle EXCEPT !.pc = "typePreload", !.id = t, !.set = cs]
  <2>2. x.pc = "typePreload" BY DEF Idle
  <2>. HIDE DEF x
  <2>. QED BY <2>1, <2>2, StartTo DEF x
<1>3. CASE RemoveType(s)
  <2>1. PICK t : Start(s, [Idle EXCEPT !.pc = "typeRemove", !.id = t]) /\ UNCHANGED <<rows, links>>
    BY <1>3 DEF RemoveType
  <2> DEFINE x == [Idle EXCEPT !.pc = "typeRemove", !.id = t]
  <2>2. x.pc = "typeRemove" BY DEF Idle
  <2>. HIDE DEF x
  <2>. QED BY <2>1, <2>2, StartTo DEF x
<1>. QED BY <1>1, <1>2, <1>3

\* The request goes on about the type t, which is live, or ends.
OnAbout(s, pc, t) == /\ req'[s].pc = pc /\ req'[s].id = t

LEMMA TypeInsertTo ==
    ASSUME CatalogueInv, NEW s \in Slots, TypeInsert(s)
    PROVE  /\ Going(s) /\ UNCHANGED <<room, chars, asked>> /\ req[s].pc # "syncSave"
           /\ \/ req'[s].pc \notin Syncing \cup Booking
              \/ \E t \in Types : TypeLive(t)' /\ OnAbout(s, "syncFind", t)
<1>1. CASE Finish(s) /\ TypeInsert(s)
  BY <1>1, FinishTo DEF TypeInsert, links
<1>2. CASE ~Finish(s)
  <2>1. PICK t \in Types :
          /\ type' = [type EXCEPT ![t] = [state |-> "LIVE", hotel |-> req[s].hotel]]
          /\ Continue(s, [req[s] EXCEPT !.pc = "syncFind", !.id = t])
    BY <1>2 DEF TypeInsert
  <2>2. type'[t].state = "LIVE" BY <2>1 DEF CatalogueInv, TypeOK
  <2>3. req[s] \in Request BY DEF CatalogueInv, TypeOK
  <2> DEFINE x == [req[s] EXCEPT !.pc = "syncFind", !.id = t]
  <2>4. x.pc = "syncFind" /\ x.id = t BY <2>3 DEF Request
  <2>5. Continue(s, x) BY <2>1
  <2>. HIDE DEF x
  <2>6. req[s].pc = "typeInsert" /\ UNCHANGED <<room, chars, asked>> BY DEF TypeInsert, links
  <2>. QED BY <2>2, <2>4, <2>5, <2>6, ContinueTo DEF TypeLive, OnAbout
<1>. QED BY <1>1, <1>2

LEMMA TypePreloadTo ==
    ASSUME CatalogueInv, NEW s \in Slots, TypePreload(s)
    PROVE  /\ Going(s) /\ UNCHANGED <<type, room, chars, asked>> /\ req[s].pc # "syncSave"
           /\ \/ req'[s].pc \notin Syncing \cup Booking
              \/ TypeLive(req[s].id) /\ OnAbout(s, "typeSave", req[s].id)
BY GotoTo, FinishTo DEF TypePreload, rows, links, OnAbout

LEMMA TypeSaveTo ==
    ASSUME CatalogueInv, NEW s \in Slots, TypeSave(s), TypeLive(req[s].id)
    PROVE  /\ Going(s) /\ UNCHANGED <<room, chars, asked>> /\ req[s].pc # "syncSave"
           /\ \/ req'[s].pc \notin Syncing \cup Booking
              \/ TypeLive(req[s].id)' /\ OnAbout(s, "syncFind", req[s].id)
<1>1. PICK t \in Types : t = req[s].id
  BY DEF TypeSave, CatalogueInv, Remembers, RememberedType, IsType
<1>2. /\ req[s].pc = "typeSave" /\ type' = [type EXCEPT ![t].state = "LIVE"]
      /\ Finish(s) \/ Goto(s, "syncFind")
      /\ UNCHANGED <<room, chars, asked>>
  BY <1>1 DEF TypeSave, links
<1>3. type'[t].state = "LIVE"
  <2> DEFINE y == type[t]
             z == [y EXCEPT !.state = "LIVE"]
  <2>1. y \in RoomType BY DEF CatalogueInv, TypeOK
  <2>2. z.state = "LIVE" BY <2>1 DEF RoomType, NoType
  <2>3. type' = [type EXCEPT ![t] = z] BY <1>2
  <2>. HIDE DEF z
  <2>. QED BY <2>2, <2>3 DEF CatalogueInv, TypeOK
<1>4. CASE Finish(s) BY <1>2, <1>4, FinishTo
<1>5. CASE Goto(s, "syncFind")
  <2>1. Going(s) /\ req'[s].pc = "syncFind" /\ req'[s].id = t BY <1>1, <1>2, <1>5, GotoTo
  <2>2. OnAbout(s, "syncFind", req[s].id) BY <1>1, <2>1 DEF OnAbout
  <2>3. \A u : u = t => TypeLive(u)' BY <1>3 DEF TypeLive
  <2>. QED BY <1>2, <2>1, <2>2, <2>3 DEF OnAbout
<1>. QED BY <1>2, <1>4, <1>5

LEMMA SyncFindTo ==
    ASSUME CatalogueInv, NEW s \in Slots, SyncFind(s)
    PROVE  /\ Going(s) /\ req[s].pc = "syncFind" /\ UNCHANGED <<type, room, chars, asked>>
           /\ \/ req'[s].pc \notin Syncing \cup Booking
              \/ OnAbout(s, "syncDelete", req[s].id)
BY GotoTo, FinishTo DEF SyncFind, rows, links, OnAbout

LEMMA SyncDeleteTo ==
    ASSUME CatalogueInv, NEW s \in Slots, SyncDelete(s)
    PROVE  /\ Going(s) /\ req[s].pc = "syncDelete" /\ UNCHANGED <<type, room>>
           /\ OnAbout(s, "syncSave", req[s].id) /\ req'[s].set = req[s].set
           /\ chars' = [chars EXCEPT ![req[s].id] = {}]
           /\ asked' = [asked EXCEPT ![req[s].id] = req[s].set]
BY GotoTo DEF SyncDelete, rows, OnAbout

LEMMA SyncSaveTo ==
    ASSUME CatalogueInv, NEW s \in Slots, SyncSave(s)
    PROVE  /\ Going(s) /\ req[s].pc = "syncSave" /\ UNCHANGED <<type, room, asked>>
           /\ req'[s].pc \notin Syncing \cup Booking
           /\ chars' = IF TypeLive(req[s].id) /\ chars[req[s].id] \cap req[s].set = {}
                       THEN [chars EXCEPT ![req[s].id] = @ \cup req[s].set] ELSE chars
BY FinishTo DEF SyncSave, rows

LEMMA TypeRemoveTo ==
    ASSUME CatalogueInv, NEW s \in Slots, TypeRemove(s)
    PROVE  /\ Going(s) /\ req[s].pc = "typeRemove" /\ room' = room
           /\ req'[s].pc \notin Syncing \cup Booking
           /\ \/ UNCHANGED <<chars, asked>>
              \/ /\ chars' = [chars EXCEPT ![req[s].id] = {}]
                 /\ asked' = [asked EXCEPT ![req[s].id] = {}]
BY FinishTo DEF TypeRemove

--------------------------------------------------------------------------------
\* While calm, what a request remembers is still so when it writes.
HeldAlone(r) ==
    /\ r.pc \in Syncing => TypeLive(r.id)
    /\ r.pc = "syncSave" => chars[r.id] = {} /\ asked[r.id] = r.set
    /\ r.pc \in Booking => r.type = room[r.room].type

AloneInv ==
    calm => /\ \A s, t \in Slots : req[s] # Idle /\ req[t] # Idle => s = t
            /\ \A s \in Slots : HeldAlone(req[s])

\* If moreover no request has died, a type has what it was last given, or the request that gives
\* it has yet to insert the links.
ReplacedInv ==
    calm /\ fails = 0 =>
        \A t \in Types : \/ chars[t] = asked[t]
                         \/ \E s \in Slots : req[s].pc = "syncSave" /\ req[s].id = t

Lone(s) == calm /\ \A t \in Slots : t # s => req[t] = Idle /\ req'[t] = Idle

LEMMA LoneStep ==
    ASSUME AloneInv, NEW s \in Slots, Begun(s) \/ Going(s), calm'
    PROVE  Lone(s) /\ fails' = fails
<1>1. CASE Begun(s) BY <1>1 DEF Begun, Moved, Lone
<1>2. CASE Going(s) BY <1>2 DEF Going, Moved, Lone, AloneInv
<1>. QED BY <1>1, <1>2

\* What a step of the only busy slot has to show.
LEMMA AloneMoves ==
    ASSUME NEW s \in Slots, Lone(s), HeldAlone(req[s])'
    PROVE  AloneInv'
<1>1. ASSUME NEW t \in Slots, t # s PROVE HeldAlone(req[t])'
  <2>1. req'[t].pc \notin Syncing \cup Booking BY <1>1, IdlePc DEF Lone
  <2>. QED BY <2>1 DEF HeldAlone, Syncing
<1>. QED BY <1>1 DEF AloneInv, Lone

LEMMA FreeHeld ==
    ASSUME NEW s \in Slots, req'[s].pc \notin Syncing \cup Booking
    PROVE  HeldAlone(req[s])'
BY DEF HeldAlone, Syncing

LEMMA ReplacedMoves ==
    ASSUME NEW s \in Slots, Lone(s), ReplacedInv, fails = 0, req[s].pc # "syncSave",
           UNCHANGED <<chars, asked>>
    PROVE  ReplacedInv'
<1>1. \A t \in Slots : req[t].pc # "syncSave" BY IdlePc DEF Lone, Syncing
<1>2. \A t \in Types : chars[t] = asked[t] BY <1>1 DEF ReplacedInv, Lone
<1>. QED BY <1>2 DEF ReplacedInv

\* Every way a step can go.
LEMMA StepCases ==
    ASSUME [Next]_vars
    PROVE  \/ UNCHANGED <<type, room, rate, chars, asked, booked, req, calm, fails>>
           \/ \E s \in Slots : RequestFails(s)
           \/ \E s \in Slots : HotelStep(s) \/ TypeStep(s) \/ RoomStep(s) \/ RateStep(s)
                               \/ BenefitStep(s) \/ BookStep(s)
BY DEF Next, Step, CreateHotel, links, vars

LEMMA AloneKept ==
    ASSUME CatalogueInv, AloneInv, [Next]_vars
    PROVE  AloneInv'
<1>. SUFFICES ASSUME calm' PROVE AloneInv'
  BY DEF AloneInv
<1>1. CASE UNCHANGED <<type, room, rate, chars, asked, booked, req, calm, fails>>
  BY <1>1 DEF AloneInv, HeldAlone, TypeLive
<1>2. ASSUME NEW s \in Slots, RequestFails(s) PROVE AloneInv'
  <2>1. Lone(s) /\ req'[s] = Idle
    BY <1>2 DEF RequestFails, AloneInv, Lone, CatalogueInv, TypeOK
  <2>2. HeldAlone(req[s])' BY <2>1, IdlePc, FreeHeld
  <2>. QED BY <2>1, <2>2, AloneMoves
<1>3. ASSUME NEW s \in Slots, Apart(s) PROVE AloneInv'
  BY <1>3, LoneStep, FreeHeld, AloneMoves DEF Apart
<1>4. ASSUME NEW s \in Slots, BookStep(s) PROVE AloneInv'
  <2>1. CASE Book(s)
    <3>1. HeldAlone(req[s])' BY <2>1, BookTo DEF HeldAlone, rows, Syncing
    <3>. QED BY <2>1, <3>1, BookTo, LoneStep, AloneMoves
  <2>2. CASE BookRate(s)
    <3>0. Lone(s) BY <2>2, BookRateTo, LoneStep
    <3>1. CASE req'[s].pc \notin Syncing \cup Booking BY <3>0, <3>1, FreeHeld, AloneMoves
    <3>2. CASE req'[s].pc = "bookInsert" /\ req'[s].room = req[s].room
               /\ req'[s].type = req[s].type
      <4>1. req[s].type = room[req[s].room].type
        BY <2>2, <3>0, BookRateTo DEF AloneInv, HeldAlone, Booking, Lone
      <4>2. room' = room BY <2>2, BookRateTo DEF rows
      <4>3. HeldAlone(req[s])' BY <3>2, <4>1, <4>2 DEF HeldAlone, Syncing
      <4>. QED BY <3>0, <4>3, AloneMoves
    <3>. QED BY <2>2, <3>1, <3>2, BookRateTo
  <2>3. CASE BookInsert(s) BY <2>3, BookInsertTo, LoneStep, FreeHeld, AloneMoves
  <2>. QED BY <1>4, <2>1, <2>2, <2>3 DEF BookStep
<1>5. ASSUME NEW s \in Slots, TypeStep(s) PROVE AloneInv'
  <2> USE DEF OnAbout
  <2>1. CASE CreateType(s) \/ UpdateType(s) \/ RemoveType(s) BY <1>3, <2>1, TypeStarts
  <2>2. CASE TypeInsert(s)
    <3>0. Lone(s) BY <2>2, TypeInsertTo, LoneStep
    <3>1. CASE req'[s].pc \notin Syncing \cup Booking BY <3>0, <3>1, FreeHeld, AloneMoves
    <3>2. CASE \E t \in Types : TypeLive(t)' /\ OnAbout(s, "syncFind", t)
      <4>1. HeldAlone(req[s])' BY <3>2 DEF HeldAlone, Booking, TypeLive
      <4>. QED BY <3>0, <4>1, AloneMoves
    <3>. QED BY <2>2, <3>1, <3>2, TypeInsertTo
  <2>3. CASE TypePreload(s)
    <3>0. Lone(s) BY <2>3, TypePreloadTo, LoneStep
    <3>1. CASE req'[s].pc \notin Syncing \cup Booking BY <3>0, <3>1, FreeHeld, AloneMoves
    <3>2. CASE TypeLive(req[s].id) /\ OnAbout(s, "typeSave", req[s].id)
      <4>0. type' = type BY <2>3, TypePreloadTo
      <4>1. HeldAlone(req[s])' BY <3>2, <4>0 DEF HeldAlone, Booking, TypeLive
      <4>. QED BY <3>0, <4>1, AloneMoves
    <3>. QED BY <2>3, <3>1, <3>2, TypePreloadTo
  <2>4. CASE TypeSave(s)
    <3>a. req[s].pc = "typeSave" BY <2>4 DEF TypeSave
    <3>b. calm /\ HeldAlone(req[s])
      <4>1. calm BY <2>4 DEF TypeSave, Finish, Goto, Continue
      <4>. QED BY <4>1 DEF AloneInv
    <3>c. TypeLive(req[s].id) BY <3>a, <3>b DEF HeldAlone, Syncing
    <3>0. Lone(s) BY <2>4, <3>c, TypeSaveTo, LoneStep
    <3>1. CASE req'[s].pc \notin Syncing \cup Booking BY <3>0, <3>1, FreeHeld, AloneMoves
    <3>2. CASE TypeLive(req[s].id)' /\ OnAbout(s, "syncFind", req[s].id)
      <4>1. HeldAlone(req[s])' BY <3>2 DEF HeldAlone, Booking
      <4>. QED BY <3>0, <4>1, AloneMoves
    <3>. QED BY <2>4, <3>c, <3>1, <3>2, TypeSaveTo
  <2>5. CASE SyncFind(s)
    <3>0. Lone(s) /\ HeldAlone(req[s]) BY <2>5, SyncFindTo, LoneStep DEF AloneInv, Lone
    <3>1. CASE req'[s].pc \notin Syncing \cup Booking BY <3>0, <3>1, FreeHeld, AloneMoves
    <3>2. CASE OnAbout(s, "syncDelete", req[s].id)
      <4>0. type' = type /\ req[s].pc = "syncFind" BY <2>5, SyncFindTo
      <4>1. HeldAlone(req[s])' BY <3>0, <3>2, <4>0 DEF HeldAlone, Booking, Syncing, TypeLive
      <4>. QED BY <3>0, <4>1, AloneMoves
    <3>. QED BY <2>5, <3>1, <3>2, SyncFindTo
  <2>6. CASE SyncDelete(s)
    <3>0. Lone(s) /\ HeldAlone(req[s]) BY <2>6, SyncDeleteTo, LoneStep DEF AloneInv, Lone
    <3>1. /\ type' = type /\ req[s].pc = "syncDelete" /\ req'[s].pc = "syncSave"
          /\ req'[s].id = req[s].id /\ req'[s].set = req[s].set
          /\ chars' = [chars EXCEPT ![req[s].id] = {}]
          /\ asked' = [asked EXCEPT ![req[s].id] = req[s].set]
      BY <2>6, SyncDeleteTo
    <3>2. req[s].id \in Types
      BY <3>1 DEF CatalogueInv, Remembers, RememberedType, IsType
    <3>3. chars'[req[s].id] = {} /\ asked'[req[s].id] = req[s].set
      BY <3>1, <3>2 DEF CatalogueInv, TypeOK
    <3>4. HeldAlone(req[s])' BY <3>0, <3>1, <3>3 DEF HeldAlone, Booking, Syncing, TypeLive
    <3>. QED BY <3>0, <3>4, AloneMoves
  <2>7. CASE SyncSave(s) BY <2>7, SyncSaveTo, LoneStep, FreeHeld, AloneMoves
  <2>8. CASE TypeRemove(s) BY <2>8, TypeRemoveTo, LoneStep, FreeHeld, AloneMoves
  <2>. QED BY <1>5, <2>1, <2>2, <2>3, <2>4, <2>5, <2>6, <2>7, <2>8 DEF TypeStep
<1>. QED BY <1>1, <1>2, <1>3, <1>4, <1>5, StepCases, HotelApart, RoomApart, RateApart

\* A step that writes no link, unless it is the insert that was missing.
LEMMA LinksStay ==
    ASSUME AloneInv, ReplacedInv, NEW s \in Slots, Begun(s) \/ Going(s), calm', fails' = 0,
           UNCHANGED <<chars, asked>>, req[s].pc # "syncSave"
    PROVE  ReplacedInv'
BY LoneStep, ReplacedMoves

LEMMA ReplacedKept ==
    ASSUME CatalogueInv, AloneInv, ReplacedInv, [Next]_vars
    PROVE  ReplacedInv'
<1>. SUFFICES ASSUME calm', fails' = 0 PROVE ReplacedInv'
  BY DEF ReplacedInv
<1>0. fails \in Nat BY CatalogueAssumption DEF CatalogueInv, TypeOK
<1>1. CASE UNCHANGED <<type, room, rate, chars, asked, booked, req, calm, fails>>
  BY <1>1 DEF ReplacedInv
<1>2. ASSUME NEW s \in Slots, RequestFails(s) PROVE ReplacedInv'
  <2>1. fails' = fails + 1 BY <1>2 DEF RequestFails
  <2>. QED BY <1>0, <2>1
<1>3. ASSUME NEW s \in Slots, Apart(s) PROVE ReplacedInv'
  BY <1>3, LinksStay DEF Apart
<1>4. ASSUME NEW s \in Slots, BookStep(s) PROVE ReplacedInv'
  BY <1>4, BookTo, BookRateTo, BookInsertTo, LinksStay DEF BookStep, links
<1>5. ASSUME NEW s \in Slots, TypeStep(s) PROVE ReplacedInv'
  <2>1. CASE CreateType(s) \/ UpdateType(s) \/ RemoveType(s) BY <1>3, <2>1, TypeStarts
  <2>2. CASE TypeInsert(s) BY <2>2, TypeInsertTo, LinksStay
  <2>3. CASE TypePreload(s) BY <2>3, TypePreloadTo, LinksStay
  <2>4. CASE TypeSave(s)
    <3>1. req[s].pc = "typeSave" /\ calm BY <2>4 DEF TypeSave, Finish, Goto, Continue
    <3>2. TypeLive(req[s].id) BY <3>1 DEF AloneInv, HeldAlone, Syncing
    <3>. QED BY <2>4, <3>2, TypeSaveTo, LinksStay
  <2>5. CASE SyncFind(s) BY <2>5, SyncFindTo, LinksStay
  <2>6. CASE SyncDelete(s)
    <3>1. /\ Lone(s) /\ req[s].pc = "syncDelete" /\ OnAbout(s, "syncSave", req[s].id)
          /\ chars' = [chars EXCEPT ![req[s].id] = {}]
          /\ asked' = [asked EXCEPT ![req[s].id] = req[s].set]
          /\ fails = 0
      BY <2>6, SyncDeleteTo, LoneStep
    <3>2. \A t \in Slots : req[t].pc # "syncSave" BY <3>1, IdlePc DEF Lone, Syncing
    <3>3. \A t \in Types : chars[t] = asked[t] BY <3>1, <3>2 DEF ReplacedInv, Lone
    <3>4. \A t \in Types : t # req[s].id => chars'[t] = asked'[t]
      BY <3>1, <3>3 DEF CatalogueInv, TypeOK
    <3>. QED BY <3>1, <3>4 DEF ReplacedInv, OnAbout
  <2>7. CASE SyncSave(s)
    <3>1. /\ Lone(s) /\ req[s].pc = "syncSave" /\ asked' = asked /\ fails = 0
          /\ chars' = IF TypeLive(req[s].id) /\ chars[req[s].id] \cap req[s].set = {}
                      THEN [chars EXCEPT ![req[s].id] = @ \cup req[s].set] ELSE chars
      BY <2>7, SyncSaveTo, LoneStep
    <3>2. TypeLive(req[s].id) /\ chars[req[s].id] = {} /\ asked[req[s].id] = req[s].set
      BY <3>1 DEF AloneInv, HeldAlone, Syncing, Lone
    <3>3. chars' = [chars EXCEPT ![req[s].id] = req[s].set] BY <3>1, <3>2
    <3>4. \A t \in Slots : t # s => req[t].pc # "syncSave" BY <3>1, IdlePc DEF Lone, Syncing
    <3>5. \A t \in Types : t # req[s].id => chars[t] = asked[t]
      BY <3>1, <3>4 DEF ReplacedInv, Lone
    <3>6. \A t \in Types : chars'[t] = asked'[t]
      BY <3>1, <3>2, <3>3, <3>5 DEF CatalogueInv, TypeOK
    <3>. QED BY <3>6 DEF ReplacedInv
  <2>8. CASE TypeRemove(s)
    <3>1. CASE UNCHANGED <<chars, asked>> BY <2>8, <3>1, TypeRemoveTo, LinksStay
    <3>2. CASE ~UNCHANGED <<chars, asked>>
      <4>1. /\ Lone(s) /\ req[s].pc = "typeRemove" /\ fails = 0
            /\ chars' = [chars EXCEPT ![req[s].id] = {}]
            /\ asked' = [asked EXCEPT ![req[s].id] = {}]
        BY <2>8, <3>2, TypeRemoveTo, LoneStep
      <4>2. \A t \in Slots : req[t].pc # "syncSave" BY <4>1, IdlePc DEF Lone, Syncing
      <4>3. \A t \in Types : chars[t] = asked[t] BY <4>1, <4>2 DEF ReplacedInv, Lone
      <4>4. \A t \in Types : chars'[t] = asked'[t]
        BY <4>1, <4>3 DEF CatalogueInv, TypeOK
      <4>. QED BY <4>4 DEF ReplacedInv
    <3>. QED BY <3>1, <3>2
  <2>. QED BY <1>5, <2>1, <2>2, <2>3, <2>4, <2>5, <2>6, <2>7, <2>8 DEF TypeStep
<1>. QED BY <1>1, <1>2, <1>3, <1>4, <1>5, StepCases, HotelApart, RoomApart, RateApart

CalmInv == CatalogueInv /\ AloneInv /\ ReplacedInv

LEMMA CalmAtInit == Init => CalmInv
<1>. SUFFICES ASSUME Init PROVE CalmInv
  OBVIOUS
<1>1. \A s \in Slots : req[s] = Idle BY DEF Init
<1>2. AloneInv BY <1>1, IdlePc DEF AloneInv, HeldAlone, Syncing
<1>3. ReplacedInv BY DEF Init, ReplacedInv
<1>. QED BY <1>2, <1>3, InitOK DEF CalmInv

\* While requests follow one another, what a request has read is still so when it writes; and
\* while none has died either, the links of a type are those last given.
THEOREM CalmKept == Spec => []CalmInv
<1>1. CalmInv /\ [Next]_vars => CalmInv'
  BY InvKept, AloneKept, ReplacedKept DEF CalmInv
<1>. QED BY <1>1, CalmAtInit, PTL DEF Spec

\* Without overlap and with no request lost half way, a type has the characteristics it was last
\* given (room-type.service.ts:192-220).
THEOREM ReplacementsAreWhole == Spec => []ReplacedWhenCalm
<1>1. CalmInv => ReplacedWhenCalm
  BY DEF CalmInv, ReplacedInv, ReplacedWhenCalm, CharacteristicsReplaced
<1>. QED BY <1>1, CalmKept, PTL

LEMMA BooksAtRate ==
    ASSUME CalmInv, [Next]_vars, calm', NEW b \in booked' \ booked
    PROVE  rate[b.rate].type = room[b.room].type
<1>. USE DEF CalmInv
<1>0. PICK s \in Slots : BookInsert(s)
  <2>1. ASSUME NEW s \in Slots, HotelStep(s) \/ TypeStep(s) \/ RoomStep(s) \/ RateStep(s)
               \/ BenefitStep(s) \/ Book(s) \/ BookRate(s) \/ RequestFails(s)
        PROVE  UNCHANGED booked
    <3> USE DEF rows, links
    <3>1. CASE HotelStep(s)
      BY <3>1 DEF HotelStep, UpdateHotel, HotelPreload, HotelSave, RemoveHotel, HotelRemove
    <3>2. CASE TypeStep(s)
      BY <3>2 DEF TypeStep, CreateType, TypeInsert, UpdateType, TypePreload, TypeSave, SyncFind,
                  SyncDelete, SyncSave, RemoveType, TypeRemove
    <3>3. CASE RoomStep(s)
      BY <3>3 DEF RoomStep, CreateRooms, RoomsInsert, UpdateRoom, RoomPreload, RoomSave,
                  RemoveRoom, RoomRemove
    <3>4. CASE RateStep(s)
      BY <3>4 DEF RateStep, CreateRate, RateInsert, UpdateRate, RatePreload, RateSave,
                  RemoveRate, RateRemove
    <3>5. CASE BenefitStep(s)
      BY <3>5 DEF BenefitStep, AddBenefits, BenefitsInsert, RemoveBenefits, BenefitsRemove
    <3>6. CASE Book(s) \/ BookRate(s) \/ RequestFails(s)
      BY <3>6 DEF Book, BookRate, RequestFails
    <3>. QED BY <2>1, <3>1, <3>2, <3>3, <3>4, <3>5, <3>6
  <2>. QED BY <2>1, StepCases DEF BookStep
<1>1. /\ Going(s) /\ req[s].pc = "bookInsert" /\ b.room = req[s].room /\ b.rate = req[s].id
  BY <1>0, BookInsertTo
<1>2. calm BY <1>1 DEF Going
<1>3. req[s].type = room[req[s].room].type
  BY <1>1, <1>2 DEF AloneInv, HeldAlone, Booking
<1>4. rate[req[s].id].type = req[s].type
  BY <1>1 DEF CatalogueInv, Remembers, RememberedRate
<1>. QED BY <1>1, <1>3, <1>4

\* Without overlap a booking is made at a rate of the room's own type: no other request can have
\* given the room another type since it was read (booking.service.ts:287-331).
THEOREM BooksAtItsOwnRate == Spec => BookedRateFits
<1>1. CalmInv /\ [Next]_vars =>
        [calm' => \A b \in booked' \ booked : rate[b.rate].type = room[b.room].type]_vars
  BY BooksAtRate
<1>. QED BY <1>1, CalmKept, PTL DEF Spec, BookedRateFits
================================================================================
