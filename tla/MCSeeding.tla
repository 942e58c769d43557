-------------------------------- MODULE MCSeeding --------------------------------
(* Plans and scenes for checking Seeding with TLC. *)
EXTENDS SeedPlan

CONSTANTS n1, n2

King == "Deluxe King"
Twin == "Standard Twin"

\* What RunSeeders does, with one row in each table; the column roleId is left out.
ToHotel == <<
    FindOrSave("admins", "admin@obs.com.mm", None, NoRefs),
    FindOne("admins", {"admin@obs.com.mm"}, <<"admin">>, NoRefs),
    FindOrSave("hotels", Yangon, None, [createdBy |-> <<"admin">>])>>

ToRoomType ==
    ToHotel
    \o Append(FindHotel(Yangon), FindOrSave("roomTypes", King, None, [hotelId |-> Hotel(Yangon)]))

ToRoom ==
    ToRoomType
    \o Append(FindRoomType(Yangon, King),
              FindOrSave("rooms", "501", None, [hotelId |-> Hotel(Yangon),
                                                roomTypeId |-> RoomType(Yangon, King)]))

\* Two types of one hotel: with the hotel made twice they may come apart.
ToTwoTypes ==
    ToRoomType
    \o Append(FindHotel(Yangon), FindOrSave("roomTypes", Twin, None, [hotelId |-> Hotel(Yangon)]))

MCPlans == [hotel |-> ToHotel, roomType |-> ToRoomType, room |-> ToRoom, types |-> ToTwoTypes,
            all |-> RunSeeders]

Scene(plan, runs, dies, edits, clears) ==
    [plan |-> plan, runs |-> runs, dies |-> dies, edits |-> edits, clears |-> clears]

\* Bound: a few rows when things may go wrong; all rows by one run that nobody disturbs.
MCScenes == {
    Scene("room", {n1, n2}, 0, 0, 0), Scene("types", {n1, n2}, 0, 0, 0),
    Scene("roomType", {n1, n2}, 1, 1, 0),
    Scene("room", {n1}, 1, 1, 0), Scene("roomType", {n1}, 1, 1, 1), Scene("all", {n1}, 0, 0, 0)}
================================================================================
