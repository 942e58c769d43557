-------------------------------- MODULE SeedPlan --------------------------------
(***************************************************************************)
(* What the ten seeders seed, entry by entry in the order of seed.ts: the  *)
(* names by which seeders find each other's rows.                          *)
(***************************************************************************)
EXTENDS Seeding, SequencesExt

Each(s, Op(_)) == [i \in DOMAIN s |-> Op(s[i])]
ForEach(s, Op(_)) == FlattenSeq(Each(s, Op))

NoRefs == <<>>

FindOne(table, names, label, refs) ==
    [find |-> TRUE, table |-> table, names |-> names, label |-> label, refs |-> refs]

FindOrSave(table, name, label, refs) ==
    [find |-> FALSE, table |-> table, names |-> {name}, label |-> label, refs |-> refs]

--------------------------------------------------------------------------------
\* AuthSeeder: modules, permissions, roles with their permissions, and three accounts.

Action == <<"CREATE", "READ", "UPDATE", "DELETE">>

\* Modules with their children.
ModulesToSeed == <<
    <<"ADMIN", <<"ADMIN_LIST", "ADMIN_ROLE_PERMISSIONS">>>>,
    <<"SETTING", <<"SETTING_SMTP">>>>,
    <<"APPLICATION_USER", <<"APPLICATION_USER_LIST">>>>,
    <<"LOGS", <<"ACTIVITY_LOGS", "AUDIT_LOGS">>>>,
    <<"HOTELS", <<"HOTEL_LIST">>>>,
    <<"ROOMS", <<"ROOM_LIST">>>>,
    <<"ROOM_TYPES", <<"ROOM_TYPE_LIST">>>>,
    <<"RATE_OPTIONS", <<"RATE_OPTION_LIST">>>>,
    <<"BOOKINGS", <<"BOOKING_LIST">>>>,
    <<"PAYMENTS", <<"PAYMENT_LIST">>>>,
    <<"PROFILE", <<>>>> >>

Module(m) == <<"module", m>>

SeedModules == ForEach(ModulesToSeed, LAMBDA m :
    <<FindOrSave("modules", m[1], Module(m[1]), NoRefs)>>
    \o Each(m[2], LAMBDA c :
         FindOrSave("modules", c, Module(c), [parentId |-> Module(m[1])])))

\* A module follows its children.
CreatedModules == ForEach(ModulesToSeed, LAMBDA m : Append(m[2], m[1]))

Perm(m, a) == <<"permission", m, a>>

CreateModulePermissions == ForEach(CreatedModules, LAMBDA m :
    Each(Action, LAMBDA a :
        FindOrSave("permissions", a, Perm(m, a), [moduleId |-> Module(m)])))

ADMIN_ONLY_MODULES == {"ADMIN", "ADMIN_LIST", "ADMIN_ROLE_PERMISSIONS"}

CustomerModuleAccess(m) ==
    CASE m = "BOOKINGS" -> {"CREATE", "READ", "UPDATE"}
      [] m = "PAYMENTS" -> {"CREATE", "READ"}
      [] m = "PROFILE"  -> {"READ", "UPDATE"}
      [] m \in {"HOTELS", "HOTEL_LIST", "ROOMS", "ROOM_LIST", "ROOM_TYPES", "ROOM_TYPE_LIST",
                "RATE_OPTIONS", "RATE_OPTION_LIST", "BOOKING_LIST", "PAYMENT_LIST"} -> {"READ"}
      [] OTHER -> {}

\* What a role may do in a module.
RoleConfiguration(role, m) ==
    CASE role = "Super Admin" -> ToSet(Action)
      [] role = "Admin"       -> IF m \in ADMIN_ONLY_MODULES THEN {} ELSE ToSet(Action)
      [] role = "Customer"    -> CustomerModuleAccess(m)

SeededRole(role) == <<"role", role>>

SeedRoles == ForEach(<<"Super Admin", "Admin", "Customer">>, LAMBDA role :
    <<FindOrSave("roles", role, SeededRole(role), NoRefs)>>
    \o ForEach(CreatedModules, LAMBDA m :
         Each(SelectSeq(Action, LAMBDA a : a \in RoleConfiguration(role, m)), LAMBDA a :
             FindOrSave("rolePermissions", None, None,
                        [roleId |-> SeededRole(role), permissionId |-> Perm(m, a)]))))

SeedAccounts == <<
    FindOrSave("admins", "arkarmin@obs.com.mm", None, [roleId |-> SeededRole("Super Admin")]),
    FindOrSave("admins", "admin@obs.com.mm", None, [roleId |-> SeededRole("Admin")]),
    FindOrSave("users", "customer@obs.com.mm", None, [roleId |-> SeededRole("Customer")]) >>

--------------------------------------------------------------------------------
\* Hotels, and what every later seeder looks up first.

Yangon   == "Yangon Grand Palace Hotel"
Mandalay == "Mandalay Royal View Hotel"
Bagan    == "Bagan Heritage Resort"
Inle     == "Inle Lake Garden Hotel"
Ngapali  == "Ngapali Sunset Beach Hotel"

\* HotelSeeder takes the older of the two administrators; which one makes no difference here.
SeedHotels ==
    <<FindOne("admins", {"arkarmin@obs.com.mm", "admin@obs.com.mm"}, <<"admin">>, NoRefs)>>
    \o Each(<<Yangon, Mandalay, Bagan, Inle, Ngapali>>, LAMBDA h :
          FindOrSave("hotels", h, None, [createdBy |-> <<"admin">>]))

Hotel(h)            == <<"hotel", h>>
RoomType(h, t)      == <<"roomType", h, t>>
RateOption(h, t, o) == <<"rateOption", h, t, o>>

FindHotel(h) == <<FindOne("hotels", {h}, Hotel(h), NoRefs)>>

FindRoomType(h, t) ==
    Append(FindHotel(h), FindOne("roomTypes", {t}, RoomType(h, t), [hotelId |-> Hotel(h)]))

FindRateOption(h, t, o) ==
    Append(FindRoomType(h, t),
           FindOne("rateOptions", {o}, RateOption(h, t, o), [roomTypeId |-> RoomType(h, t)]))

--------------------------------------------------------------------------------
\* Room characteristics, room types and the links between them.

Characteristics == <<
    "Free Wi-Fi", "Wired Internet", "Air Conditioning", "Heating", "Ceiling Fan",
    "Private Bathroom", "Bathtub", "Walk-in Shower", "Hot Water", "Flat-screen TV",
    "Streaming Services", "Work Desk", "USB Charging Ports", "In-room Safe", "Smoke Detector",
    "Blackout Curtains", "Sea View", "Pool View", "City View", "Garden View",
    "Private Balcony", "Minibar", "Coffee & Tea Maker", "Refrigerator", "Microwave",
    "Accessible Room", "Non-smoking", "Pet Friendly">>

SeedCharacteristics == Each(Characteristics, LAMBDA c :
    FindOrSave("roomCharacteristics", c, None, NoRefs))

RoomTypes == <<
    <<Yangon,   <<"Standard Twin", "Deluxe King", "Executive Suite">>>>,
    <<Mandalay, <<"Superior Twin", "Deluxe Double", "Family Room">>>>,
    <<Bagan,    <<"Garden Cottage", "Temple View Villa", "Pool Villa">>>>,
    <<Inle,     <<"Garden View Room", "Lake View Room", "Over-water Bungalow">>>>,
    <<Ngapali,  <<"Beach Front Room", "Ocean Suite">>>> >>

SeedRoomTypes == ForEach(RoomTypes, LAMBDA h : ForEach(h[2], LAMBDA t :
    Append(FindHotel(h[1]), FindOrSave("roomTypes", t, None, [hotelId |-> Hotel(h[1])]))))

BASE == <<"Free Wi-Fi", "Air Conditioning", "Flat-screen TV", "Private Bathroom", "Hot Water",
          "In-room Safe", "Smoke Detector", "Non-smoking", "Blackout Curtains">>

YangonTypeMappings == <<
    <<Yangon, "Standard Twin", <<"Work Desk", "City View">>>>,
    <<Yangon, "Deluxe King",
      <<"Work Desk", "Coffee & Tea Maker", "Minibar", "City View", "Bathtub">>>>,
    <<Yangon, "Executive Suite",
      <<"Work Desk", "USB Charging Ports", "Coffee & Tea Maker", "Minibar", "Refrigerator",
        "City View", "Private Balcony", "Bathtub", "Walk-in Shower">>>> >>

MandalayTypeMappings == <<
    <<Mandalay, "Superior Twin", <<"Work Desk", "City View">>>>,
    <<Mandalay, "Deluxe Double",
      <<"Work Desk", "Coffee & Tea Maker", "Minibar", "City View", "Private Balcony", "Bathtub">>>>,
    <<Mandalay, "Family Room",
      <<"Work Desk", "Coffee & Tea Maker", "Refrigerator", "City View">>>> >>

BaganTypeMappings == <<
    <<Bagan, "Garden Cottage",
      <<"Coffee & Tea Maker", "Garden View", "Private Balcony", "Ceiling Fan">>>>,
    <<Bagan, "Temple View Villa",
      <<"Coffee & Tea Maker", "Minibar", "Garden View", "Private Balcony", "Bathtub",
        "Ceiling Fan">>>>,
    <<Bagan, "Pool Villa",
      <<"Coffee & Tea Maker", "Minibar", "Refrigerator", "Garden View", "Private Balcony",
        "Bathtub", "Walk-in Shower", "USB Charging Ports", "Pool View">>>> >>

InleTypeMappings == <<
    <<Inle, "Garden View Room", <<"Coffee & Tea Maker", "Garden View">>>>,
    <<Inle, "Lake View Room", <<"Coffee & Tea Maker", "Minibar", "Private Balcony">>>>,
    <<Inle, "Over-water Bungalow",
      <<"Coffee & Tea Maker", "Minibar", "Refrigerator", "Private Balcony", "Bathtub",
        "Walk-in Shower", "USB Charging Ports">>>> >>

NgapaliTypeMappings == <<
    <<Ngapali, "Beach Front Room",
      <<"Coffee & Tea Maker", "Minibar", "Sea View", "Private Balcony">>>>,
    <<Ngapali, "Ocean Suite",
      <<"Coffee & Tea Maker", "Minibar", "Refrigerator", "Sea View", "Private Balcony",
        "Bathtub", "Walk-in Shower", "USB Charging Ports", "Work Desk">>>> >>

TypeMappings ==
    YangonTypeMappings \o MandalayTypeMappings \o BaganTypeMappings
    \o InleTypeMappings \o NgapaliTypeMappings

SeedTypeCharacteristics == ForEach(TypeMappings, LAMBDA m :
    FindRoomType(m[1], m[2])
    \o ForEach(BASE \o m[3], LAMBDA c :
         <<FindOne("roomCharacteristics", {c}, <<"characteristic", c>>, NoRefs),
           FindOrSave("roomTypeCharacteristics", None, None,
                      [roomTypeId |-> RoomType(m[1], m[2]),
                       roomCharacteristicId |-> <<"characteristic", c>>])>>))

--------------------------------------------------------------------------------
\* Rooms.

YangonRooms == <<
    <<Yangon, "Standard Twin", <<"201", "202", "203", "204", "301", "302">>>>,
    <<Yangon, "Deluxe King", <<"501", "502", "503", "601", "602">>>>,
    <<Yangon, "Executive Suite", <<"1001", "1002">>>> >>

MandalayRooms == <<
    <<Mandalay, "Superior Twin", <<"101", "102", "103", "201", "202">>>>,
    <<Mandalay, "Deluxe Double", <<"301", "302", "303", "401">>>>,
    <<Mandalay, "Family Room", <<"501", "502">>>> >>

BaganRooms == <<
    <<Bagan, "Garden Cottage", <<"GC-01", "GC-02", "GC-03", "GC-04">>>>,
    <<Bagan, "Temple View Villa", <<"TV-01", "TV-02", "TV-03">>>>,
    <<Bagan, "Pool Villa", <<"PV-01", "PV-02">>>> >>

InleRooms == <<
    <<Inle, "Garden View Room", <<"101", "102", "103", "201">>>>,
    <<Inle, "Lake View Room", <<"301", "302", "303">>>>,
    <<Inle, "Over-water Bungalow", <<"OW-01", "OW-02", "OW-03">>>> >>

NgapaliRooms == <<
    <<Ngapali, "Beach Front Room", <<"BF-01", "BF-02", "BF-03">>>>,
    <<Ngapali, "Ocean Suite", <<"OS-01", "OS-02">>>> >>

Rooms ==
    YangonRooms \o MandalayRooms \o BaganRooms
    \o InleRooms \o NgapaliRooms

SeedRooms == ForEach(Rooms, LAMBDA r : ForEach(r[3], LAMBDA number :
    Append(FindRoomType(r[1], r[2]),
           FindOrSave("rooms", number, None,
                      [hotelId |-> Hotel(r[1]), roomTypeId |-> RoomType(r[1], r[2])]))))

--------------------------------------------------------------------------------
\* Benefits, rate options and the links between them.

Benefits == <<
    "Breakfast Included", "Half Board", "Full Board", "All Inclusive",
    "Airport Transfer (One-way)", "Airport Transfer (Return)", "Free Parking", "Spa Access",
    "Gym Access", "Pool Access", "Early Check-in", "Late Check-out", "Room Upgrade",
    "Welcome Amenity", "Turndown Service", "Daily Housekeeping", "Free Wi-Fi",
    "Loyalty Points", "Flexible Cancellation", "No Prepayment Required">>

SeedBenefits == Each(Benefits, LAMBDA b : FindOrSave("benefits", b, None, NoRefs))

YangonRateOptions == <<
    <<Yangon, "Standard Twin", <<"Room Only", "Non-Refundable">>>>,
    <<Yangon, "Deluxe King", <<"Bed & Breakfast", "Non-Refundable">>>>,
    <<Yangon, "Executive Suite", <<"Suite with Breakfast", "Non-Refundable Suite">>>> >>

MandalayRateOptions == <<
    <<Mandalay, "Superior Twin", <<"Room Only", "Non-Refundable">>>>,
    <<Mandalay, "Deluxe Double", <<"Bed & Breakfast", "Non-Refundable">>>>,
    <<Mandalay, "Family Room", <<"Family Bed & Breakfast">>>> >>

BaganRateOptions == <<
    <<Bagan, "Garden Cottage", <<"Cottage Only", "Non-Refundable">>>>,
    <<Bagan, "Temple View Villa", <<"Half Board", "Non-Refundable">>>>,
    <<Bagan, "Pool Villa", <<"All Inclusive", "Non-Refundable">>>> >>

InleRateOptions == <<
    <<Inle, "Garden View Room", <<"Room Only", "Non-Refundable">>>>,
    <<Inle, "Lake View Room", <<"Bed & Breakfast", "Non-Refundable">>>>,
    <<Inle, "Over-water Bungalow", <<"Half Board", "Non-Refundable">>>> >>

NgapaliRateOptions == <<
    <<Ngapali, "Beach Front Room", <<"Room Only", "Non-Refundable">>>>,
    <<Ngapali, "Ocean Suite", <<"All Inclusive", "Non-Refundable">>>> >>

RateOptions ==
    YangonRateOptions \o MandalayRateOptions \o BaganRateOptions
    \o InleRateOptions \o NgapaliRateOptions

SeedRateOptions == ForEach(RateOptions, LAMBDA r : ForEach(r[3], LAMBDA o :
    Append(FindRoomType(r[1], r[2]),
           FindOrSave("rateOptions", o, None, [roomTypeId |-> RoomType(r[1], r[2])]))))

YangonRateMappings == <<
    <<Yangon, "Standard Twin", "Room Only", <<"Flexible Cancellation">>>>,
    <<Yangon, "Standard Twin", "Non-Refundable", <<>>>>,
    <<Yangon, "Deluxe King", "Bed & Breakfast", <<"Breakfast Included", "Flexible Cancellation">>>>,
    <<Yangon, "Deluxe King", "Non-Refundable", <<"Breakfast Included">>>>,
    <<Yangon, "Executive Suite", "Suite with Breakfast",
      <<"Breakfast Included", "Welcome Amenity", "Room Upgrade", "Late Check-out",
        "Flexible Cancellation">>>>,
    <<Yangon, "Executive Suite", "Non-Refundable Suite",
      <<"Breakfast Included", "Welcome Amenity">>>> >>

MandalayRateMappings == <<
    <<Mandalay, "Superior Twin", "Room Only",
      <<"Flexible Cancellation", "No Prepayment Required">>>>,
    <<Mandalay, "Superior Twin", "Non-Refundable", <<>>>>,
    <<Mandalay, "Deluxe Double", "Bed & Breakfast",
      <<"Breakfast Included", "Flexible Cancellation">>>>,
    <<Mandalay, "Deluxe Double", "Non-Refundable", <<"Breakfast Included">>>>,
    <<Mandalay, "Family Room", "Family Bed & Breakfast",
      <<"Breakfast Included", "Flexible Cancellation", "Free Parking">>>> >>

BaganRateMappings == <<
    <<Bagan, "Garden Cottage", "Cottage Only",
      <<"Flexible Cancellation", "No Prepayment Required">>>>,
    <<Bagan, "Garden Cottage", "Non-Refundable", <<>>>>,
    <<Bagan, "Temple View Villa", "Half Board",
      <<"Breakfast Included", "Half Board", "Flexible Cancellation", "Daily Housekeeping">>>>,
    <<Bagan, "Temple View Villa", "Non-Refundable",
      <<"Breakfast Included", "Daily Housekeeping">>>>,
    <<Bagan, "Pool Villa", "All Inclusive",
      <<"All Inclusive", "Pool Access", "Spa Access", "Airport Transfer (Return)",
        "Welcome Amenity", "Late Check-out", "Early Check-in", "Flexible Cancellation",
        "Daily Housekeeping", "Turndown Service">>>>,
    <<Bagan, "Pool Villa", "Non-Refundable",
      <<"Breakfast Included", "Pool Access", "Welcome Amenity", "Daily Housekeeping">>>> >>

InleRateMappings == <<
    <<Inle, "Garden View Room", "Room Only",
      <<"Flexible Cancellation", "No Prepayment Required">>>>,
    <<Inle, "Garden View Room", "Non-Refundable", <<>>>>,
    <<Inle, "Lake View Room", "Bed & Breakfast",
      <<"Breakfast Included", "Flexible Cancellation">>>>,
    <<Inle, "Lake View Room", "Non-Refundable", <<"Breakfast Included">>>>,
    <<Inle, "Over-water Bungalow", "Half Board",
      <<"Half Board", "Airport Transfer (One-way)", "Welcome Amenity", "Turndown Service",
        "Flexible Cancellation", "Daily Housekeeping">>>>,
    <<Inle, "Over-water Bungalow", "Non-Refundable",
      <<"Breakfast Included", "Welcome Amenity", "Daily Housekeeping">>>> >>

NgapaliRateMappings == <<
    <<Ngapali, "Beach Front Room", "Room Only",
      <<"Flexible Cancellation", "No Prepayment Required", "Pool Access">>>>,
    <<Ngapali, "Beach Front Room", "Non-Refundable", <<"Pool Access">>>>,
    <<Ngapali, "Ocean Suite", "All Inclusive",
      <<"All Inclusive", "Pool Access", "Spa Access", "Gym Access", "Airport Transfer (Return)",
        "Welcome Amenity", "Room Upgrade", "Early Check-in", "Late Check-out",
        "Flexible Cancellation", "Daily Housekeeping", "Turndown Service">>>>,
    <<Ngapali, "Ocean Suite", "Non-Refundable",
      <<"Breakfast Included", "Pool Access", "Welcome Amenity", "Daily Housekeeping">>>> >>

RateMappings ==
    YangonRateMappings \o MandalayRateMappings \o BaganRateMappings
    \o InleRateMappings \o NgapaliRateMappings

\* Every rate option has "Free Wi-Fi", which is not repeated above.
SeedRateOptionBenefits == ForEach(RateMappings, LAMBDA m :
    FindRateOption(m[1], m[2], m[3])
    \o ForEach(<<"Free Wi-Fi">> \o m[4], LAMBDA b :
         <<FindOne("benefits", {b}, <<"benefit", b>>, NoRefs),
           FindOrSave("rateOptionBenefits", None, None,
                      [rateOptionId |-> RateOption(m[1], m[2], m[3]), benefitId |-> <<"benefit", b>>])>>))

--------------------------------------------------------------------------------
SmtpSettings == <<"smtp_host", "smtp_port", "smtp_secure", "smtp_username", "smtp_password",
                  "smtp_from_email", "smtp_from_name", "smtp_enabled">>

SeedSettings == Each(SmtpSettings, LAMBDA k : FindOrSave("settings", k, None, NoRefs))

\* runSeeders: the seeders one after the other.
RunSeeders ==
    SeedModules \o CreateModulePermissions \o SeedRoles \o SeedAccounts
    \o SeedHotels \o SeedCharacteristics \o SeedRoomTypes \o SeedTypeCharacteristics
    \o SeedRooms \o SeedBenefits \o SeedRateOptions \o SeedRateOptionBenefits \o SeedSettings
================================================================================
