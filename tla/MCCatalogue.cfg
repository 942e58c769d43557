CONSTANTS
    Slots = {s1, s2}
    Hotels = {h1, h2}
    Types = {t1, t2}
    Rooms = {r1, r2}
    Rates = {o1}
    Numbers = {n1, n2}
    Characteristics = {c1}
    Benefits = {b1}
    Unknown = Unknown
    None = None
    MaxFails = 1

SPECIFICATION Spec
SYMMETRY Symmetry

INVARIANTS TypeOK RoomsMatchTheirType BookedWithinHotel ReplacedWhenCalm

CONSTRAINTS
    OneTopic
    OneGone

PROPERTY BookedRateFits

CHECK_DEADLOCK FALSE
