CONSTANTS
    Slots = {s1, s2}
    Roles = {r1, r2}
    Names = {n1, n2}
    Permissions = {p1, p2}
    Admins = {a1}
    Users = {u1, u2}
    Pictures = {k1, k2, k3}
    Empty = Empty
    Link = Link
    None = None
    MaxFails = 1

SPECIFICATION Spec
SYMMETRY Symmetry
CONSTRAINT OneTopic

INVARIANTS TypeOK PermissionsAsAsked RolesLiveWhenCalm BucketMatches

CHECK_DEADLOCK FALSE

PROPERTY NeverStripped
