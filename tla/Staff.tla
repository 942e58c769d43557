---------------------------------- MODULE Staff ----------------------------------
(***************************************************************************)
(* Roles and people together: who is given a role, who removes it, and     *)
(* what becomes of pictures.                                               *)
(***************************************************************************)
EXTENDS Pictures

Step(s) == RoleStep(s) \/ PersonStep(s) \/ RequestFails(s)

Next == \E s \in Slots : Step(s)

Spec == Init /\ [][Next]_vars

--------------------------------------------------------------------------------
PermissionSets == SUBSET Permissions

Request == [pc : {"idle", "commitNew", "writeRow", "deleteLinks", "deleting", "readLinks",
                  "insertLinks", "commit", "removeRole", "upload", "insert", "preload", "save",
                  "deleteObject", "softRemove"},
            id : People \cup {None}, name : Names \cup {None}, role : Roles \cup {None},
            set : {None} \cup PermissionSets,
            seen : PermissionSets, deleted : PermissionSets, inserted : PermissionSets,
            kind : {None, "ADMIN", "REGISTER", "BEGIN", "ENTER"},
            picture : Pictures \cup {Empty, Link}, old : Pictures \cup {Empty, Link},
            row : Person, next : {"idle", "insert", "preload", "save", "softRemove"}]

\* The shape of every row and every request in flight.
TypeOK ==
    /\ role \in [Roles -> Role]
    /\ perms \in [Roles -> PermissionSets] /\ asked \in [Roles -> PermissionSets]
    /\ person \in [People -> Person]
    /\ bucket \subseteq Pictures /\ stranded \subseteq Pictures
    /\ req \in [Slots -> Request]
    /\ bare \in BOOLEAN /\ calm \in BOOLEAN /\ fails \in 0..MaxFails

\* Whatever overlaps or dies, nobody sees a role between its old permissions and its new ones: a
\* step takes the last permission away from a role only if it commits a request that gives it
\* none (role.service.ts:171-177).
NeverStripped ==
    [][\A r \in Roles : perms[r] # {} /\ perms'[r] = {} => asked'[r] = {}]_vars

\* A role has exactly the permissions it was last given, even by requests that overlap, as long
\* as each of those also writes the row of the role, whose lock serialises them
\* (role.service.ts:159-177).
PermissionsAsAsked == ~bare => perms = asked

\* An admin who is there has a role that is there: the check of remove and the checks of the
\* admins' create and update are on two tables and nothing joins them (role.service.ts:202-218).
AssignedRoleLives ==
    \A p \in Admins : PersonLive(p) => RoleLive(person[p].role)

RolesLiveWhenCalm == calm => AssignedRoleLives

\* A person who is there, and is not being removed, has a picture that is in the bucket.
PictureIsThere ==
    \A p \in People :
        /\ PersonLive(p) /\ person[p].picture \in Pictures
        /\ \A s \in Slots : ~(req[s].id = p /\ req[s].pc \in {"deleteObject", "softRemove"})
        => person[p].picture \in bucket

\* Once nothing is in flight every object is the picture of somebody who is there.
NoOrphan ==
    (\A s \in Slots : req[s] = Idle) =>
        bucket \subseteq {person[p].picture : p \in {p \in People : PersonLive(p)}}

\* Without overlap, and with nothing lost half way, the bucket holds exactly the pictures of the
\* people who are there, and what was uploaded for users who could not be entered
\* (admin.service.ts:172-204, 218-222, user.service.ts:143-176, 190-196).
BucketMatches == calm /\ fails = 0 => PictureIsThere /\ (stranded = {} => NoOrphan)
--------------------------------------------------------------------------------
\* Why no role is stripped: the links of a role that its transactions mean to delete, or have
\* deleted, are nested in each other, since each found all that was committed.  Two transactions
\* cannot hold the same link, so only one of them has deleted any, and what it finds of those it
\* was given stays until it commits.
InRole == {"writeRow", "deleteLinks", "deleting", "readLinks", "insertLinks", "commit", "removeRole"}
Past   == {"readLinks", "insertLinks", "commit"}
Locked == {"deleteLinks", "deleting"} \cup Past
PersonAt == {"upload", "insert", "preload", "save", "deleteObject", "softRemove"}

Held(r) == IF r.pc = "deleting" THEN r.seen ELSE r.deleted

RequestFits(r) ==
    /\ r.pc \in InRole <=> r.role # None
    /\ r.deleted # {} => r.pc \in Past
    /\ r.inserted # {} => r.pc = "commit"
    /\ r.pc \in {"commitNew", "deleteLinks", "deleting", "readLinks", "insertLinks"} => r.set # None
    /\ r.pc \in {"commitNew", "writeRow"} => r.name # None
    /\ r.pc = "removeRole" => r.name = None /\ r.set = None
    /\ r.set = None => r.deleted = {} /\ r.inserted = {}
    /\ r.pc \in PersonAt => r.id # None \/ r.kind # None
    /\ r.kind # None => r.pc = "insert" \/ (r.pc = "upload" /\ r.next = "insert")
    /\ r.pc = "insert" => r.kind # None
    /\ r.pc = "upload" => r.next \in {"insert", "preload", "save"} /\ (r.next = "insert" => r.kind # None)
    /\ r.pc = "deleteObject" => r.next \in {"idle", "softRemove"}

SameRole(s, t) == s # t /\ req[s].role = req[t].role /\ req[s].role # None

LinksFit(s) ==
    LET r == req[s]
    IN  r.role # None =>
          /\ role[r.role].state # "NONE"
          /\ Held(r) \subseteq perms[r.role]
          /\ r.pc = "insertLinks" /\ r.deleted # {} => r.set \subseteq Visible(s) \cup r.seen
          /\ r.pc = "commit" /\ r.deleted # {} => r.set \subseteq Visible(s) \cup r.inserted

Nested(s, t) ==
    SameRole(s, t) =>
        /\ Held(req[s]) \subseteq Held(req[t]) \/ Held(req[t]) \subseteq Held(req[s])
        /\ req[s].deleted \cap req[t].deleted = {}

LinksInv ==
    /\ \A s \in Slots : RequestFits(req[s]) /\ LinksFit(s)
    /\ \A s, t \in Slots : Nested(s, t)

\* Why a role has what it was last given: of the transactions that write its row one is under
\* way at a time, and if no other gives it permissions, that one finds and deletes all links.
RowHeld(r) == r.name # None /\ r.pc \in Locked

OneHolder(s, t) == SameRole(s, t) => ~(RowHeld(req[s]) /\ RowHeld(req[t]))

BothNamed(s, t) ==
    SameRole(s, t) /\ GivesPermissions(req[s]) /\ GivesPermissions(req[t]) =>
        None \notin {req[s].name, req[t].name}

SeesAll(s) ==
    LET r == req[s]
    IN  GivesPermissions(r) =>
          /\ r.pc = "deleting" => r.seen = perms[r.role]
          /\ r.pc \in Past => r.deleted = perms[r.role]
          /\ r.pc = "insertLinks" => r.seen = r.set
          /\ r.pc = "commit" => r.inserted = r.set

GivenInv ==
    /\ \A s, t \in Slots : OneHolder(s, t)
    /\ ~bare => /\ \A s, t \in Slots : BothNamed(s, t)
                /\ \A s \in Slots : SeesAll(s)
                /\ perms = asked

\* Why admins keep a live role without overlap: what the one request in flight found is still so.
RoleThere(x) == x # None /\ RoleLive(x)

Knows(r) ==
    /\ r.pc = "removeRole" => Unassigned(r.role)
    /\ r.kind = "ADMIN" => RoleThere(r.row.role)
    /\ r.id \in Admins /\ r.pc \in {"upload", "preload"} => r.row.role = None \/ RoleThere(r.row.role)
    /\ r.id \in Admins /\ r.pc = "upload" => r.next # "save"
    /\ r.id \in Admins /\ r.pc = "save" => RoleThere(r.row.role)

AloneInv ==
    calm => /\ \A s, t \in Slots : req[s] # Idle /\ req[t] # Idle => s = t
            /\ \A s \in Slots : Knows(req[s])
            /\ \A p \in Admins : PersonLive(p) => RoleThere(person[p].role)

\* Why objects and pictures match without overlap or failure: a key belongs to one person, or to
\* the request that uploaded it or is to delete it.
Shown == {person[p].picture : p \in {p \in People : PersonLive(p)}}

Pending(r) ==
    IF r.pc \in {"insert", "preload", "save"} THEN {r.picture}
    ELSE IF r.pc = "deleteObject" THEN {r.old} ELSE {}

New(k) == k \in Pictures => k \in bucket /\ \A p \in People : person[p].picture # k

Changes(r) == PersonLive(r.id) /\ r.old = person[r.id].picture

Owns(r) ==
    /\ r.pc = "insert" => New(r.picture)
    /\ r.pc = "upload" /\ r.next # "insert" => Changes(r)
    /\ r.pc = "upload" /\ r.next = "save" => r.row.state = "LIVE"
    /\ r.pc \in {"preload", "save"} => Changes(r) /\ (r.picture = r.old \/ New(r.picture))
    /\ r.pc = "save" => r.row.picture = r.picture /\ r.row.state \in {"BEGUN", "LIVE"}
    /\ r.pc = "deleteObject" /\ r.next = "idle" /\ r.old \in Pictures => r.old \notin Shown
    /\ r.pc = "deleteObject" /\ r.next # "idle" => Changes(r) /\ r.next = "softRemove"
    /\ r.pc = "softRemove" => person[r.id].picture \notin bucket

Leaving(p) == \E s \in Slots : req[s].id = p /\ req[s].pc = "softRemove"

KeysApart ==
    \A p, q \in People :
        PersonLive(p) /\ PersonLive(q) /\ person[p].picture = person[q].picture =>
            p = q \/ person[p].picture \notin Pictures

ObjectsInv ==
    calm /\ fails = 0 =>
        /\ KeysApart
        /\ \A s \in Slots : Owns(req[s])
        /\ \A p \in People : PersonLive(p) /\ person[p].picture \in Pictures /\ ~Leaving(p) =>
              person[p].picture \in bucket
        /\ bucket \subseteq Shown \cup stranded \cup UNION {Pending(req[s]) : s \in Slots}

\* The inductive invariant behind NeverStripped, PermissionsAsAsked, RolesLiveWhenCalm and
\* BucketMatches.
StaffInv == TypeOK /\ LinksInv /\ GivenInv /\ AloneInv /\ ObjectsInv
================================================================================
