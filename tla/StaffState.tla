------------------------------- MODULE StaffState -------------------------------
(***************************************************************************)
(* The state of the roles and of the people who have a picture: the tables *)
(* roles, role_permissions, admins and users, the S3 bucket, and the       *)
(* requests in flight.  What Accounts and Registration model of a person   *)
(* (password, stage, one-time codes) is left out, and so are the login     *)
(* keys: a save that the unique index on one refuses is a request that     *)
(* dies there.  The role of a user, always Customer, is left out too.      *)
(***************************************************************************)
EXTENDS Integers, FiniteSets

CONSTANTS
    Slots,          \* requests that may be in flight at the same time
    Roles, Names, Permissions,
    Admins, Users,  \* ids of rows that may be inserted
    Pictures,       \* keys of objects in the bucket
    Empty,          \* the empty picture
    Link,           \* a picture given as a URL that is no key of the bucket
    None,           \* no row, or a field that is not given
    MaxFails        \* bound: requests that may die half way, and calls of S3 that may fail

VARIABLES
    role,           \* rows of roles
    perms,          \* committed rows of role_permissions, by role
    person,         \* rows of admins and users
    bucket,         \* keys of the objects in the bucket
    req,            \* the request each slot is serving
    stranded,       \* history: objects uploaded for a user whom the database then refused
    asked,          \* history: the permissions last given to each role
    bare,           \* history: two requests gave one role permissions, not both with its row
    calm,           \* history: no two requests have overlapped
    fails           \* requests that died and calls of S3 that failed so far

roleTables == <<role, perms, asked>>
objects    == <<bucket, stranded>>
control    == <<bare, calm, fails>>
vars == <<roleTables, person, objects, req, control>>

People == Admins \cup Users

ASSUME StaffAssumption ==
    /\ Admins \cap Users = {}
    /\ {None, Empty, Link} \cap (Roles \cup Names \cup People \cup Pictures) = {}
    /\ Cardinality({None, Empty, Link}) = 3
    /\ \A ps \in SUBSET Permissions : ps # None
    /\ None \notin {"ADMIN", "REGISTER", "BEGIN", "ENTER"}
    /\ MaxFails \in Nat

\* A user whose registration is not complete is BEGUN; a row that is GONE is soft-deleted.
RowState == {"NONE", "BEGUN", "LIVE", "GONE"}
Role     == [state : RowState, name : Names \cup {None}]
Person   == [state : RowState, role : Roles \cup {None}, picture : Pictures \cup {Empty, Link}]

NoPerson == [state |-> "NONE", role |-> None, picture |-> Empty]

RoleLive(r)   == role[r].state = "LIVE"
PersonLive(p) == person[p].state \in {"BEGUN", "LIVE"}

Idle == [pc |-> "idle", id |-> None, name |-> None, role |-> None, set |-> None,
         seen |-> {}, deleted |-> {}, inserted |-> {},
         kind |-> None, picture |-> Empty, old |-> Empty, row |-> NoPerson, next |-> "idle"]

Init ==
    /\ role = [r \in Roles |-> [state |-> "NONE", name |-> None]]
    /\ perms = [r \in Roles |-> {}]
    /\ person = [p \in People |-> NoPerson]
    /\ bucket = {} /\ stranded = {}
    /\ req = [s \in Slots |-> Idle]
    /\ asked = [r \in Roles |-> {}]
    /\ bare = FALSE
    /\ calm = TRUE
    /\ fails = 0

GivesPermissions(r) == r.pc # "idle" /\ r.role # None /\ r.set # None

Start(s, r) ==
    /\ req[s] = Idle
    /\ req' = [req EXCEPT ![s] = r]
    /\ calm' = (calm /\ \A t \in Slots : req[t] = Idle)
    /\ bare' = (bare \/ /\ GivesPermissions(r)
                        /\ \E t \in Slots : /\ GivesPermissions(req[t]) /\ req[t].role = r.role
                                            /\ None \in {r.name, req[t].name})
    /\ UNCHANGED fails

Continue(s, r) == req' = [req EXCEPT ![s] = r] /\ UNCHANGED control
Goto(s, pc)    == Continue(s, [req[s] EXCEPT !.pc = pc])
Finish(s)      == Continue(s, Idle)

\* A request that dies leaves what it committed; its transaction is rolled back.
RequestFails(s) ==
    /\ req[s] # Idle
    /\ fails < MaxFails
    /\ fails' = fails + 1
    /\ req' = [req EXCEPT ![s] = Idle]
    /\ UNCHANGED <<roleTables, person, objects, bare, calm>>

\* A call of S3 that fails is logged and nothing more.
CallFails(s, r) ==
    /\ fails < MaxFails
    /\ fails' = fails + 1
    /\ req' = [req EXCEPT ![s] = r]
    /\ UNCHANGED <<objects, bare, calm>>
================================================================================
