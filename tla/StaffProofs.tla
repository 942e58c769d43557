------------------------------- MODULE StaffProofs -------------------------------
(***************************************************************************)
(* Staff for any number of requests, roles, permissions and people: types, *)
(* what transactions do to the permissions of a role, roles of admins, and *)
(* pictures.                                                               *)
(***************************************************************************)
EXTENDS Staff, TLAPS

--------------------------------------------------------------------------------
\* Types, and what a request has at each of its steps.

\* TypeOK without the requests.
TablesOK ==
    /\ role \in [Roles -> Role]
    /\ perms \in [Roles -> PermissionSets] /\ asked \in [Roles -> PermissionSets]
    /\ person \in [People -> Person]
    /\ bucket \subseteq Pictures /\ stranded \subseteq Pictures
    /\ bare \in BOOLEAN /\ calm \in BOOLEAN /\ fails \in 0..MaxFails

Shape == TypeOK /\ \A s \in Slots : RequestFits(req[s])

\* Slot s is at r now, and nobody else has moved.
Moves(s, r) == req' = [req EXCEPT ![s] = r]

LEMMA ShapeOf == Shape <=> TablesOK /\ req \in [Slots -> Request] /\ \A s \in Slots : RequestFits(req[s])
  BY DEF Shape, TypeOK, TablesOK

LEMMA Fits ==
    ASSUME Shape, NEW s \in Slots
    PROVE  req[s] \in Request /\ RequestFits(req[s])
  BY DEF Shape, TypeOK

\* A new or suspended request has the fields it is written with.
LEMMA IdleOK == Idle \in Request /\ RequestFits(Idle)
<1>1. /\ NoPerson \in Person
      /\ {} \in PermissionSets
  BY DEF NoPerson, Person, RowState, PermissionSets
<1>2. Idle \in Request
  BY <1>1 DEF Idle, Request
<1>3. RequestFits(Idle)
  BY DEF Idle, RequestFits, InRole, Past, PersonAt
<1> QED BY <1>2, <1>3

LEMMA Shaped ==
    ASSUME Shape, TablesOK', NEW s \in Slots, NEW r \in Request, RequestFits(r), Moves(s, r)
    PROVE  Shape' /\ req'[s] = r /\ \A t \in Slots \ {s} : req'[t] = req[t]
<1>1. req \in [Slots -> Request]
  BY ShapeOf
<1>2. req'[s] = r /\ \A t \in Slots \ {s} : req'[t] = req[t]
  BY <1>1 DEF Moves
<1>3. req' \in [Slots -> Request]
  BY <1>1 DEF Moves
<1>4. \A t \in Slots : RequestFits(req[t])'
  BY <1>2 DEF Shape, RequestFits
<1>5. TypeOK'
  BY <1>3 DEF TypeOK, TablesOK
<1> QED BY <1>2, <1>4, <1>5 DEF Shape

\* A request that leaves the tables alone.
LEMMA QuietlyShaped ==
    ASSUME Shape, NEW s \in Slots, NEW r \in Request, RequestFits(r), Start(s, r) \/ Continue(s, r),
           UNCHANGED <<roleTables, person, objects>>
    PROVE  Shape' /\ Moves(s, r) /\ TablesOK'
<1>1. Moves(s, r) /\ fails' = fails /\ calm' \in BOOLEAN /\ bare' \in BOOLEAN
  BY DEF Start, Continue, Moves, Shape, TypeOK, control
<1>2. TablesOK'
  BY <1>1 DEF Shape, TypeOK, TablesOK, roleTables, objects
<1> QED BY <1>1, <1>2, Shaped

\* What has happened to the request of a slot, apart from its fields.
OthersStay(s) == \A t \in Slots \ {s} : req'[t] = req[t]

\* A request that starts on a role.
StartsAt(r) ==
    /\ r \in Request /\ r.kind = None
    /\ r.seen = {} /\ r.deleted = {} /\ r.inserted = {}

LEMMA StartsOnRole ==
    ASSUME Shape, NEW s \in Slots, NEW r, StartsAt(r),
           r.pc \in {"commitNew", "writeRow", "deleteLinks", "removeRole"},
           r.role = None <=> r.pc = "commitNew",
           r.pc \in {"commitNew", "deleteLinks"} => r.set # None,
           r.pc \in {"commitNew", "writeRow"} => r.name # None,
           r.pc = "removeRole" => r.name = None /\ r.set = None,
           Start(s, r), UNCHANGED <<roleTables, person, objects>>
    PROVE  Shape' /\ OthersStay(s) /\ req'[s] = r /\ req[s] = Idle /\ fails' = fails
<1>1. RequestFits(r)
  BY DEF RequestFits, InRole, Past, PersonAt, StartsAt
<1>2. Shape' /\ Moves(s, r)
  BY <1>1, QuietlyShaped DEF StartsAt
<1>3. req'[s] = r /\ OthersStay(s)
  BY <1>2, ShapeOf DEF Moves, OthersStay
<1> QED BY <1>2, <1>3 DEF Start

LEMMA CreateRoleTo ==
    ASSUME Shape, NEW s \in Slots, CreateRole(s)
    PROVE  /\ Shape' /\ OthersStay(s) /\ req[s] = Idle
           /\ req'[s].pc = "commitNew" /\ req'[s].role = None
           /\ UNCHANGED <<roleTables, person, objects, fails>>
<1>1. PICK n \in Names, ps \in PermissionSets :
         Start(s, [Idle EXCEPT !.pc = "commitNew", !.name = n, !.set = ps])
  BY DEF CreateRole, PermissionSets
<1> DEFINE r == [Idle EXCEPT !.pc = "commitNew", !.name = n, !.set = ps]
<1>2. n # None /\ ps # None
  BY StaffAssumption DEF PermissionSets
<1>3. StartsAt(r)
  <2>1. r \in Request
    BY IdleOK DEF Request
  <2> QED BY <2>1 DEF StartsAt, Idle
<1>4. r.pc = "commitNew" /\ r.role = None /\ r.name = n /\ r.set = ps
  BY DEF Idle
<1>5. UNCHANGED <<roleTables, person, objects>>
  BY DEF CreateRole
<1> HIDE DEF r
<1> QED BY <1>1, <1>2, <1>3, <1>4, <1>5, StartsOnRole DEF r

LEMMA UpdateRoleTo ==
    ASSUME Shape, NEW s \in Slots, UpdateRole(s)
    PROVE  /\ Shape' /\ OthersStay(s) /\ req[s] = Idle
           /\ req'[s].pc \in {"writeRow", "deleteLinks"} /\ req'[s].role \in Roles
           /\ RoleLive(req'[s].role) /\ (req'[s].pc = "deleteLinks" => req'[s].name = None)
           /\ StartsAt(req'[s]) /\ Start(s, req'[s])
           /\ UNCHANGED <<roleTables, person, objects, fails>>
<1>1. PICK x \in Roles, n \in Names \cup {None}, ps \in PermissionSets \cup {None} :
         /\ RoleLive(x) /\ {n, ps} # {None}
         /\ Start(s, [Idle EXCEPT !.pc = IF n = None THEN "deleteLinks" ELSE "writeRow",
                                  !.role = x, !.name = n, !.set = ps])
  BY DEF UpdateRole, PermissionSets
<1> DEFINE pc == IF n = None THEN "deleteLinks" ELSE "writeRow"
           r == [Idle EXCEPT !.pc = pc, !.role = x, !.name = n, !.set = ps]
<1>p. pc \in {"deleteLinks", "writeRow"} /\ (pc = "deleteLinks" <=> n = None)
  OBVIOUS
<1>6. Start(s, r)
  BY <1>1
<1> HIDE DEF pc
<1>2. x # None /\ (n = None => ps # None)
  BY <1>1, StaffAssumption
<1>3. StartsAt(r)
  <2>1. r \in Request
    BY <1>p, IdleOK DEF Request
  <2> QED BY <2>1 DEF StartsAt, Idle
<1>4. r.pc = pc /\ r.role = x /\ r.name = n /\ r.set = ps
  BY DEF Idle
<1>5. UNCHANGED <<roleTables, person, objects>>
  BY DEF UpdateRole
<1> HIDE DEF r
<1>7. Shape' /\ OthersStay(s) /\ req'[s] = r /\ req[s] = Idle /\ fails' = fails
  BY <1>p, <1>2, <1>3, <1>4, <1>5, <1>6, StartsOnRole
<1> QED BY <1>p, <1>1, <1>3, <1>4, <1>5, <1>6, <1>7

LEMMA RemoveRoleTo ==
    ASSUME Shape, NEW s \in Slots, RemoveRole(s)
    PROVE  /\ Shape' /\ OthersStay(s) /\ req[s] = Idle /\ req'[s].pc = "removeRole"
           /\ req'[s].role \in Roles /\ RoleLive(req'[s].role) /\ Unassigned(req'[s].role)
           /\ StartsAt(req'[s]) /\ Start(s, req'[s])
           /\ UNCHANGED <<roleTables, person, objects, fails>>
<1>1. PICK x \in Roles : /\ RoleLive(x) /\ Unassigned(x)
                         /\ Start(s, [Idle EXCEPT !.pc = "removeRole", !.role = x])
  BY DEF RemoveRole
<1> DEFINE r == [Idle EXCEPT !.pc = "removeRole", !.role = x]
<1>2. x # None
  BY StaffAssumption
<1>3. StartsAt(r)
  <2>1. r \in Request
    BY IdleOK DEF Request
  <2> QED BY <2>1 DEF StartsAt, Idle
<1>4. r.pc = "removeRole" /\ r.role = x /\ r.name = None /\ r.set = None
  BY DEF Idle
<1>5. UNCHANGED <<roleTables, person, objects>>
  BY DEF RemoveRole
<1>6. Start(s, r)
  BY <1>1
<1> HIDE DEF r
<1>7. Shape' /\ OthersStay(s) /\ req'[s] = r /\ req[s] = Idle /\ fails' = fails
  BY <1>2, <1>3, <1>4, <1>5, <1>6, StartsOnRole
<1> QED BY <1>1, <1>3, <1>4, <1>5, <1>6, <1>7

--------------------------------------------------------------------------------
\* A suspended request that goes on.
LEMMA Continues ==
    ASSUME Shape, NEW s \in Slots, NEW r \in Request, RequestFits(r), Continue(s, r), TablesOK'
    PROVE  Shape' /\ OthersStay(s) /\ req'[s] = r
  BY Shaped DEF Continue, Moves, OthersStay

LEMMA Ends ==
    ASSUME Shape, NEW s \in Slots, Finish(s), TablesOK'
    PROVE  Shape' /\ OthersStay(s) /\ req'[s] = Idle
  BY IdleOK, Continues DEF Finish

LEMMA TablesStay ==
    ASSUME Shape, UNCHANGED <<roleTables, person, objects, control>>
    PROVE  TablesOK'
  BY DEF Shape, TypeOK, TablesOK, roleTables, objects, control

LEMMA WriteRowTo ==
    ASSUME Shape, NEW s \in Slots, WriteRow(s)
    PROVE  /\ Shape' /\ OthersStay(s) /\ req[s].pc = "writeRow"
           /\ req'[s].pc = IF req[s].set = None THEN "commit" ELSE "deleteLinks"
           /\ req'[s].role = req[s].role /\ req'[s].name = req[s].name /\ req'[s].set = req[s].set
           /\ req'[s].deleted = {} /\ req'[s].inserted = {}
<1>1. req[s] \in Request /\ RequestFits(req[s])
  BY Fits
<1> DEFINE pc == IF req[s].set = None THEN "commit" ELSE "deleteLinks"
           r == [req[s] EXCEPT !.pc = pc]
<1>2. pc \in {"commit", "deleteLinks"} /\ (pc = "commit" <=> req[s].set = None)
  OBVIOUS
<1>3. Continue(s, r) /\ UNCHANGED <<roleTables, person, objects, control>> /\ req[s].pc = "writeRow"
  BY DEF WriteRow, Goto, Continue
<1> HIDE DEF pc
<1>4. r \in Request
  BY <1>1, <1>2 DEF Request
<1>5. /\ r.pc = pc /\ r.role = req[s].role /\ r.name = req[s].name /\ r.set = req[s].set
      /\ r.deleted = req[s].deleted /\ r.inserted = req[s].inserted /\ r.kind = req[s].kind
  BY <1>1 DEF Request
<1> HIDE DEF r
<1>6. RequestFits(r) /\ r.deleted = {} /\ r.inserted = {}
  BY <1>1, <1>2, <1>3, <1>5 DEF RequestFits, InRole, Past, PersonAt
<1>7. Shape' /\ OthersStay(s) /\ req'[s] = r
  BY <1>3, <1>4, <1>6, TablesStay, Continues
<1> QED BY <1>3, <1>5, <1>6, <1>7 DEF pc

LEMMA DeleteLinksTo ==
    ASSUME Shape, NEW s \in Slots, DeleteLinks(s)
    PROVE  /\ Shape' /\ OthersStay(s) /\ req[s].pc = "deleteLinks" /\ req'[s].pc = "deleting"
           /\ req'[s].role = req[s].role /\ req'[s].name = req[s].name /\ req'[s].set = req[s].set
           /\ req'[s].seen = perms[req[s].role] /\ req'[s].deleted = {} /\ req'[s].inserted = {}
<1>1. req[s] \in Request /\ RequestFits(req[s]) /\ req[s].pc = "deleteLinks"
  BY Fits DEF DeleteLinks
<1> DEFINE r == [req[s] EXCEPT !.pc = "deleting", !.seen = perms[req[s].role]]
<1>2. Continue(s, r) /\ UNCHANGED <<roleTables, person, objects, control>>
  BY DEF DeleteLinks, Continue
<1>3. req[s].role \in Roles
  BY <1>1 DEF Request, RequestFits, InRole
<1>4. perms[req[s].role] \in PermissionSets
  BY <1>3 DEF Shape, TypeOK
<1>5. r \in Request
  BY <1>1, <1>4 DEF Request
<1>6. /\ r.pc = "deleting" /\ r.role = req[s].role /\ r.name = req[s].name /\ r.set = req[s].set
      /\ r.deleted = req[s].deleted /\ r.inserted = req[s].inserted /\ r.kind = req[s].kind
      /\ r.seen = perms[req[s].role]
  BY <1>1 DEF Request
<1> HIDE DEF r
<1>7. RequestFits(r) /\ r.deleted = {} /\ r.inserted = {}
  BY <1>1, <1>6 DEF RequestFits, InRole, Past, PersonAt
<1>8. Shape' /\ OthersStay(s) /\ req'[s] = r
  BY <1>2, <1>5, <1>7, TablesStay, Continues
<1> QED BY <1>1, <1>6, <1>7, <1>8

LEMMA DeletingTo ==
    ASSUME Shape, NEW s \in Slots, Deleting(s)
    PROVE  /\ Shape' /\ OthersStay(s) /\ req[s].pc = "deleting"
           /\ req'[s].pc = IF req[s].set = {} THEN "commit" ELSE "readLinks"
           /\ req'[s].role = req[s].role /\ req'[s].name = req[s].name /\ req'[s].set = req[s].set
           /\ req'[s].deleted = req[s].seen \cap perms[req[s].role] /\ req'[s].inserted = {}
<1>1. req[s] \in Request /\ RequestFits(req[s]) /\ req[s].pc = "deleting"
  BY Fits DEF Deleting
<1> DEFINE pc == IF req[s].set = {} THEN "commit" ELSE "readLinks"
           gone == req[s].seen \cap perms[req[s].role]
           r == [req[s] EXCEPT !.deleted = gone, !.seen = {}, !.pc = pc]
<1>2. pc \in {"commit", "readLinks"} /\ gone \in PermissionSets
  <2>1. req[s].seen \in PermissionSets
    BY <1>1 DEF Request
  <2> QED BY <2>1 DEF PermissionSets
<1>3. Continue(s, r) /\ UNCHANGED <<roleTables, person, objects, control>>
  BY DEF Deleting, Deleted, Continue
<1> HIDE DEF pc, gone
<1>4. r \in Request
  <2>1. {} \in PermissionSets
    BY DEF PermissionSets
  <2> QED BY <1>1, <1>2, <2>1 DEF Request
<1>5. /\ r.pc = pc /\ r.role = req[s].role /\ r.name = req[s].name /\ r.set = req[s].set
      /\ r.deleted = gone /\ r.inserted = req[s].inserted /\ r.kind = req[s].kind
  BY <1>1 DEF Request
<1> HIDE DEF r
<1>6. RequestFits(r) /\ r.inserted = {}
  BY <1>1, <1>2, <1>5 DEF RequestFits, InRole, Past, PersonAt
<1>7. Shape' /\ OthersStay(s) /\ req'[s] = r
  BY <1>3, <1>4, <1>6, TablesStay, Continues
<1> QED BY <1>1, <1>5, <1>6, <1>7 DEF pc, gone

LEMMA ReadLinksTo ==
    ASSUME Shape, NEW s \in Slots, ReadLinks(s)
    PROVE  /\ Shape' /\ OthersStay(s) /\ req[s].pc = "readLinks" /\ req'[s].pc = "insertLinks"
           /\ req'[s].role = req[s].role /\ req'[s].name = req[s].name /\ req'[s].set = req[s].set
           /\ req'[s].seen = req[s].set \ Visible(s)
           /\ req'[s].deleted = req[s].deleted /\ req'[s].inserted = {}
<1>1. req[s] \in Request /\ RequestFits(req[s]) /\ req[s].pc = "readLinks"
  BY Fits DEF ReadLinks
<1> DEFINE new == req[s].set \ Visible(s)
           r == [req[s] EXCEPT !.pc = "insertLinks", !.seen = new]
<1>2. new \in PermissionSets
  <2>1. req[s].set \in PermissionSets
    BY <1>1 DEF Request, RequestFits
  <2> QED BY <2>1 DEF PermissionSets
<1>3. Continue(s, r) /\ UNCHANGED <<roleTables, person, objects, control>>
  BY DEF ReadLinks, Continue
<1> HIDE DEF new
<1>4. r \in Request
  BY <1>1, <1>2 DEF Request
<1>5. /\ r.pc = "insertLinks" /\ r.role = req[s].role /\ r.name = req[s].name /\ r.set = req[s].set
      /\ r.deleted = req[s].deleted /\ r.inserted = req[s].inserted /\ r.kind = req[s].kind
      /\ r.seen = new
  BY <1>1 DEF Request
<1> HIDE DEF r
<1>6. RequestFits(r) /\ r.inserted = {}
  BY <1>1, <1>5 DEF RequestFits, InRole, Past, PersonAt
<1>7. Shape' /\ OthersStay(s) /\ req'[s] = r
  BY <1>3, <1>4, <1>6, TablesStay, Continues
<1> QED BY <1>1, <1>5, <1>6, <1>7 DEF new

LEMMA InsertLinksTo ==
    ASSUME Shape, NEW s \in Slots, InsertLinks(s)
    PROVE  /\ Shape' /\ OthersStay(s) /\ req[s].pc = "insertLinks"
           /\ \/ req'[s] = Idle
              \/ /\ req'[s].pc = "commit"
                 /\ req'[s].role = req[s].role /\ req'[s].name = req[s].name
                 /\ req'[s].set = req[s].set
                 /\ req'[s].deleted = req[s].deleted /\ req'[s].inserted = req[s].seen
<1>1. req[s] \in Request /\ RequestFits(req[s]) /\ req[s].pc = "insertLinks"
  BY Fits DEF InsertLinks
<1>2. UNCHANGED <<roleTables, person, objects, control>> /\ TablesOK'
  BY TablesStay DEF InsertLinks, Finish, Continue
<1>3. CASE Finish(s)
  BY <1>1, <1>2, <1>3, Ends
<1> DEFINE r == [req[s] EXCEPT !.pc = "commit", !.inserted = req[s].seen, !.seen = {}]
<1>4. CASE Continue(s, r)
  <2>1. r \in Request
    <3>1. {} \in PermissionSets
      BY DEF PermissionSets
    <3> QED BY <1>1, <3>1 DEF Request
  <2>2. /\ r.pc = "commit" /\ r.role = req[s].role /\ r.name = req[s].name /\ r.set = req[s].set
        /\ r.deleted = req[s].deleted /\ r.inserted = req[s].seen /\ r.kind = req[s].kind
    BY <1>1 DEF Request
  <2> HIDE DEF r
  <2>3. RequestFits(r)
    BY <1>1, <2>2 DEF RequestFits, InRole, Past, PersonAt
  <2>4. Shape' /\ OthersStay(s) /\ req'[s] = r
    BY <1>2, <1>4, <2>1, <2>3, Continues
  <2> QED BY <1>1, <2>2, <2>4
<1> QED BY <1>3, <1>4 DEF InsertLinks

LEMMA RoleRemoveTo ==
    ASSUME Shape, NEW s \in Slots, RoleRemove(s)
    PROVE  /\ Shape' /\ OthersStay(s) /\ req[s].pc = "removeRole" /\ req'[s] = Idle
           /\ role' = [role EXCEPT ![req[s].role].state = "GONE"]
           /\ UNCHANGED <<perms, asked, person, objects, control>>
<1>1. Finish(s) /\ UNCHANGED <<perms, asked, person, objects, control>> /\ req[s].pc = "removeRole"
  BY DEF RoleRemove, Finish, Continue
<1>2. role' = [role EXCEPT ![req[s].role].state = "GONE"]
  BY DEF RoleRemove
<1>3. req[s].role \in Roles
  BY <1>1, Fits DEF Request, RequestFits, InRole
<1>4. role' \in [Roles -> Role]
  BY <1>2, <1>3 DEF Shape, TypeOK, Role, RowState
<1>5. TablesOK'
  BY <1>1, <1>4 DEF Shape, TypeOK, TablesOK, objects, control
<1> QED BY <1>1, <1>2, <1>5, Ends

LEMMA CommitNewTo ==
    ASSUME Shape, NEW s \in Slots, CommitNew(s)
    PROVE  /\ Shape' /\ OthersStay(s) /\ req[s].pc = "commitNew" /\ req'[s] = Idle
           /\ \E x \in Roles : /\ role[x].state = "NONE"
                               /\ role' = [role EXCEPT ![x] = [state |-> "LIVE", name |-> req[s].name]]
                               /\ perms' = [perms EXCEPT ![x] = req[s].set]
                               /\ asked' = [asked EXCEPT ![x] = req[s].set]
           /\ UNCHANGED <<person, objects, control>>
<1>1. Finish(s) /\ UNCHANGED <<person, objects, control>> /\ req[s].pc = "commitNew"
  BY DEF CommitNew, Finish, Continue
<1>2. PICK x \in Roles : /\ role[x].state = "NONE"
                         /\ role' = [role EXCEPT ![x] = [state |-> "LIVE", name |-> req[s].name]]
                         /\ perms' = [perms EXCEPT ![x] = req[s].set]
                         /\ asked' = [asked EXCEPT ![x] = req[s].set]
  BY DEF CommitNew
<1>3. req[s].name \in Names /\ req[s].set \in PermissionSets
  BY <1>1, Fits DEF Request, RequestFits
<1>4. role' \in [Roles -> Role]
  BY <1>2, <1>3 DEF Shape, TypeOK, Role, RowState
<1>5. perms' \in [Roles -> PermissionSets] /\ asked' \in [Roles -> PermissionSets]
  BY <1>2, <1>3 DEF Shape, TypeOK
<1>6. TablesOK'
  BY <1>1, <1>4, <1>5 DEF Shape, TypeOK, TablesOK, objects, control
<1> QED BY <1>1, <1>2, <1>6, Ends

\* What a commit does to a transaction whose delete was waiting.
Woken(t, gone) == [req[t] EXCEPT !.seen = @ \ gone]

LEMMA WokenFits ==
    ASSUME Shape, NEW t \in Slots, NEW gone, req[t].pc = "deleting"
    PROVE  /\ Woken(t, gone) \in Request /\ RequestFits(Woken(t, gone))
           /\ Woken(t, gone).pc = "deleting" /\ Woken(t, gone).role = req[t].role
           /\ Woken(t, gone).name = req[t].name /\ Woken(t, gone).set = req[t].set
           /\ Woken(t, gone).deleted = req[t].deleted /\ Woken(t, gone).inserted = req[t].inserted
           /\ Woken(t, gone).seen = req[t].seen \ gone /\ Woken(t, gone) # Idle
<1>1. req[t] \in Request /\ RequestFits(req[t])
  BY Fits
<1> DEFINE r == Woken(t, gone)
<1>2. req[t].seen \ gone \in PermissionSets
  <2>1. req[t].seen \in PermissionSets
    BY <1>1 DEF Request
  <2> QED BY <2>1 DEF PermissionSets
<1>3. r \in Request
  BY <1>1, <1>2 DEF Request, Woken
<1>4. /\ r.pc = "deleting" /\ r.role = req[t].role /\ r.name = req[t].name /\ r.set = req[t].set
      /\ r.deleted = req[t].deleted /\ r.inserted = req[t].inserted
      /\ r.seen = req[t].seen \ gone /\ r.kind = req[t].kind
  BY <1>1 DEF Request, Woken
<1> HIDE DEF r
<1>5. RequestFits(r)
  BY <1>1, <1>4 DEF RequestFits, InRole, Past, PersonAt
<1>6. r # Idle
  BY <1>4 DEF Idle
<1> QED BY <1>3, <1>4, <1>5, <1>6 DEF r

LEMMA CommitTo ==
    ASSUME Shape, NEW s \in Slots, Commit(s)
    PROVE  /\ Shape' /\ req[s].pc = "commit" /\ req[s].role \in Roles /\ req'[s] = Idle
           /\ \A t \in Slots \ {s} :
                 IF req[t].role = req[s].role /\ req[t].pc = "deleting"
                 THEN req'[t] = Woken(t, req[s].deleted) ELSE req'[t] = req[t]
           /\ role' = [role EXCEPT ![req[s].role].name = IF req[s].name = None THEN @ ELSE req[s].name]
           /\ perms' = [perms EXCEPT ![req[s].role] = Visible(s) \cup req[s].inserted]
           /\ asked' = [asked EXCEPT ![req[s].role] = IF req[s].set = None THEN @ ELSE req[s].set]
           /\ UNCHANGED <<person, objects, control>>
<1>1. /\ req[s].pc = "commit" /\ UNCHANGED <<person, objects, control>>
      /\ role' = [role EXCEPT ![req[s].role].name = IF req[s].name = None THEN @ ELSE req[s].name]
      /\ perms' = [perms EXCEPT ![req[s].role] = Visible(s) \cup req[s].inserted]
      /\ asked' = [asked EXCEPT ![req[s].role] = IF req[s].set = None THEN @ ELSE req[s].set]
      /\ req' = [t \in Slots |-> IF t = s THEN Idle
                                 ELSE IF req[t].role = req[s].role /\ req[t].pc = "deleting"
                                 THEN Woken(t, req[s].deleted) ELSE req[t]]
  BY DEF Commit, Woken
<1>2. req[s] \in Request /\ RequestFits(req[s])
  BY Fits
<1>3. req[s].role \in Roles
  BY <1>1, <1>2 DEF Request, RequestFits, InRole
<1>4. \A t \in Slots \ {s} :
         IF req[t].role = req[s].role /\ req[t].pc = "deleting"
         THEN req'[t] = Woken(t, req[s].deleted) ELSE req'[t] = req[t]
  BY <1>1
<1>5. req'[s] = Idle
  BY <1>1
<1>6. \A t \in Slots : req'[t] \in Request /\ RequestFits(req'[t])
  <2> TAKE t \in Slots
  <2>1. CASE t = s
    BY <2>1, <1>5, IdleOK
  <2>2. CASE t # s /\ req[t].role = req[s].role /\ req[t].pc = "deleting"
    BY <2>2, <1>4, WokenFits
  <2>3. CASE t # s /\ ~(req[t].role = req[s].role /\ req[t].pc = "deleting")
    BY <2>3, <1>4, Fits
  <2> QED BY <2>1, <2>2, <2>3
<1>7. req' \in [Slots -> Request]
  <2>1. req' = [t \in Slots |-> req'[t]]
    BY <1>1
  <2> QED BY <2>1, <1>6
<1>8. role' \in [Roles -> Role]
  <2>1. [role[req[s].role] EXCEPT !.name = IF req[s].name = None THEN @ ELSE req[s].name] \in Role
    <3>1. role[req[s].role] \in Role /\ req[s].name \in Names \cup {None}
      BY <1>2, <1>3 DEF Shape, TypeOK, Request
    <3>2. CASE req[s].name = None
      BY <3>1, <3>2 DEF Role
    <3>3. CASE req[s].name # None
      BY <3>1, <3>3 DEF Role
    <3> QED BY <3>2, <3>3
  <2> QED BY <1>1, <1>3, <2>1 DEF Shape, TypeOK
<1>9. perms' \in [Roles -> PermissionSets] /\ asked' \in [Roles -> PermissionSets]
  <2>1. Visible(s) \cup req[s].inserted \in PermissionSets
    <3>1. perms[req[s].role] \in PermissionSets /\ req[s].inserted \in PermissionSets
      BY <1>2, <1>3 DEF Shape, TypeOK, Request
    <3> QED BY <3>1 DEF PermissionSets, Visible
  <2>2. req[s].set = None \/ req[s].set \in PermissionSets
    BY <1>2 DEF Request
  <2> QED BY <1>1, <1>3, <2>1, <2>2 DEF Shape, TypeOK
<1>10. TablesOK'
  BY <1>1, <1>8, <1>9 DEF Shape, TypeOK, TablesOK, objects, control
<1>11. Shape'
  <2>1. TypeOK'
    BY <1>7, <1>10 DEF TypeOK, TablesOK
  <2>2. \A t \in Slots : RequestFits(req[t])'
    BY <1>6 DEF RequestFits
  <2> QED BY <2>1, <2>2 DEF Shape
<1> QED BY <1>1, <1>3, <1>4, <1>5, <1>11

LEMMA RequestFailsTo ==
    ASSUME Shape, NEW s \in Slots, RequestFails(s)
    PROVE  /\ Shape' /\ OthersStay(s) /\ req'[s] = Idle /\ fails' > 0
           /\ UNCHANGED <<roleTables, person, objects, bare, calm>>
<1>1. /\ UNCHANGED <<roleTables, person, objects, bare, calm>> /\ Moves(s, Idle)
      /\ fails' = fails + 1 /\ fails < MaxFails
  BY DEF RequestFails, Moves
<1>2. fails \in 0..MaxFails /\ MaxFails \in Nat
  BY StaffAssumption DEF Shape, TypeOK
<1>3. fails' \in 0..MaxFails /\ fails' > 0
  BY <1>1, <1>2
<1>4. TablesOK'
  BY <1>1, <1>3 DEF Shape, TypeOK, TablesOK, roleTables, objects
<1> QED BY <1>1, <1>3, <1>4, IdleOK, Shaped DEF OthersStay

--------------------------------------------------------------------------------
\* Requests about people: nothing of the roles moves, and s is not about one.
PersonFits(r) ==
    /\ r \in Request /\ r.pc \in PersonAt /\ r.role = None /\ r.deleted = {} /\ r.inserted = {}
    /\ r.id # None \/ r.kind # None
    /\ r.kind # None => r.pc = "insert" \/ (r.pc = "upload" /\ r.next = "insert")
    /\ r.pc = "insert" => r.kind # None
    /\ r.pc = "upload" => r.next \in {"insert", "preload", "save"} /\ (r.next = "insert" => r.kind # None)
    /\ r.pc = "deleteObject" => r.next \in {"idle", "softRemove"}

Bystands(s) ==
    /\ Shape' /\ OthersStay(s) /\ req[s].role = None /\ req'[s].role = None
    /\ bare' = bare /\ UNCHANGED roleTables

LEMMA PersonFitsToo ==
    ASSUME NEW r, PersonFits(r)
    PROVE  RequestFits(r)
  BY DEF PersonFits, PersonAt, RequestFits, InRole, Past

LEMMA StartsOnPerson ==
    ASSUME Shape, NEW s \in Slots, NEW r, PersonFits(r), Start(s, r),
           UNCHANGED <<roleTables, person, objects>>
    PROVE  Bystands(s) /\ req'[s] = r /\ req[s] = Idle /\ fails' = fails
<1>1. r \in Request /\ RequestFits(r) /\ r.role = None
  BY PersonFitsToo DEF PersonFits
<1>2. Shape' /\ Moves(s, r)
  BY <1>1, QuietlyShaped
<1>3. req'[s] = r /\ OthersStay(s) /\ req[s] = Idle
  BY <1>2, ShapeOf DEF Moves, OthersStay, Start
<1>4. ~GivesPermissions(r)
  BY <1>1 DEF GivesPermissions
<1>5. bare' = bare /\ fails' = fails
  BY <1>4 DEF Start, Shape, TypeOK
<1>6. Idle.role = None
  BY DEF Idle
<1> QED BY <1>1, <1>2, <1>3, <1>5, <1>6 DEF Bystands

LEMMA PersonGoesOn ==
    ASSUME Shape, NEW s \in Slots, NEW r, r = Idle \/ PersonFits(r), req[s].pc \in PersonAt,
           Continue(s, r) \/ CallFails(s, r), TablesOK', UNCHANGED roleTables
    PROVE  Bystands(s) /\ req'[s] = r
<1>1. r \in Request /\ RequestFits(r) /\ r.role = None
  <2>1. Idle.role = None
    BY DEF Idle
  <2> QED BY <2>1, PersonFitsToo, IdleOK DEF PersonFits
<1>2. Moves(s, r) /\ bare' = bare
  BY DEF Continue, CallFails, Moves, control
<1>3. Shape' /\ OthersStay(s) /\ req'[s] = r
  BY <1>1, <1>2, Shaped DEF OthersStay
<1>4. req[s].role = None
  BY Fits DEF RequestFits, InRole, PersonAt
<1> QED BY <1>1, <1>2, <1>3, <1>4 DEF Bystands

\* The start of a request about a person, field by field.
Begins(s, pc, id, kind, picture, old, row, next) ==
    /\ req[s] = Idle /\ fails' = fails /\ UNCHANGED <<person, objects>>
    /\ req'[s].pc = pc /\ req'[s].id = id /\ req'[s].kind = kind /\ req'[s].picture = picture
    /\ req'[s].old = old /\ req'[s].row = row /\ req'[s].next = next

LEMMA Picture ==
    /\ \A url \in Given : \A k \in Pictures \cup {Empty, Link} :
          Resolved(url, k) \in Pictures \cup {Empty, Link}
    /\ \A p \in People : Shape => /\ person[p] \in Person
                                  /\ person[p].picture \in Pictures \cup {Empty, Link}
  BY DEF Given, Resolved, Shape, TypeOK, Person

LEMMA CreateAdminTo ==
    ASSUME Shape, NEW s \in Slots, CreateAdmin(s)
    PROVE  /\ Bystands(s)
           /\ \E x \in Roles, pc \in {"upload", "insert"}, k \in {Empty, Link} :
                /\ RoleLive(x)
                /\ Begins(s, pc, None, "ADMIN", k, Empty, [NoPerson EXCEPT !.role = x], "insert")
<1>1. PICK x \in Roles, file \in BOOLEAN, url \in Given :
         /\ RoleLive(x)
         /\ Start(s, [Idle EXCEPT !.pc = IF file THEN "upload" ELSE "insert", !.next = "insert",
                                  !.kind = "ADMIN", !.row.role = x,
                                  !.picture = IF file THEN Empty ELSE Resolved(url, Empty)])
  BY DEF CreateAdmin
<1> DEFINE pc == IF file THEN "upload" ELSE "insert"
           k == IF file THEN Empty ELSE Resolved(url, Empty)
           row == [NoPerson EXCEPT !.role = x]
           r == [Idle EXCEPT !.pc = pc, !.next = "insert", !.kind = "ADMIN", !.row.role = x, !.picture = k]
<1>2. pc \in {"upload", "insert"} /\ k \in {Empty, Link}
  BY DEF Given, Resolved
<1>3. Start(s, r)
  BY <1>1
<1> HIDE DEF pc, k
<1>4. row \in Person
  BY DEF Person, NoPerson, RowState
<1>5. r = [Idle EXCEPT !.pc = pc, !.next = "insert", !.kind = "ADMIN", !.row = row, !.picture = k]
  BY DEF Idle
<1> HIDE DEF row
<1>6. r \in Request
  <2> HIDE DEF r
  <2> DEFINE q == [Idle EXCEPT !.pc = pc, !.next = "insert", !.kind = "ADMIN", !.row = row, !.picture = k]
  <2>1. q \in Request
    BY <1>2, <1>4, IdleOK DEF Request
  <2> QED BY <1>5, <2>1
<1>7. /\ r.pc = pc /\ r.id = None /\ r.role = None /\ r.deleted = {} /\ r.inserted = {}
      /\ r.kind = "ADMIN" /\ r.picture = k /\ r.old = Empty /\ r.row = row /\ r.next = "insert"
  BY <1>5 DEF Idle
<1> HIDE DEF r
<1>8. PersonFits(r)
  <2>1. "ADMIN" # None
    BY StaffAssumption
  <2> QED BY <1>2, <1>6, <1>7, <2>1 DEF PersonFits, PersonAt
<1>9. UNCHANGED <<roleTables, person, objects>>
  BY DEF CreateAdmin
<1>10. Bystands(s) /\ req'[s] = r /\ req[s] = Idle /\ fails' = fails
  BY <1>3, <1>8, <1>9, StartsOnPerson
<1>11. Begins(s, pc, None, "ADMIN", k, Empty, row, "insert")
  BY <1>7, <1>9, <1>10 DEF Begins
<1> QED BY <1>1, <1>2, <1>10, <1>11 DEF row

LEMMA CreateUserTo ==
    ASSUME Shape, NEW s \in Slots, CreateUser(s)
    PROVE  /\ Bystands(s)
           /\ \E pc \in {"upload", "insert"}, kind \in {"REGISTER", "BEGIN", "ENTER"}, k \in {Empty, Link} :
                Begins(s, pc, None, kind, k, Empty, NoPerson, "insert")
<1>1. PICK kind \in {"REGISTER", "BEGIN", "ENTER"}, file \in BOOLEAN, url \in Given :
         Start(s, [Idle EXCEPT !.pc = IF file THEN "upload" ELSE "insert", !.next = "insert",
                               !.kind = kind, !.picture = Resolved(url, Empty)])
  BY DEF CreateUser
<1> DEFINE pc == IF file THEN "upload" ELSE "insert"
           k == Resolved(url, Empty)
           r == [Idle EXCEPT !.pc = pc, !.next = "insert", !.kind = kind, !.picture = k]
<1>2. pc \in {"upload", "insert"} /\ k \in {Empty, Link}
  BY DEF Given, Resolved
<1>3. Start(s, r)
  BY <1>1
<1> HIDE DEF pc, k
<1>6. r \in Request
  BY <1>2, IdleOK DEF Request
<1>7. /\ r.pc = pc /\ r.id = None /\ r.role = None /\ r.deleted = {} /\ r.inserted = {}
      /\ r.kind = kind /\ r.picture = k /\ r.old = Empty /\ r.row = NoPerson /\ r.next = "insert"
  BY DEF Idle
<1> HIDE DEF r
<1>8. PersonFits(r)
  <2>1. kind # None
    BY StaffAssumption
  <2> QED BY <1>2, <1>6, <1>7, <2>1 DEF PersonFits, PersonAt
<1>9. UNCHANGED <<roleTables, person, objects>>
  BY DEF CreateUser
<1>10. Bystands(s) /\ req'[s] = r /\ req[s] = Idle /\ fails' = fails
  BY <1>3, <1>8, <1>9, StartsOnPerson
<1>11. Begins(s, pc, None, kind, k, Empty, NoPerson, "insert")
  BY <1>7, <1>9, <1>10 DEF Begins
<1> QED BY <1>2, <1>10, <1>11

LEMMA UpdatePersonTo ==
    ASSUME Shape, NEW s \in Slots, UpdatePerson(s)
    PROVE  /\ Bystands(s)
           /\ \E p \in People, x \in Roles \cup {None}, pc \in {"upload", "preload"} :
              \E k \in {person[p].picture, Empty, Link} :
                /\ PersonLive(p) /\ (x \notin {None, person[p].role} => RoleLive(x))
                /\ Begins(s, pc, p, None, k, person[p].picture, [NoPerson EXCEPT !.role = x], "preload")
<1>1. PICK p \in People, x \in Roles \cup {None}, file \in BOOLEAN, url \in Given :
         /\ PersonLive(p) /\ (x \notin {None, person[p].role} => RoleLive(x))
         /\ Start(s, [Idle EXCEPT !.pc = IF file THEN "upload" ELSE "preload", !.next = "preload",
                                  !.id = p, !.row.role = x, !.old = person[p].picture,
                                  !.picture = IF file THEN person[p].picture
                                              ELSE Resolved(url, person[p].picture)])
  BY DEF UpdatePerson
<1> DEFINE pc == IF file THEN "upload" ELSE "preload"
           k == IF file THEN person[p].picture ELSE Resolved(url, person[p].picture)
           row == [NoPerson EXCEPT !.role = x]
           r == [Idle EXCEPT !.pc = pc, !.next = "preload", !.id = p, !.row.role = x,
                             !.old = person[p].picture, !.picture = k]
<1>2. pc \in {"upload", "preload"} /\ k \in {person[p].picture, Empty, Link}
  BY DEF Given, Resolved
<1>3. Start(s, r)
  BY <1>1
<1> HIDE DEF pc, k
<1>4. row \in Person
  BY DEF Person, NoPerson, RowState
<1>5. r = [Idle EXCEPT !.pc = pc, !.next = "preload", !.id = p, !.row = row,
                       !.old = person[p].picture, !.picture = k]
  BY DEF Idle
<1> HIDE DEF row
<1>6. r \in Request
  <2> HIDE DEF r
  <2> DEFINE q == [Idle EXCEPT !.pc = pc, !.next = "preload", !.id = p, !.row = row,
                               !.old = person[p].picture, !.picture = k]
  <2>1. person[p].picture \in Pictures \cup {Empty, Link} /\ k \in Pictures \cup {Empty, Link}
    BY <1>2, Picture
  <2>2. q \in Request
    BY <1>2, <1>4, <2>1, IdleOK DEF Request
  <2> QED BY <1>5, <2>2
<1>7. /\ r.pc = pc /\ r.id = p /\ r.role = None /\ r.deleted = {} /\ r.inserted = {}
      /\ r.kind = None /\ r.picture = k /\ r.old = person[p].picture /\ r.row = row /\ r.next = "preload"
  BY <1>5 DEF Idle
<1> HIDE DEF r
<1>8. PersonFits(r)
  BY <1>2, <1>6, <1>7, StaffAssumption DEF PersonFits, PersonAt
<1>9. UNCHANGED <<roleTables, person, objects>>
  BY DEF UpdatePerson
<1>10. Bystands(s) /\ req'[s] = r /\ req[s] = Idle /\ fails' = fails
  BY <1>3, <1>8, <1>9, StartsOnPerson
<1>11. Begins(s, pc, p, None, k, person[p].picture, row, "preload")
  BY <1>7, <1>9, <1>10 DEF Begins
<1> QED BY <1>1, <1>2, <1>10, <1>11 DEF row

LEMMA SetUpAccountTo ==
    ASSUME Shape, NEW s \in Slots, SetUpAccount(s)
    PROVE  /\ Bystands(s)
           /\ \E p \in Users, pc \in {"upload", "save"} : \E k \in {person[p].picture, Empty, Link} :
                /\ person[p].state = "BEGUN"
                /\ Begins(s, pc, p, None, k, person[p].picture,
                          [state |-> "LIVE", role |-> None, picture |-> k], "save")
<1>1. PICK p \in Users, file \in BOOLEAN, url \in Given :
         /\ person[p].state = "BEGUN"
         /\ LET picture == IF file THEN person[p].picture ELSE Resolved(url, person[p].picture)
            IN  Start(s, [Idle EXCEPT !.pc = IF file THEN "upload" ELSE "save", !.next = "save",
                                      !.id = p, !.old = person[p].picture, !.picture = picture,
                                      !.row = [state |-> "LIVE", role |-> None, picture |-> picture]])
  BY DEF SetUpAccount
<1> DEFINE pc == IF file THEN "upload" ELSE "save"
           k == IF file THEN person[p].picture ELSE Resolved(url, person[p].picture)
           row == [state |-> "LIVE", role |-> None, picture |-> k]
           r == [Idle EXCEPT !.pc = pc, !.next = "save", !.id = p, !.old = person[p].picture,
                             !.picture = k, !.row = row]
<1>2. pc \in {"upload", "save"} /\ k \in {person[p].picture, Empty, Link} /\ p \in People
  BY DEF Given, Resolved, People
<1>3. Start(s, r)
  BY <1>1
<1> HIDE DEF pc, k
<1>4. row \in Person /\ k \in Pictures \cup {Empty, Link} /\ person[p].picture \in Pictures \cup {Empty, Link}
  BY <1>2, Picture DEF Person, RowState
<1> HIDE DEF row
<1>6. r \in Request
  BY <1>2, <1>4, IdleOK DEF Request
<1>7. /\ r.pc = pc /\ r.id = p /\ r.role = None /\ r.deleted = {} /\ r.inserted = {}
      /\ r.kind = None /\ r.picture = k /\ r.old = person[p].picture /\ r.row = row /\ r.next = "save"
  BY DEF Idle
<1> HIDE DEF r
<1>8. PersonFits(r)
  BY <1>2, <1>6, <1>7, StaffAssumption DEF PersonFits, PersonAt
<1>9. UNCHANGED <<roleTables, person, objects>>
  BY DEF SetUpAccount
<1>10. Bystands(s) /\ req'[s] = r /\ req[s] = Idle /\ fails' = fails
  BY <1>3, <1>8, <1>9, StartsOnPerson
<1>11. Begins(s, pc, p, None, k, person[p].picture, row, "save")
  BY <1>7, <1>9, <1>10 DEF Begins
<1> QED BY <1>1, <1>2, <1>10, <1>11 DEF row

LEMMA RemovePersonTo ==
    ASSUME Shape, NEW s \in Slots, RemovePerson(s)
    PROVE  /\ Bystands(s)
           /\ \E p \in People, pc \in {"softRemove", "deleteObject"} :
                /\ PersonLive(p) /\ (pc = "softRemove" <=> person[p].picture = Empty)
                /\ Begins(s, pc, p, None, Empty, person[p].picture, NoPerson, "softRemove")
<1>1. PICK p \in People :
         /\ PersonLive(p)
         /\ Start(s, [Idle EXCEPT !.pc = IF person[p].picture = Empty THEN "softRemove"
                                         ELSE "deleteObject",
                                  !.next = "softRemove", !.id = p, !.old = person[p].picture])
  BY DEF RemovePerson
<1> DEFINE pc == IF person[p].picture = Empty THEN "softRemove" ELSE "deleteObject"
           r == [Idle EXCEPT !.pc = pc, !.next = "softRemove", !.id = p, !.old = person[p].picture]
<1>2. pc \in {"softRemove", "deleteObject"} /\ (pc = "softRemove" <=> person[p].picture = Empty)
  OBVIOUS
<1>3. Start(s, r)
  BY <1>1
<1> HIDE DEF pc
<1>6. r \in Request
  BY <1>2, IdleOK, Picture DEF Request
<1>7. /\ r.pc = pc /\ r.id = p /\ r.role = None /\ r.deleted = {} /\ r.inserted = {}
      /\ r.kind = None /\ r.picture = Empty /\ r.old = person[p].picture /\ r.row = NoPerson
      /\ r.next = "softRemove"
  BY DEF Idle
<1> HIDE DEF r
<1>8. PersonFits(r)
  BY <1>2, <1>6, <1>7, StaffAssumption DEF PersonFits, PersonAt
<1>9. UNCHANGED <<roleTables, person, objects>>
  BY DEF RemovePerson
<1>10. Bystands(s) /\ req'[s] = r /\ req[s] = Idle /\ fails' = fails
  BY <1>3, <1>8, <1>9, StartsOnPerson
<1>11. Begins(s, pc, p, None, Empty, person[p].picture, NoPerson, "softRemove")
  BY <1>7, <1>9, <1>10 DEF Begins
<1> QED BY <1>1, <1>2, <1>10, <1>11

--------------------------------------------------------------------------------
\* A request about a person that goes on, field by field.
Keeps(s) ==
    /\ req'[s].id = req[s].id /\ req'[s].kind = req[s].kind /\ req'[s].old = req[s].old

LEMMA FailsMore ==
    ASSUME Shape, fails < MaxFails, fails' = fails + 1
    PROVE  fails' \in 0..MaxFails /\ fails' > 0
<1>1. fails \in 0..MaxFails /\ MaxFails \in Nat
  BY StaffAssumption DEF Shape, TypeOK
<1> QED BY <1>1

LEMMA PersonIn ==
    ASSUME Shape, NEW s \in Slots, req[s].pc \in PersonAt
    PROVE  PersonFits(req[s])
  BY Fits DEF PersonFits, PersonAt, RequestFits, InRole, Past

LEMMA UploadTo ==
    ASSUME Shape, NEW s \in Slots, Upload(s)
    PROVE  /\ Bystands(s) /\ Keeps(s) /\ req[s].pc = "upload" /\ UNCHANGED <<person, stranded, calm>>
           /\ req'[s].pc = req[s].next /\ req'[s].next = req[s].next
           /\ \/ /\ \E k \in FreshKeys(s) :
                      /\ bucket' = bucket \cup {k} /\ req'[s].picture = k
                      /\ req'[s].row = [req[s].row EXCEPT !.picture = k]
                 /\ fails' = fails
              \/ bucket' = bucket /\ req'[s].row = req[s].row /\ fails' > 0
<1>1. PersonFits(req[s]) /\ req[s] \in Request /\ req[s].pc = "upload"
  BY PersonIn DEF Upload, PersonAt, PersonFits
<1>2. UNCHANGED <<roleTables, person>>
  BY DEF Upload
<1>3. ASSUME NEW k \in FreshKeys(s), bucket' = bucket \cup {k}, UNCHANGED stranded,
             Continue(s, [req[s] EXCEPT !.pc = req[s].next, !.picture = k, !.row.picture = k])
      PROVE  /\ Bystands(s) /\ Keeps(s) /\ req'[s].pc = req[s].next /\ req'[s].next = req[s].next
             /\ req'[s].picture = k /\ req'[s].row = [req[s].row EXCEPT !.picture = k]
             /\ fails' = fails /\ calm' = calm
  <2> DEFINE row == [req[s].row EXCEPT !.picture = k]
             pc == req[s].next
             r == [req[s] EXCEPT !.pc = pc, !.picture = k, !.row = row]
  <2>1. k \in Pictures
    BY DEF FreshKeys
  <2>2. row \in Person
    BY <1>1, <2>1 DEF Request, Person
  <2>3. Continue(s, r)
    BY <1>3
  <2>p. pc \in {"insert", "preload", "save"} /\ (pc = "insert" => req[s].kind # None) /\ pc = req[s].next
        /\ (req[s].kind # None => pc = "insert")
    BY <1>1 DEF PersonFits
  <2> HIDE DEF row, pc
  <2>4. r \in Request
    <3> DEFINE q == req[s]
    <3>1. q \in Request /\ pc \in {"insert", "preload", "save"}
      BY <1>1, <2>p
    <3> HIDE DEF q
    <3>2. [q EXCEPT !.pc = pc, !.picture = k, !.row = row] \in Request
      BY <2>1, <2>2, <3>1 DEF Request
    <3> QED BY <3>2 DEF q
  <2>5. /\ r.pc = pc /\ r.id = req[s].id /\ r.role = req[s].role /\ r.deleted = req[s].deleted
        /\ r.inserted = req[s].inserted /\ r.kind = req[s].kind /\ r.picture = k
        /\ r.old = req[s].old /\ r.row = row /\ r.next = req[s].next
    BY <1>1 DEF Request
  <2> HIDE DEF r
  <2>6. PersonFits(r)
    BY <1>1, <2>4, <2>5, <2>p DEF PersonFits, PersonAt
  <2>7. TablesOK'
    BY <1>2, <1>3, <2>1 DEF Shape, TypeOK, TablesOK, roleTables, objects, Continue, control
  <2>8. Bystands(s) /\ req'[s] = r
    BY <1>1, <1>2, <2>3, <2>6, <2>7, PersonGoesOn DEF PersonAt
  <2> QED BY <1>3, <2>5, <2>8, <2>p DEF Keeps, row, Continue, control
<1>4. ASSUME CallFails(s, [req[s] EXCEPT !.pc = req[s].next])
      PROVE  /\ Bystands(s) /\ Keeps(s) /\ req'[s].pc = req[s].next /\ req'[s].next = req[s].next
             /\ bucket' = bucket /\ stranded' = stranded /\ req'[s].row = req[s].row
             /\ fails' > 0 /\ calm' = calm
  <2> DEFINE pc == req[s].next
             r == [req[s] EXCEPT !.pc = pc]
  <2>3. CallFails(s, r)
    BY <1>4
  <2>p. pc \in {"insert", "preload", "save"} /\ (pc = "insert" => req[s].kind # None) /\ pc = req[s].next
        /\ (req[s].kind # None => pc = "insert")
    BY <1>1 DEF PersonFits
  <2> HIDE DEF pc
  <2>4. r \in Request
    BY <1>1, <2>p DEF Request
  <2>5. /\ r.pc = pc /\ r.id = req[s].id /\ r.role = req[s].role /\ r.deleted = req[s].deleted
        /\ r.inserted = req[s].inserted /\ r.kind = req[s].kind
        /\ r.old = req[s].old /\ r.row = req[s].row /\ r.next = req[s].next
    BY <1>1 DEF Request
  <2> HIDE DEF r
  <2>6. PersonFits(r)
    BY <1>1, <2>4, <2>5, <2>p DEF PersonFits, PersonAt
  <2>7. fails' \in 0..MaxFails /\ fails' > 0
    BY <1>4, FailsMore DEF CallFails
  <2>8. UNCHANGED <<objects, bare, calm>>
    BY <1>4 DEF CallFails
  <2>9. TablesOK'
    BY <1>2, <2>7, <2>8 DEF Shape, TypeOK, TablesOK, roleTables, objects
  <2>10. Bystands(s) /\ req'[s] = r
    BY <1>1, <1>2, <2>3, <2>6, <2>9, PersonGoesOn DEF PersonAt
  <2> QED BY <2>5, <2>7, <2>8, <2>10, <2>p DEF Keeps, objects
<1> QED BY <1>1, <1>2, <1>3, <1>4 DEF Upload

LEMMA InsertTo ==
    ASSUME Shape, NEW s \in Slots, Insert(s)
    PROVE  /\ Bystands(s) /\ req[s].pc = "insert" /\ req'[s] = Idle /\ UNCHANGED <<objects, control>>
           /\ \E p \in People, state \in {"BEGUN", "LIVE"} :
                /\ person[p].state = "NONE" /\ (p \in Admins => req[s].kind = "ADMIN")
                /\ person' = [person EXCEPT ![p] = [state |-> state, role |-> req[s].row.role,
                                                    picture |-> req[s].picture]]
<1>1. PersonFits(req[s]) /\ req[s] \in Request /\ req[s].pc = "insert"
  BY PersonIn DEF Insert, PersonAt, PersonFits
<1>2. UNCHANGED <<roleTables, objects, control>> /\ Finish(s)
  BY DEF Insert, Finish, Continue
<1>3. PICK p \in IF req[s].kind = "ADMIN" THEN Admins ELSE Users :
         /\ person[p].state = "NONE"
         /\ person' = [person EXCEPT ![p] = [state |-> IF req[s].kind = "BEGIN" THEN "BEGUN" ELSE "LIVE",
                                             role |-> req[s].row.role, picture |-> req[s].picture]]
  BY DEF Insert
<1>4. p \in People /\ (p \in Admins => req[s].kind = "ADMIN")
  BY <1>3, StaffAssumption DEF People
<1> DEFINE state == IF req[s].kind = "BEGIN" THEN "BEGUN" ELSE "LIVE"
           row == [state |-> state, role |-> req[s].row.role, picture |-> req[s].picture]
<1>5. state \in {"BEGUN", "LIVE"} /\ person' = [person EXCEPT ![p] = row]
  BY <1>3
<1> HIDE DEF state
<1>6. row \in Person
  BY <1>1, <1>5 DEF Request, Person, RowState
<1>7. TablesOK'
  BY <1>2, <1>4, <1>5, <1>6 DEF Shape, TypeOK, TablesOK, roleTables, objects, control
<1>8. Bystands(s) /\ req'[s] = Idle
  BY <1>1, <1>2, <1>7, PersonGoesOn DEF PersonAt, Finish
<1> QED BY <1>1, <1>2, <1>3, <1>4, <1>5, <1>8

LEMMA InsertRefusedTo ==
    ASSUME Shape, NEW s \in Slots, InsertRefused(s)
    PROVE  /\ Bystands(s) /\ req[s].pc = "insert" /\ req'[s] = Idle
           /\ UNCHANGED <<person, bucket, control>>
           /\ stranded' = stranded \cup ({req[s].picture} \cap Pictures)
<1>1. PersonFits(req[s]) /\ req[s] \in Request /\ req[s].pc = "insert"
  BY PersonIn DEF InsertRefused, PersonAt, PersonFits
<1>2. /\ UNCHANGED <<roleTables, person, bucket, control>> /\ Finish(s)
      /\ stranded' = stranded \cup ({req[s].picture} \cap Pictures)
  BY DEF InsertRefused, Finish, Continue
<1>7. TablesOK'
  BY <1>2 DEF Shape, TypeOK, TablesOK, roleTables, control
<1>8. Bystands(s) /\ req'[s] = Idle
  BY <1>1, <1>2, <1>7, PersonGoesOn DEF PersonAt, Finish
<1> QED BY <1>1, <1>2, <1>8

LEMMA PreloadTo ==
    ASSUME Shape, NEW s \in Slots, Preload(s)
    PROVE  /\ Bystands(s) /\ req[s].pc = "preload" /\ UNCHANGED <<person, objects, control>>
           /\ req[s].id \in People
           /\ \/ req'[s] = Idle /\ ~PersonLive(req[s].id)
              \/ /\ PersonLive(req[s].id) /\ Keeps(s)
                 /\ req'[s].pc = "save" /\ req'[s].picture = req[s].picture
                 /\ req'[s].row.state = person[req[s].id].state
                 /\ req'[s].row.picture = req[s].picture
                 /\ req'[s].row.role = Resolved(req[s].row.role, person[req[s].id].role)
<1>1. PersonFits(req[s]) /\ req[s] \in Request /\ req[s].pc = "preload"
  BY PersonIn DEF Preload, PersonAt, PersonFits
<1> DEFINE p == req[s].id
           row == [person[p] EXCEPT !.role = Resolved(req[s].row.role, @), !.picture = req[s].picture]
           r == [req[s] EXCEPT !.pc = "save", !.row = row]
<1>2. p \in People /\ person[p] \in Person
  <2>1. p \in People
    BY <1>1 DEF Request, PersonFits
  <2> QED BY <2>1, Picture
<1>3. IF PersonLive(p) THEN Continue(s, r) ELSE Finish(s)
  BY DEF Preload
<1>4. UNCHANGED <<roleTables, person, objects, control>> /\ TablesOK'
  <2>1. UNCHANGED <<roleTables, person, objects, control>>
    BY <1>3 DEF Preload, Finish, Continue
  <2> QED BY <2>1, TablesStay
<1>5. row \in Person /\ row.state = person[p].state /\ row.picture = req[s].picture
      /\ row.role = Resolved(req[s].row.role, person[p].role)
  <2>1. Resolved(req[s].row.role, person[p].role) \in Roles \cup {None}
    BY <1>1, <1>2 DEF Resolved, Request, Person
  <2> QED BY <1>1, <1>2, <2>1 DEF Request, Person
<1> HIDE DEF row
<1>6. r \in Request
  BY <1>1, <1>5 DEF Request
<1>7. /\ r.pc = "save" /\ r.id = req[s].id /\ r.role = req[s].role /\ r.deleted = req[s].deleted
      /\ r.inserted = req[s].inserted /\ r.kind = req[s].kind /\ r.picture = req[s].picture
      /\ r.old = req[s].old /\ r.row = row
  BY <1>1 DEF Request
<1> HIDE DEF r
<1>8. PersonFits(r)
  BY <1>1, <1>6, <1>7 DEF PersonFits, PersonAt
<1>9. CASE PersonLive(p)
  <2>1. Bystands(s) /\ req'[s] = r
    BY <1>1, <1>3, <1>4, <1>8, <1>9, PersonGoesOn DEF PersonAt
  <2> QED BY <1>1, <1>2, <1>4, <1>5, <1>7, <1>9, <2>1 DEF Keeps
<1>10. CASE ~PersonLive(p)
  <2>1. Bystands(s) /\ req'[s] = Idle
    BY <1>1, <1>3, <1>4, <1>10, PersonGoesOn DEF PersonAt, Finish
  <2> QED BY <1>1, <1>2, <1>4, <1>10, <2>1
<1> QED BY <1>9, <1>10

LEMMA SaveTo ==
    ASSUME Shape, NEW s \in Slots, Save(s)
    PROVE  /\ Bystands(s) /\ req[s].pc = "save" /\ UNCHANGED <<objects, control>>
           /\ req[s].id \in People /\ req[s].row \in Person
           /\ person' = [person EXCEPT ![req[s].id] = req[s].row]
           /\ \/ req[s].old \in {Empty, req[s].picture} /\ req'[s] = Idle
              \/ /\ req[s].old \notin {Empty, req[s].picture}
                 /\ Keeps(s) /\ req'[s].pc = "deleteObject" /\ req'[s].next = "idle"
<1>1. PersonFits(req[s]) /\ req[s] \in Request /\ req[s].pc = "save"
  BY PersonIn DEF Save, PersonAt, PersonFits
<1>2. req[s].id \in People /\ req[s].row \in Person
  BY <1>1 DEF PersonFits, Request
<1> DEFINE r == [req[s] EXCEPT !.pc = "deleteObject", !.next = "idle"]
<1>3. /\ IF req[s].old \in {Empty, req[s].picture} THEN Finish(s) ELSE Continue(s, r)
      /\ person' = [person EXCEPT ![req[s].id] = req[s].row]
      /\ UNCHANGED <<roleTables, objects>>
  BY DEF Save
<1>4. UNCHANGED control
  BY <1>3 DEF Finish, Continue
<1>5. TablesOK'
  BY <1>2, <1>3, <1>4 DEF Shape, TypeOK, TablesOK, roleTables, objects, control
<1>6. r \in Request
  BY <1>1 DEF Request
<1>7. /\ r.pc = "deleteObject" /\ r.id = req[s].id /\ r.role = req[s].role
      /\ r.deleted = req[s].deleted /\ r.inserted = req[s].inserted /\ r.kind = req[s].kind
      /\ r.old = req[s].old /\ r.next = "idle"
  BY <1>1 DEF Request
<1> HIDE DEF r
<1>8. PersonFits(r)
  BY <1>1, <1>6, <1>7 DEF PersonFits, PersonAt
<1>9. CASE req[s].old \notin {Empty, req[s].picture}
  <2>1. Bystands(s) /\ req'[s] = r
    BY <1>1, <1>3, <1>5, <1>8, <1>9, PersonGoesOn DEF PersonAt
  <2> QED BY <1>1, <1>2, <1>3, <1>4, <1>7, <1>9, <2>1 DEF Keeps
<1>10. CASE req[s].old \in {Empty, req[s].picture}
  <2>1. Bystands(s) /\ req'[s] = Idle
    BY <1>1, <1>3, <1>5, <1>10, PersonGoesOn DEF PersonAt, Finish
  <2> QED BY <1>1, <1>2, <1>3, <1>4, <1>10, <2>1
<1> QED BY <1>9, <1>10

LEMMA DeleteObjectTo ==
    ASSUME Shape, NEW s \in Slots, DeleteObject(s)
    PROVE  /\ Bystands(s) /\ req[s].pc = "deleteObject" /\ UNCHANGED <<person, stranded, calm>>
           /\ \/ bucket' = bucket \ {req[s].old} /\ fails' = fails
              \/ bucket' = bucket /\ fails' > 0
           /\ \/ req[s].next = "idle" /\ req'[s] = Idle
              \/ req[s].next = "softRemove" /\ Keeps(s) /\ req'[s].pc = "softRemove"
<1>1. PersonFits(req[s]) /\ req[s] \in Request /\ req[s].pc = "deleteObject"
  BY PersonIn DEF DeleteObject, PersonAt, PersonFits
<1> DEFINE r == IF req[s].next = "idle" THEN Idle ELSE [req[s] EXCEPT !.pc = req[s].next]
<1>2. /\ \/ bucket' = bucket \ {req[s].old} /\ Continue(s, r) /\ UNCHANGED stranded
         \/ CallFails(s, r)
      /\ UNCHANGED <<roleTables, person>>
  BY DEF DeleteObject
<1>3. req[s].next \in {"idle", "softRemove"}
  BY <1>1 DEF PersonFits
<1>4. /\ r = Idle \/ PersonFits(r)
      /\ \/ req[s].next = "idle" /\ r = Idle
         \/ /\ req[s].next = "softRemove" /\ r.pc = "softRemove"
            /\ r.id = req[s].id /\ r.kind = req[s].kind /\ r.old = req[s].old
  <2>1. CASE req[s].next = "idle"
    BY <2>1
  <2>2. CASE req[s].next = "softRemove"
    <3> DEFINE q == [req[s] EXCEPT !.pc = "softRemove"]
    <3>1. r = q
      BY <2>2
    <3>2. q \in Request
      BY <1>1 DEF Request
    <3>3. /\ q.pc = "softRemove" /\ q.id = req[s].id /\ q.role = req[s].role
          /\ q.deleted = req[s].deleted /\ q.inserted = req[s].inserted /\ q.kind = req[s].kind
          /\ q.old = req[s].old
      BY <1>1 DEF Request
    <3> HIDE DEF q, r
    <3>4. PersonFits(q)
      BY <1>1, <3>2, <3>3 DEF PersonFits, PersonAt
    <3> QED BY <2>2, <3>1, <3>3, <3>4
  <2> QED BY <1>3, <2>1, <2>2
<1> HIDE DEF r
<1>5. /\ UNCHANGED <<stranded, calm, bare>> /\ TablesOK'
      /\ \/ bucket' = bucket \ {req[s].old} /\ fails' = fails
         \/ bucket' = bucket /\ fails' > 0
  <2>1. CASE bucket' = bucket \ {req[s].old} /\ Continue(s, r) /\ UNCHANGED stranded
    <3>1. UNCHANGED control
      BY <2>1 DEF Continue
    <3> QED BY <1>2, <2>1, <3>1 DEF Shape, TypeOK, TablesOK, roleTables, control
  <2>2. CASE CallFails(s, r)
    <3>1. UNCHANGED <<objects, bare, calm>> /\ fails' \in 0..MaxFails /\ fails' > 0
      BY <2>2, FailsMore DEF CallFails
    <3> QED BY <1>2, <3>1 DEF Shape, TypeOK, TablesOK, roleTables, objects
  <2> QED BY <1>2, <2>1, <2>2
<1>6. Bystands(s) /\ req'[s] = r
  BY <1>1, <1>2, <1>4, <1>5, PersonGoesOn DEF PersonAt
<1> QED BY <1>1, <1>2, <1>4, <1>5, <1>6 DEF Keeps

LEMMA SoftRemoveTo ==
    ASSUME Shape, NEW s \in Slots, SoftRemove(s)
    PROVE  /\ Bystands(s) /\ req[s].pc = "softRemove" /\ req'[s] = Idle /\ UNCHANGED <<objects, control>>
           /\ req[s].id \in People /\ person' = [person EXCEPT ![req[s].id].state = "GONE"]
<1>1. PersonFits(req[s]) /\ req[s] \in Request /\ req[s].pc = "softRemove"
  BY PersonIn DEF SoftRemove, PersonAt, PersonFits
<1>2. /\ UNCHANGED <<roleTables, objects, control>> /\ Finish(s)
      /\ person' = [person EXCEPT ![req[s].id].state = "GONE"]
  BY DEF SoftRemove, Finish, Continue
<1>3. req[s].id \in People
  BY <1>1 DEF PersonFits, Request
<1>4. [person[req[s].id] EXCEPT !.state = "GONE"] \in Person
  BY <1>3, Picture DEF Person, RowState, Shape, TypeOK
<1>7. TablesOK'
  BY <1>2, <1>4 DEF Shape, TypeOK, TablesOK, roleTables, objects, control
<1>8. Bystands(s) /\ req'[s] = Idle
  BY <1>1, <1>2, <1>7, PersonGoesOn DEF PersonAt, Finish
<1> QED BY <1>1, <1>2, <1>3, <1>8

LEMMA PersonStepTo ==
    ASSUME Shape, NEW s \in Slots, PersonStep(s)
    PROVE  Bystands(s)
<1>1. CASE CreateAdmin(s) \/ CreateUser(s) \/ UpdatePerson(s) \/ SetUpAccount(s) \/ RemovePerson(s)
  BY <1>1, CreateAdminTo, CreateUserTo, UpdatePersonTo, SetUpAccountTo, RemovePersonTo
<1>2. CASE Upload(s) \/ Insert(s) \/ InsertRefused(s) \/ Preload(s)
  BY <1>2, UploadTo, InsertTo, InsertRefusedTo, PreloadTo
<1>3. CASE Save(s) \/ DeleteObject(s) \/ SoftRemove(s)
  BY <1>3, SaveTo, DeleteObjectTo, SoftRemoveTo
<1> QED BY <1>1, <1>2, <1>3 DEF PersonStep

LEMMA ShapeKept == Shape /\ [Next]_vars => Shape'
<1> SUFFICES ASSUME Shape, [Next]_vars PROVE Shape'
  OBVIOUS
<1>1. CASE UNCHANGED vars
  BY <1>1 DEF Shape, TypeOK, vars, roleTables, objects, control
<1>2. ASSUME NEW s \in Slots, Step(s) PROVE Shape'
  <2>1. CASE CreateRole(s) \/ CommitNew(s) \/ UpdateRole(s) \/ RemoveRole(s) \/ RoleRemove(s)
    BY <2>1, CreateRoleTo, CommitNewTo, UpdateRoleTo, RemoveRoleTo, RoleRemoveTo
  <2>2. CASE WriteRow(s) \/ DeleteLinks(s) \/ Deleting(s) \/ ReadLinks(s) \/ InsertLinks(s) \/ Commit(s)
    BY <2>2, WriteRowTo, DeleteLinksTo, DeletingTo, ReadLinksTo, InsertLinksTo, CommitTo
  <2>3. CASE PersonStep(s)
    BY <2>3, PersonStepTo DEF Bystands
  <2>4. CASE RequestFails(s)
    BY <2>4, RequestFailsTo
  <2> QED BY <1>2, <2>1, <2>2, <2>3, <2>4 DEF Step, RoleStep
<1> QED BY <1>1, <1>2 DEF Next

--------------------------------------------------------------------------------
\* LinksInv and GivenInv, slot by slot.
RolesInv == Shape /\ LinksInv /\ GivenInv

Single(s) == LinksFit(s) /\ (~bare => SeesAll(s))

Pair(s, t) == Nested(s, t) /\ OneHolder(s, t) /\ (~bare => BothNamed(s, t))

LEMMA RolesInvOf ==
    RolesInv <=> /\ Shape /\ (~bare => perms = asked)
                 /\ \A s \in Slots : Single(s)
                 /\ \A s, t \in Slots : Pair(s, t)
  BY DEF RolesInv, Shape, LinksInv, GivenInv, Single, Pair

\* One slot moves and no row of role_permissions changes.
RolesRemain == \A x \in Roles : role[x].state # "NONE" => role'[x].state # "NONE"

LEMMA OneMoves ==
    ASSUME RolesInv, Shape', NEW s \in Slots, OthersStay(s), UNCHANGED <<perms, asked>>, bare => bare',
           RolesRemain, Single(s)', \A t \in Slots \ {s} : Pair(s, t)'
    PROVE  RolesInv'
<1>1. ~bare' => ~bare /\ perms' = asked'
  BY RolesInvOf
<1>2. ASSUME NEW t \in Slots \ {s} PROVE Single(t)'
  <2>1. Single(t) /\ req'[t] = req[t] /\ req[t].role \in Roles \cup {None}
    BY RolesInvOf, Fits DEF OthersStay, Request
  <2>2. LinksFit(t)'
    BY <2>1 DEF Single, LinksFit, Visible, Held, RolesRemain
  <2>3. ~bare' => SeesAll(t)'
    BY <1>1, <2>1 DEF Single, SeesAll, GivesPermissions
  <2> QED BY <2>2, <2>3 DEF Single
<1>3. ASSUME NEW t \in Slots \ {s}, NEW u \in Slots \ {s} PROVE Pair(t, u)'
  <2>1. Pair(t, u) /\ req'[t] = req[t] /\ req'[u] = req[u]
    BY RolesInvOf DEF OthersStay
  <2> QED BY <1>1, <2>1 DEF Pair, Nested, OneHolder, BothNamed, SameRole, Held, RowHeld, GivesPermissions
<1>4. ASSUME NEW t \in Slots, NEW u \in Slots PROVE Pair(t, u)'
  <2>1. CASE t = u
    BY <2>1 DEF Pair, Nested, OneHolder, BothNamed, SameRole
  <2>2. CASE t = s /\ u # s
    BY <2>2
  <2>3. CASE u = s /\ t # s
    <3>1. Pair(u, t)'
      BY <2>3
    <3>2. SameRole(u, t)' <=> SameRole(t, u)'
      BY DEF SameRole
    <3> QED BY <3>1, <3>2 DEF Pair, Nested, OneHolder, BothNamed
  <2> QED BY <1>3, <2>1, <2>2, <2>3
<1>5. \A t \in Slots : Single(t)'
  BY <1>2
<1>6. \A t \in Slots : RequestFits(req[t])'
  BY DEF Shape
<1> QED BY <1>1, <1>4, <1>5, <1>6 DEF RolesInv, LinksInv, GivenInv, Single, Pair

\* The slot that moves is not about a role any more, or never was.
LEMMA NoRoleNow ==
    ASSUME RolesInv, Shape', NEW s \in Slots, OthersStay(s), UNCHANGED <<perms, asked>>, bare => bare',
           RolesRemain, req'[s].role = None
    PROVE  RolesInv'
<1>1. Single(s)'
  BY DEF Single, LinksFit, SeesAll, GivesPermissions
<1>2. \A t \in Slots \ {s} : Pair(s, t)'
  BY DEF Pair, Nested, OneHolder, BothNamed, SameRole
<1> QED BY <1>1, <1>2, OneMoves

\* The slot that moves stays with its role: which row it holds and what it is given do not change.
StaysAt(s) ==
    /\ req[s].role \in Roles /\ req[s].pc \in InRole
    /\ req'[s].role = req[s].role /\ req'[s].name = req[s].name /\ req'[s].set = req[s].set

LEMMA StillPaired ==
    ASSUME RolesInv, NEW s \in Slots, OthersStay(s), StaysAt(s), bare => bare',
           req'[s].pc \in Locked => req[s].pc \in Locked \/ req[s].name = None, NEW t \in Slots \ {s}, Nested(s, t)'
    PROVE  Pair(s, t)'
<1>1. Pair(s, t) /\ req'[t] = req[t]
  BY RolesInvOf DEF OthersStay
<1>2. SameRole(s, t)' <=> SameRole(s, t)
  BY <1>1 DEF SameRole, StaysAt
<1>3. OneHolder(s, t)'
  BY <1>1, <1>2 DEF Pair, OneHolder, RowHeld, StaysAt
<1>4. ~bare' => BothNamed(s, t)'
  <2>1. "idle" \notin InRole
    BY DEF InRole
  <2> QED BY <1>1, <1>2, <2>1 DEF Pair, BothNamed, GivesPermissions, StaysAt
<1> QED BY <1>3, <1>4 DEF Pair

LEMMA QuietRoles ==
    ASSUME NEW s \in Slots, WriteRow(s) \/ DeleteLinks(s) \/ Deleting(s) \/ ReadLinks(s) \/ InsertLinks(s)
    PROVE  UNCHANGED <<roleTables, person, objects, control>>
  BY DEF WriteRow, Goto, DeleteLinks, Deleting, ReadLinks, InsertLinks, Finish, Continue

LEMMA RoleOf ==
    ASSUME RolesInv, NEW s \in Slots, req[s].pc \in InRole
    PROVE  /\ req[s].role \in Roles /\ req[s].role # None /\ role[req[s].role].state # "NONE"
           /\ perms[req[s].role] \in PermissionSets
<1>1. req[s] \in Request /\ RequestFits(req[s])
  BY Fits DEF RolesInv
<1>2. req[s].role \in Roles /\ req[s].role # None
  BY <1>1 DEF Request, RequestFits
<1> QED BY <1>2 DEF RolesInv, LinksInv, LinksFit, Shape, TypeOK

LEMMA UpdateRoleKeeps ==
    ASSUME RolesInv, NEW s \in Slots, UpdateRole(s) \/ RemoveRole(s)
    PROVE  RolesInv'
<1> USE DEF RolesInv
<1> DEFINE r == req'[s]
<1>1. /\ Shape' /\ OthersStay(s) /\ req[s] = Idle /\ r.pc \in {"writeRow", "deleteLinks", "removeRole"}
      /\ r.role \in Roles /\ RoleLive(r.role) /\ StartsAt(r) /\ Start(s, r) /\ UNCHANGED roleTables
      /\ (r.pc = "deleteLinks" => r.name = None)
  <2>1. CASE UpdateRole(s)
    BY <2>1, UpdateRoleTo
  <2>2. CASE RemoveRole(s)
    BY <2>2, RemoveRoleTo
  <2> QED BY <2>1, <2>2
<1>2. RequestFits(r)
  BY <1>1 DEF Shape
<1>3. /\ bare => bare'
      /\ ~bare' => ~(/\ GivesPermissions(r)
                     /\ \E t \in Slots : /\ GivesPermissions(req[t]) /\ req[t].role = r.role
                                         /\ None \in {r.name, req[t].name})
  BY <1>1 DEF Start
<1>4. Single(s)'
  <2>1. LinksFit(s)'
    BY <1>1 DEF LinksFit, Held, StartsAt, RoleLive, roleTables
  <2>2. SeesAll(s)'
    BY <1>1 DEF SeesAll, Past
  <2> QED BY <2>1, <2>2 DEF Single
<1>5. ASSUME NEW t \in Slots \ {s} PROVE Pair(s, t)'
  <2>1. req'[t] = req[t]
    BY <1>1 DEF OthersStay
  <2>2. Nested(s, t)'
    BY <1>1, <2>1 DEF Nested, Held, StartsAt
  <2>3. OneHolder(s, t)'
    <3>1. ~RowHeld(r)
      BY <1>1 DEF RowHeld, Locked, Past
    <3> QED BY <3>1 DEF OneHolder, RowHeld
  <2>4. ~bare' => BothNamed(s, t)'
    BY <1>3, <2>1 DEF BothNamed, SameRole, GivesPermissions
  <2> QED BY <2>2, <2>3, <2>4 DEF Pair
<1>6. RolesRemain /\ UNCHANGED <<perms, asked>>
  BY <1>1 DEF RolesRemain, roleTables
<1> HIDE DEF RolesInv
<1> QED BY <1>1, <1>3, <1>4, <1>5, <1>6, OneMoves

LEMMA WriteRowKeeps ==
    ASSUME RolesInv, NEW s \in Slots, WriteRow(s)
    PROVE  RolesInv'
<1>1. Shape
  BY DEF RolesInv
<1>2. UNCHANGED <<roleTables, control>> /\ ~RowLocked(s)
  BY QuietRoles DEF WriteRow
<1>3. /\ Shape' /\ OthersStay(s) /\ req[s].pc = "writeRow" /\ req'[s].deleted = {}
      /\ req'[s].pc = IF req[s].set = None THEN "commit" ELSE "deleteLinks"
      /\ req'[s].role = req[s].role /\ req'[s].name = req[s].name /\ req'[s].set = req[s].set
  BY <1>1, WriteRowTo
<1>p. req'[s].pc \in {"commit", "deleteLinks"} /\ (req'[s].pc = "commit" => req'[s].set = None)
  BY <1>3
<1>4. StaysAt(s) /\ role[req[s].role].state # "NONE"
  BY <1>3, RoleOf DEF StaysAt, InRole
<1>5. Single(s)'
  <2>1. LinksFit(s)'
    BY <1>p, <1>2, <1>3, <1>4 DEF LinksFit, Held, roleTables
  <2>2. SeesAll(s)'
    BY <1>p DEF SeesAll, GivesPermissions, Past
  <2> QED BY <2>1, <2>2 DEF Single
<1>6. ASSUME NEW t \in Slots \ {s} PROVE Pair(s, t)'
  <2>1. req'[t] = req[t] /\ Pair(s, t)
    BY <1>3, RolesInvOf DEF OthersStay
  <2>2. Nested(s, t)'
    BY <1>p, <1>3, <2>1 DEF Nested, Held
  <2>3. OneHolder(s, t)'
    <3>1. SameRole(s, t)' => SameRole(s, t) /\ req[t] \in Others(s)
      BY <1>3, <2>1 DEF SameRole, Others
    <3>2. req[t] \in Others(s) => ~RowHeld(req[t])
      BY <1>2 DEF RowLocked, RowHeld, Locked, Past
    <3>3. RowHeld(req'[t]) <=> RowHeld(req[t])
      BY <2>1
    <3> QED BY <3>1, <3>2, <3>3 DEF OneHolder, RowHeld
  <2>4. ~bare' => BothNamed(s, t)'
    BY <1>2, <1>3, <2>1 DEF Pair, BothNamed, SameRole, GivesPermissions, control
  <2> QED BY <2>2, <2>3, <2>4 DEF Pair
<1>7. RolesRemain /\ UNCHANGED <<perms, asked>> /\ (bare => bare')
  BY <1>2 DEF RolesRemain, roleTables, control
<1> QED BY <1>3, <1>5, <1>6, <1>7, OneMoves

LEMMA DeleteLinksKeeps ==
    ASSUME RolesInv, NEW s \in Slots, DeleteLinks(s)
    PROVE  RolesInv'
<1>1. Shape
  BY DEF RolesInv
<1>2. UNCHANGED <<roleTables, control>>
  BY QuietRoles
<1>3. /\ Shape' /\ OthersStay(s) /\ req[s].pc = "deleteLinks" /\ req'[s].pc = "deleting"
      /\ req'[s].role = req[s].role /\ req'[s].name = req[s].name /\ req'[s].set = req[s].set
      /\ req'[s].seen = perms[req[s].role] /\ req'[s].deleted = {}
  BY <1>1, DeleteLinksTo
<1>4. StaysAt(s) /\ role[req[s].role].state # "NONE"
  BY <1>3, RoleOf DEF StaysAt, InRole
<1>5. Single(s)'
  <2>1. LinksFit(s)'
    BY <1>2, <1>3, <1>4 DEF LinksFit, Held, roleTables
  <2>2. SeesAll(s)'
    BY <1>2, <1>3 DEF SeesAll, Past, roleTables
  <2> QED BY <2>1, <2>2 DEF Single
<1>6. ASSUME NEW t \in Slots \ {s} PROVE Pair(s, t)'
  <2>1. req'[t] = req[t] /\ Single(t)
    BY <1>3, RolesInvOf DEF OthersStay
  <2>2. Nested(s, t)'
    <3>1. SameRole(s, t)' => Held(req[t]) \subseteq perms[req[s].role]
      BY <1>3, <2>1 DEF SameRole, Single, LinksFit
    <3>2. Held(req'[s]) = perms[req[s].role] /\ Held(req'[t]) = Held(req[t])
      BY <1>3, <2>1 DEF Held
    <3> QED BY <1>3, <3>1, <3>2 DEF Nested, Held
  <2> QED BY <1>2, <1>3, <1>4, <2>2, StillPaired DEF Locked, control
<1>7. RolesRemain /\ UNCHANGED <<perms, asked>> /\ (bare => bare')
  BY <1>2 DEF RolesRemain, roleTables, control
<1> QED BY <1>3, <1>5, <1>6, <1>7, OneMoves

LEMMA DeletingKeeps ==
    ASSUME RolesInv, NEW s \in Slots, Deleting(s)
    PROVE  RolesInv'
<1>1. Shape
  BY DEF RolesInv
<1>2. UNCHANGED <<roleTables, control>> /\ \A r \in Others(s) : r.deleted \cap req[s].seen = {}
  BY QuietRoles DEF Deleting
<1>3. /\ Shape' /\ OthersStay(s) /\ req[s].pc = "deleting"
      /\ req'[s].pc = IF req[s].set = {} THEN "commit" ELSE "readLinks"
      /\ req'[s].role = req[s].role /\ req'[s].name = req[s].name /\ req'[s].set = req[s].set
      /\ req'[s].deleted = req[s].seen \cap perms[req[s].role] /\ req'[s].inserted = {}
  BY <1>1, DeletingTo
<1>p. req'[s].pc \in {"commit", "readLinks"} /\ (req'[s].pc = "commit" => req'[s].set = {})
  BY <1>3
<1>4. StaysAt(s) /\ role[req[s].role].state # "NONE" /\ req[s].role # None
  BY <1>3, RoleOf DEF StaysAt, InRole
<1>5. Single(s)
  BY RolesInvOf
<1>6. req[s].seen \subseteq perms[req[s].role] /\ req'[s].deleted = req[s].seen
      /\ Held(req'[s]) = Held(req[s])
  BY <1>p, <1>3, <1>4, <1>5 DEF Single, LinksFit, Held
<1>7. Single(s)'
  <2>1. LinksFit(s)'
    BY <1>p, <1>2, <1>3, <1>4, <1>6 DEF LinksFit, Held, roleTables
  <2>2. ~bare' => SeesAll(s)'
    <3> SUFFICES ASSUME ~bare', GivesPermissions(req'[s]) PROVE SeesAll(s)'
      BY DEF SeesAll
    <3>1. GivesPermissions(req[s])
      BY <1>3 DEF GivesPermissions
    <3>2. req[s].seen = perms[req[s].role]
      BY <1>2, <1>3, <1>5, <3>1 DEF Single, SeesAll, control
    <3> QED BY <1>p, <1>2, <1>3, <1>6, <3>2 DEF SeesAll, roleTables
  <2> QED BY <2>1, <2>2 DEF Single
<1>8. ASSUME NEW t \in Slots \ {s} PROVE Pair(s, t)'
  <2>1. req'[t] = req[t] /\ Pair(s, t)
    BY <1>3, RolesInvOf DEF OthersStay
  <2>2. SameRole(s, t)' <=> SameRole(s, t)
    BY <1>3, <2>1 DEF SameRole
  <2>3. SameRole(s, t) => req[s].seen \cap req[t].deleted = {}
    BY <1>2 DEF SameRole, Others
  <2>4. Nested(s, t)'
    BY <1>6, <2>1, <2>2, <2>3 DEF Pair, Nested
  <2> QED BY <1>2, <1>3, <1>4, <2>4, StillPaired DEF Locked, control
<1>9. RolesRemain /\ UNCHANGED <<perms, asked>> /\ (bare => bare')
  BY <1>2 DEF RolesRemain, roleTables, control
<1> QED BY <1>3, <1>7, <1>8, <1>9, OneMoves

\* The links are read, and inserted: what the transaction holds stays what it has deleted.
LEMMA HoldsOn ==
    ASSUME RolesInv, NEW s \in Slots, Shape', OthersStay(s), UNCHANGED <<roleTables, control>>, StaysAt(s),
           req[s].pc \in Past, req'[s].pc \in Past, req'[s].deleted = req[s].deleted, Single(s)'
    PROVE  RolesInv'
<1>1. Held(req'[s]) = Held(req[s])
  BY DEF Held, Past
<1>2. ASSUME NEW t \in Slots \ {s} PROVE Pair(s, t)'
  <2>1. req'[t] = req[t] /\ Pair(s, t)
    BY RolesInvOf DEF OthersStay
  <2>2. Nested(s, t)'
    BY <1>1, <2>1 DEF Pair, Nested, SameRole, StaysAt
  <2> QED BY <2>2, StillPaired DEF Locked, control
<1>3. RolesRemain /\ UNCHANGED <<perms, asked>> /\ (bare => bare')
  BY DEF RolesRemain, roleTables, control
<1> QED BY <1>2, <1>3, OneMoves

LEMMA ReadLinksKeeps ==
    ASSUME RolesInv, NEW s \in Slots, ReadLinks(s)
    PROVE  RolesInv'
<1>1. Shape
  BY DEF RolesInv
<1>2. UNCHANGED <<roleTables, control>>
  BY QuietRoles
<1>3. /\ Shape' /\ OthersStay(s) /\ req[s].pc = "readLinks" /\ req'[s].pc = "insertLinks"
      /\ req'[s].role = req[s].role /\ req'[s].name = req[s].name /\ req'[s].set = req[s].set
      /\ req'[s].seen = req[s].set \ Visible(s)
      /\ req'[s].deleted = req[s].deleted
  BY <1>1, ReadLinksTo
<1>4. StaysAt(s) /\ role[req[s].role].state # "NONE" /\ req[s].role # None
  BY <1>3, RoleOf DEF StaysAt, InRole
<1>5. Single(s) /\ Visible(s)' = Visible(s)
  BY <1>2, <1>3, RolesInvOf DEF Visible, roleTables
<1>6. Held(req'[s]) = Held(req[s])
  BY <1>3 DEF Held
<1>7. Single(s)'
  <2>1. LinksFit(s)'
    BY <1>2, <1>3, <1>4, <1>5, <1>6 DEF LinksFit, Single, roleTables
  <2>2. ~bare' => SeesAll(s)'
    <3> SUFFICES ASSUME ~bare', GivesPermissions(req'[s]) PROVE SeesAll(s)'
      BY DEF SeesAll
    <3>1. GivesPermissions(req[s])
      BY <1>3 DEF GivesPermissions
    <3>2. req[s].deleted = perms[req[s].role]
      BY <1>2, <1>3, <1>5, <3>1 DEF Single, SeesAll, control, Past
    <3> QED BY <1>2, <1>3, <3>2 DEF SeesAll, roleTables, Visible
  <2> QED BY <2>1, <2>2 DEF Single
<1> QED BY <1>2, <1>3, <1>4, <1>7, HoldsOn DEF Past

LEMMA InsertLinksKeeps ==
    ASSUME RolesInv, NEW s \in Slots, InsertLinks(s)
    PROVE  RolesInv'
<1>1. Shape
  BY DEF RolesInv
<1>2. UNCHANGED <<roleTables, control>>
  BY QuietRoles
<1>3. Shape' /\ OthersStay(s) /\ req[s].pc = "insertLinks"
  BY <1>1, InsertLinksTo
<1>4. CASE req'[s] = Idle
  <2>1. req'[s].role = None
    BY <1>4 DEF Idle
  <2>2. RolesRemain /\ UNCHANGED <<perms, asked>> /\ (bare => bare')
    BY <1>2 DEF RolesRemain, roleTables, control
  <2> QED BY <1>3, <2>1, <2>2, NoRoleNow
<1>5. CASE req'[s] # Idle
  <2>1. /\ req'[s].pc = "commit"
        /\ req'[s].role = req[s].role /\ req'[s].name = req[s].name /\ req'[s].set = req[s].set
        /\ req'[s].deleted = req[s].deleted /\ req'[s].inserted = req[s].seen
    BY <1>1, <1>5, InsertLinksTo
  <2>2. StaysAt(s) /\ role[req[s].role].state # "NONE" /\ req[s].role # None
    BY <1>3, <2>1, RoleOf DEF StaysAt, InRole
  <2>3. Single(s) /\ Visible(s)' = Visible(s)
    BY <1>2, <2>1, RolesInvOf DEF Visible, roleTables
  <2>4. Held(req'[s]) = Held(req[s])
    BY <1>3, <2>1 DEF Held
  <2>5. Single(s)'
    <3>1. LinksFit(s)'
      BY <1>2, <1>3, <2>1, <2>2, <2>3, <2>4 DEF LinksFit, Single, roleTables
    <3>2. ~bare' => SeesAll(s)'
      <4> SUFFICES ASSUME ~bare', GivesPermissions(req'[s]) PROVE SeesAll(s)'
        BY DEF SeesAll
      <4>1. GivesPermissions(req[s])
        BY <1>3, <2>1 DEF GivesPermissions
      <4>2. req[s].deleted = perms[req[s].role] /\ req[s].seen = req[s].set
        BY <1>2, <1>3, <2>3, <4>1 DEF Single, SeesAll, control, Past
      <4> QED BY <1>2, <2>1, <4>2 DEF SeesAll, roleTables
    <3> QED BY <3>1, <3>2 DEF Single
  <2> QED BY <1>2, <1>3, <2>1, <2>2, <2>5, HoldsOn DEF Past
<1> QED BY <1>4, <1>5

LEMMA CommitNewKeeps ==
    ASSUME RolesInv, NEW s \in Slots, CommitNew(s)
    PROVE  RolesInv'
<1>1. Shape
  BY DEF RolesInv
<1>2. /\ Shape' /\ OthersStay(s) /\ req'[s] = Idle /\ UNCHANGED control
      /\ \E x \in Roles : /\ role[x].state = "NONE"
                          /\ role' = [role EXCEPT ![x] = [state |-> "LIVE", name |-> req[s].name]]
                          /\ perms' = [perms EXCEPT ![x] = req[s].set]
                          /\ asked' = [asked EXCEPT ![x] = req[s].set]
  BY <1>1, CommitNewTo
<1>3. PICK x \in Roles : /\ role[x].state = "NONE"
                         /\ role' = [role EXCEPT ![x] = [state |-> "LIVE", name |-> req[s].name]]
                         /\ perms' = [perms EXCEPT ![x] = req[s].set]
                         /\ asked' = [asked EXCEPT ![x] = req[s].set]
  BY <1>2
<1>4. /\ role \in [Roles -> Role] /\ perms \in [Roles -> PermissionSets]
      /\ asked \in [Roles -> PermissionSets] /\ bare' = bare
  BY <1>1, <1>2 DEF Shape, TypeOK, control
<1>5. ASSUME NEW t \in Slots \ {s}, req[t].role # None
      PROVE  /\ req'[t] = req[t] /\ role'[req[t].role] = role[req[t].role]
             /\ perms'[req[t].role] = perms[req[t].role]
  <2>1. req'[t] = req[t] /\ Single(t) /\ req[t].role \in Roles
    BY <1>1, <1>2, <1>5, RolesInvOf, Fits DEF OthersStay, Request
  <2>2. req[t].role # x
    BY <1>3, <1>5, <2>1 DEF Single, LinksFit
  <2> QED BY <1>3, <1>4, <2>1, <2>2
<1>6. Idle.role = None
  BY DEF Idle
<1>7. ASSUME NEW t \in Slots PROVE Single(t)'
  <2>1. CASE t = s
    BY <1>2, <1>6, <2>1 DEF Single, LinksFit, SeesAll, GivesPermissions
  <2>2. CASE t # s /\ req[t].role = None
    <3>1. req'[t] = req[t]
      BY <1>2, <2>2 DEF OthersStay
    <3> QED BY <2>2, <3>1 DEF Single, LinksFit, SeesAll, GivesPermissions
  <2>3. CASE t # s /\ req[t].role # None
    <3>1. Single(t)
      BY RolesInvOf
    <3>2. LinksFit(t)'
      BY <1>5, <2>3, <3>1 DEF Single, LinksFit, Visible
    <3>3. ~bare' => SeesAll(t)'
      BY <1>4, <1>5, <2>3, <3>1 DEF Single, SeesAll
    <3> QED BY <3>2, <3>3 DEF Single
  <2> QED BY <2>1, <2>2, <2>3
<1>8. ASSUME NEW t \in Slots, NEW u \in Slots PROVE Pair(t, u)'
  <2>1. CASE t = s \/ u = s
    BY <1>2, <1>6, <2>1 DEF Pair, Nested, OneHolder, BothNamed, SameRole
  <2>2. CASE t # s /\ u # s
    <3>1. req'[t] = req[t] /\ req'[u] = req[u] /\ Pair(t, u)
      BY <1>2, <2>2, RolesInvOf DEF OthersStay
    <3> QED BY <1>4, <3>1 DEF Pair, Nested, OneHolder, BothNamed, SameRole
  <2> QED BY <2>1, <2>2
<1>9. ~bare' => perms' = asked'
  BY <1>3, <1>4, RolesInvOf
<1>10. \A t \in Slots : RequestFits(req[t])'
  BY <1>2 DEF Shape
<1> QED BY <1>2, <1>7, <1>8, <1>9, <1>10 DEF RolesInv, LinksInv, GivenInv, Single, Pair

\* What the commit of u does to another transaction of its role.
LEMMA CommitBeside ==
    ASSUME RolesInv, NEW u \in Slots, Commit(u), NEW t \in Slots \ {u}, SameRole(u, t)
    PROVE  /\ req'[t].pc = req[t].pc /\ req'[t].role = req[t].role /\ req'[t].name = req[t].name
           /\ req'[t].set = req[t].set /\ req'[t].deleted = req[t].deleted
           /\ req'[t].inserted = req[t].inserted
           /\ req'[t].seen = IF req[t].pc = "deleting" THEN req[t].seen \ req[u].deleted ELSE req[t].seen
           /\ Held(req'[t]) = Held(req[t]) \ req[u].deleted
<1>1. Shape /\ Pair(u, t)
  BY RolesInvOf
<1>2. /\ req[u].pc = "commit"
      /\ IF req[t].role = req[u].role /\ req[t].pc = "deleting"
         THEN req'[t] = Woken(t, req[u].deleted) ELSE req'[t] = req[t]
  BY <1>1, CommitTo
<1>3. CASE req[t].pc = "deleting"
  BY <1>1, <1>2, <1>3, WokenFits DEF SameRole, Held
<1>4. CASE req[t].pc # "deleting"
  <2>1. req[t].deleted \cap req[u].deleted = {}
    BY <1>1 DEF Pair, Nested
  <2> QED BY <1>2, <1>4, <2>1 DEF Held
<1> QED BY <1>3, <1>4

LEMMA CommitKeeps ==
    ASSUME RolesInv, NEW u \in Slots, Commit(u)
    PROVE  RolesInv'
<1> DEFINE x == req[u].role
           del == req[u].deleted
<1>1. Shape /\ Single(u)
  BY RolesInvOf
<1>2. /\ Shape' /\ req[u].pc = "commit" /\ x \in Roles /\ req'[u] = Idle
      /\ \A t \in Slots \ {u} :
            IF req[t].role = x /\ req[t].pc = "deleting"
            THEN req'[t] = Woken(t, req[u].deleted) ELSE req'[t] = req[t]
      /\ role' = [role EXCEPT ![x].name = IF req[u].name = None THEN @ ELSE req[u].name]
      /\ perms' = [perms EXCEPT ![x] = Visible(u) \cup req[u].inserted]
      /\ asked' = [asked EXCEPT ![x] = IF req[u].set = None THEN @ ELSE req[u].set]
      /\ UNCHANGED control
  BY <1>1, CommitTo
<1>3. /\ role \in [Roles -> Role] /\ perms \in [Roles -> PermissionSets]
      /\ asked \in [Roles -> PermissionSets] /\ bare' = bare /\ x # None
  BY <1>1, <1>2, StaffAssumption DEF Shape, TypeOK, control
<1>4. perms'[x] = (perms[x] \ del) \cup req[u].inserted
  BY <1>2, <1>3 DEF Visible
<1>5. \A y \in Roles : role'[y].state = role[y].state
  BY <1>2, <1>3 DEF Role
<1>6. ASSUME NEW t \in Slots \ {u}, req[t].role # x
      PROVE  req'[t] = req[t] /\ (req[t].role \in Roles => perms'[req[t].role] = perms[req[t].role])
  BY <1>2, <1>3, <1>6
<1>7. req[u].set = None => del = {} /\ req[u].inserted = {}
  BY <1>1, Fits DEF RequestFits
<1>8. ~bare /\ req[u].set # None => del = perms[x] /\ req[u].inserted = req[u].set
  BY <1>1, <1>2, <1>3 DEF Single, SeesAll, GivesPermissions, Past
<1>9. ASSUME NEW t \in Slots \ {u}, req[t].role = x PROVE SameRole(u, t)
  BY <1>3, <1>9 DEF SameRole
<1>10. Idle.role = None
  BY DEF Idle
<1>11. ASSUME NEW t \in Slots PROVE Single(t)'
  <2>1. CASE t = u
    BY <1>2, <1>10, <2>1 DEF Single, LinksFit, SeesAll, GivesPermissions
  <2>2. CASE t # u /\ req[t].role # x
    <3>1. Single(t) /\ req[t].role \in Roles \cup {None}
      BY <1>1, RolesInvOf, Fits DEF Request
    <3>2. LinksFit(t)'
      BY <1>5, <1>6, <2>2, <3>1 DEF Single, LinksFit, Visible
    <3>3. ~bare' => SeesAll(t)'
      BY <1>3, <1>6, <2>2, <3>1 DEF Single, SeesAll, GivesPermissions
    <3> QED BY <3>2, <3>3 DEF Single
  <2>3. CASE t # u /\ req[t].role = x
    <3>1. SameRole(u, t) /\ Single(t) /\ Pair(u, t)
      BY <1>9, <2>3, RolesInvOf
    <3>2. /\ req'[t].pc = req[t].pc /\ req'[t].role = x /\ req'[t].name = req[t].name
          /\ req'[t].set = req[t].set /\ req'[t].deleted = req[t].deleted
          /\ req'[t].inserted = req[t].inserted
          /\ req'[t].seen = IF req[t].pc = "deleting" THEN req[t].seen \ del ELSE req[t].seen
          /\ Held(req'[t]) = Held(req[t]) \ del
      BY <2>3, <3>1, CommitBeside
    <3>3. LinksFit(t)'
      <4>1. Held(req'[t]) \subseteq perms'[x] /\ role'[x].state # "NONE"
        BY <1>2, <1>3, <1>4, <1>5, <2>3, <3>1, <3>2 DEF Single, LinksFit
      <4>2. ASSUME req[t].pc \in {"insertLinks", "commit"}, req[t].deleted # {}
            PROVE  perms[x] \subseteq perms'[x] /\ req'[t].seen = req[t].seen
        <5>1. Held(req[u]) = del /\ Held(req[t]) = req[t].deleted
          BY <1>2, <4>2 DEF Held
        <5>2. del \cap req[t].deleted = {} /\ (del \subseteq req[t].deleted \/ req[t].deleted \subseteq del)
          BY <3>1, <5>1 DEF Pair, Nested
        <5>3. del = {}
          BY <4>2, <5>2
        <5> QED BY <1>4, <3>2, <4>2, <5>3
      <4>3. Visible(t) = perms[x] \ req[t].deleted /\ Visible(t)' = perms'[x] \ req[t].deleted
        BY <2>3, <3>2 DEF Visible
      <4>4. req[t].pc = "insertLinks" /\ req[t].deleted # {} =>
                req[t].set \subseteq Visible(t)' \cup req'[t].seen
        BY <1>3, <2>3, <3>1, <4>2, <4>3 DEF Single, LinksFit
      <4>5. req[t].pc = "commit" /\ req[t].deleted # {} =>
                req[t].set \subseteq Visible(t)' \cup req[t].inserted
        BY <1>3, <2>3, <3>1, <4>2, <4>3 DEF Single, LinksFit
      <4> QED BY <3>2, <4>1, <4>4, <4>5 DEF LinksFit
    <3>4. ~bare' => SeesAll(t)'
      <4> SUFFICES ASSUME ~bare', GivesPermissions(req'[t]) PROVE SeesAll(t)'
        BY DEF SeesAll
      <4>1. GivesPermissions(req[t]) /\ ~bare
        BY <1>3, <2>3, <3>2 DEF GivesPermissions
      <4>2. CASE req[u].set = None
        <5>1. del = {} /\ perms'[x] = perms[x] /\ req'[t].seen = req[t].seen
          BY <1>4, <1>7, <3>2, <4>2
        <5> QED BY <2>3, <3>1, <3>2, <4>1, <5>1 DEF Single, SeesAll
      <4>3. CASE req[u].set # None
        <5>1. None \notin {req[u].name, req[t].name}
          BY <1>2, <1>3, <3>1, <4>1, <4>3 DEF Pair, BothNamed, GivesPermissions
        <5>2. req[t].pc \notin Locked
          BY <1>2, <3>1, <5>1 DEF Pair, OneHolder, RowHeld, Locked, Past
        <5> QED BY <3>2, <5>2 DEF SeesAll, Locked, Past
      <4> QED BY <4>2, <4>3
    <3> QED BY <3>3, <3>4 DEF Single
  <2> QED BY <2>1, <2>2, <2>3
<1>12. ASSUME NEW t \in Slots, NEW v \in Slots PROVE Pair(t, v)'
  <2>1. CASE t = u \/ v = u \/ t = v
    BY <1>2, <1>10, <2>1 DEF Pair, Nested, OneHolder, BothNamed, SameRole
  <2>2. CASE t # u /\ v # u /\ (req[t].role # x \/ req[v].role # x)
    <3>1. Pair(t, v)
      BY RolesInvOf
    <3>2. \A w \in {t, v} : req[w].role # x => req'[w] = req[w]
      BY <1>6, <2>2
    <3>3. \A w \in {t, v} : req[w].role = x => req'[w].role = x
      <4>1. ASSUME NEW w \in Slots \ {u}, req[w].role = x PROVE req'[w].role = x
        BY <1>9, <4>1, CommitBeside
      <4> QED BY <2>2, <4>1
    <3> QED BY <1>3, <2>2, <3>1, <3>2, <3>3 DEF Pair, Nested, OneHolder, BothNamed, SameRole
  <2>3. CASE t # u /\ v # u /\ t # v /\ req[t].role = x /\ req[v].role = x
    <3>1. Pair(t, v) /\ SameRole(t, v)
      BY <1>3, <2>3, RolesInvOf DEF SameRole
    <3>2. \A w \in {t, v} :
             /\ req'[w].pc = req[w].pc /\ req'[w].role = x /\ req'[w].name = req[w].name
             /\ req'[w].set = req[w].set /\ req'[w].deleted = req[w].deleted
             /\ Held(req'[w]) = Held(req[w]) \ del
      <4>1. ASSUME NEW w \in Slots \ {u}, req[w].role = x
            PROVE  /\ req'[w].pc = req[w].pc /\ req'[w].role = x /\ req'[w].name = req[w].name
                   /\ req'[w].set = req[w].set /\ req'[w].deleted = req[w].deleted
                   /\ Held(req'[w]) = Held(req[w]) \ del
        BY <1>9, <4>1, CommitBeside
      <4> QED BY <2>3, <4>1
    <3>3. Nested(t, v)'
      BY <3>1, <3>2 DEF Pair, Nested
    <3>4. OneHolder(t, v)'
      BY <3>1, <3>2 DEF Pair, OneHolder, RowHeld
    <3>5. ~bare' => BothNamed(t, v)'
      BY <1>3, <2>3, <3>1, <3>2 DEF Pair, BothNamed, GivesPermissions
    <3> QED BY <3>3, <3>4, <3>5 DEF Pair
  <2> QED BY <2>1, <2>2, <2>3
<1>13. ~bare' => perms' = asked'
  <2> SUFFICES ASSUME ~bare PROVE perms' = asked'
    BY <1>3
  <2>1. perms = asked
    BY RolesInvOf
  <2>2. perms'[x] = asked'[x]
    <3>1. CASE req[u].set = None
      BY <1>2, <1>3, <1>4, <1>7, <2>1, <3>1
    <3>2. CASE req[u].set # None
      BY <1>2, <1>3, <1>4, <1>8, <3>2
    <3> QED BY <3>1, <3>2
  <2> QED BY <1>2, <1>3, <2>1, <2>2
<1>14. \A t \in Slots : RequestFits(req[t])'
  BY <1>2 DEF Shape
<1> QED BY <1>2, <1>11, <1>12, <1>13, <1>14 DEF RolesInv, LinksInv, GivenInv, Single, Pair

LEMMA RolesInvKept == RolesInv /\ [Next]_vars => RolesInv'
<1> SUFFICES ASSUME RolesInv, [Next]_vars PROVE RolesInv'
  OBVIOUS
<1>1. CASE UNCHANGED vars
  <2>1. Shape' /\ bare' = bare
    BY <1>1, ShapeKept DEF RolesInv, vars, control
  <2>2. UNCHANGED <<role, perms, asked, req>>
    BY <1>1 DEF vars, roleTables
  <2>3. \A s \in Slots : Single(s)'
    BY <2>1, <2>2, RolesInvOf DEF Single, LinksFit, SeesAll, Visible
  <2>4. \A s, t \in Slots : Pair(s, t)'
    BY <2>1, <2>2, RolesInvOf DEF Pair, Nested, OneHolder, BothNamed, SameRole
  <2>5. ~bare' => perms' = asked'
    BY <2>1, <2>2, RolesInvOf
  <2>6. \A s \in Slots : RequestFits(req[s])'
    BY <2>1 DEF Shape
  <2> QED BY <2>1, <2>3, <2>4, <2>5, <2>6 DEF RolesInv, LinksInv, GivenInv, Single, Pair
<1>2. ASSUME NEW s \in Slots, Step(s) PROVE RolesInv'
  <2>0. Shape
    BY DEF RolesInv
  <2>1. CASE CommitNew(s) \/ Commit(s) \/ UpdateRole(s) \/ RemoveRole(s)
    BY <2>1, CommitNewKeeps, CommitKeeps, UpdateRoleKeeps
  <2>2. CASE WriteRow(s) \/ DeleteLinks(s) \/ Deleting(s) \/ ReadLinks(s) \/ InsertLinks(s)
    BY <2>2, WriteRowKeeps, DeleteLinksKeeps, DeletingKeeps, ReadLinksKeeps, InsertLinksKeeps
  <2>3. CASE CreateRole(s) \/ PersonStep(s) \/ RequestFails(s) \/ RoleRemove(s)
    <3>1. /\ Shape' /\ OthersStay(s) /\ UNCHANGED <<perms, asked>> /\ RolesRemain
          /\ req'[s].role = None
      <4>1. Idle.role = None
        BY DEF Idle
      <4>2. CASE CreateRole(s) \/ RequestFails(s)
        BY <2>0, <4>1, <4>2, CreateRoleTo, RequestFailsTo DEF roleTables, RolesRemain
      <4>3. CASE PersonStep(s)
        BY <2>0, <4>3, PersonStepTo DEF Bystands, roleTables, RolesRemain
      <4>4. CASE RoleRemove(s)
        <5>1. RolesRemain
          <6>1. role' = [role EXCEPT ![req[s].role].state = "GONE"] /\ role \in [Roles -> Role]
            BY <2>0, <4>4, RoleRemoveTo DEF Shape, TypeOK
          <6>2. \A x \in Roles : role'[x].state \in {role[x].state, "GONE"}
            BY <6>1 DEF Role
          <6> QED BY <6>2 DEF RolesRemain
        <5> QED BY <2>0, <4>1, <4>4, <5>1, RoleRemoveTo
      <4> QED BY <2>3, <4>2, <4>3, <4>4
    <3>2. bare => bare'
      <4>1. CASE CreateRole(s)
        BY <4>1 DEF CreateRole, Start
      <4>2. CASE PersonStep(s) \/ RequestFails(s) \/ RoleRemove(s)
        BY <2>0, <4>2, PersonStepTo, RequestFailsTo, RoleRemoveTo DEF Bystands, control
      <4> QED BY <2>3, <4>1, <4>2
    <3> QED BY <3>1, <3>2, NoRoleNow
  <2> QED BY <1>2, <2>1, <2>2, <2>3 DEF Step, RoleStep
<1> QED BY <1>1, <1>2 DEF Next

\* Only a commit changes what a role may do.
LEMMA StripsNone ==
    ASSUME RolesInv, [Next]_vars, NEW x \in Roles, perms[x] # {}, perms'[x] = {}
    PROVE  asked'[x] = {}
<1>0. Shape /\ perms'[x] # perms[x]
  BY DEF RolesInv
<1>1. PICK s \in Slots : Step(s)
  BY <1>0 DEF Next, vars, roleTables
<1>2. CASE CommitNew(s)
  BY <1>0, <1>2, CommitNewTo DEF Shape, TypeOK
<1>3. CASE Commit(s)
  <2> DEFINE y == req[s].role
  <2>1. /\ req[s].pc = "commit" /\ y \in Roles
        /\ perms' = [perms EXCEPT ![y] = Visible(s) \cup req[s].inserted]
        /\ asked' = [asked EXCEPT ![y] = IF req[s].set = None THEN @ ELSE req[s].set]
    BY <1>0, <1>3, CommitTo
  <2>2. x = y /\ perms'[x] = Visible(s) \cup req[s].inserted
    BY <1>0, <2>1 DEF Shape, TypeOK
  <2>3. Visible(s) = {} /\ req[s].inserted = {}
    BY <2>2
  <2>4. req[s].deleted # {}
    BY <2>2, <2>3 DEF Visible
  <2>5. RequestFits(req[s]) /\ LinksFit(s) /\ y # None
    BY <2>1, StaffAssumption, RolesInvOf DEF RolesInv, LinksInv
  <2>6. req[s].set # None
    BY <2>4, <2>5 DEF RequestFits
  <2>7. req[s].set = {}
    BY <2>1, <2>3, <2>4, <2>5 DEF LinksFit
  <2> QED BY <1>0, <2>1, <2>2, <2>6, <2>7 DEF Shape, TypeOK
<1>4. CASE CreateRole(s) \/ UpdateRole(s) \/ RemoveRole(s) \/ RoleRemove(s)
  BY <1>0, <1>4, CreateRoleTo, UpdateRoleTo, RemoveRoleTo, RoleRemoveTo DEF roleTables
<1>5. CASE WriteRow(s) \/ DeleteLinks(s) \/ Deleting(s) \/ ReadLinks(s) \/ InsertLinks(s)
  BY <1>0, <1>5, QuietRoles DEF roleTables
<1>6. CASE PersonStep(s) \/ RequestFails(s)
  BY <1>0, <1>6, PersonStepTo, RequestFailsTo DEF Bystands, roleTables
<1> QED BY <1>1, <1>2, <1>3, <1>4, <1>5, <1>6 DEF Step, RoleStep

--------------------------------------------------------------------------------
\* Without overlap only the request that moves is there.
LEMMA BusyOrFirst ==
    ASSUME Shape, NEW s \in Slots, Step(s), calm'
    PROVE  calm /\ (req[s] = Idle => \A t \in Slots : req[t] = Idle)
<1>1. CASE CreateRole(s) \/ UpdateRole(s) \/ RemoveRole(s)
  BY <1>1 DEF CreateRole, UpdateRole, RemoveRole, Start
<1>2. CASE CreateAdmin(s) \/ CreateUser(s) \/ UpdatePerson(s) \/ SetUpAccount(s) \/ RemovePerson(s)
  <2>1. (\E r : Start(s, r))
    BY <1>2 DEF CreateAdmin, CreateUser, UpdatePerson, SetUpAccount, RemovePerson
  <2> QED BY <2>1 DEF Start
<1>3. Idle.pc = "idle"
  BY DEF Idle
<1>4. CASE WriteRow(s) \/ DeleteLinks(s) \/ Deleting(s) \/ ReadLinks(s) \/ InsertLinks(s)
  <2>1. req[s].pc # "idle"
    BY <1>4 DEF WriteRow, DeleteLinks, Deleting, ReadLinks, InsertLinks
  <2> QED BY <1>3, <1>4, <2>1, QuietRoles DEF control
<1>5. CASE CommitNew(s) \/ Commit(s) \/ RoleRemove(s)
  BY <1>3, <1>5, CommitNewTo, CommitTo, RoleRemoveTo DEF control
<1>6. CASE Upload(s) \/ Insert(s) \/ InsertRefused(s) \/ Preload(s)
  BY <1>3, <1>6, UploadTo, InsertTo, InsertRefusedTo, PreloadTo DEF control
<1>7. CASE Save(s) \/ DeleteObject(s) \/ SoftRemove(s)
  BY <1>3, <1>7, SaveTo, DeleteObjectTo, SoftRemoveTo DEF control
<1>8. CASE RequestFails(s)
  BY <1>8 DEF RequestFails
<1> QED BY <1>1, <1>2, <1>4, <1>5, <1>6, <1>7, <1>8 DEF Step, RoleStep, PersonStep

LEMMA StepTo ==
    ASSUME Shape, NEW s \in Slots, Step(s)
    PROVE  Shape' /\ \A t \in Slots \ {s} : req[t] = Idle => req'[t] = Idle
<1>1. CASE CreateRole(s) \/ CommitNew(s) \/ UpdateRole(s) \/ RemoveRole(s) \/ RoleRemove(s)
  BY <1>1, CreateRoleTo, CommitNewTo, UpdateRoleTo, RemoveRoleTo, RoleRemoveTo DEF OthersStay
<1>2. CASE WriteRow(s) \/ DeleteLinks(s) \/ Deleting(s) \/ ReadLinks(s) \/ InsertLinks(s)
  BY <1>2, WriteRowTo, DeleteLinksTo, DeletingTo, ReadLinksTo, InsertLinksTo DEF OthersStay
<1>3. CASE Commit(s)
  <2>1. Idle.pc # "deleting"
    BY DEF Idle
  <2> QED BY <1>3, <2>1, CommitTo
<1>4. CASE PersonStep(s)
  BY <1>4, PersonStepTo DEF Bystands, OthersStay
<1>5. CASE RequestFails(s)
  BY <1>5, RequestFailsTo DEF OthersStay
<1> QED BY <1>1, <1>2, <1>3, <1>4, <1>5 DEF Step, RoleStep

LEMMA AloneIs ==
    ASSUME Shape, AloneInv, NEW s \in Slots, Step(s), calm'
    PROVE  /\ calm /\ Shape' /\ Knows(req[s])
           /\ \A t \in Slots \ {s} : req[t] = Idle /\ req'[t] = Idle
           /\ \A p \in Admins : PersonLive(p) => RoleThere(person[p].role)
<1>1. calm /\ (req[s] = Idle => \A t \in Slots : req[t] = Idle)
  BY BusyOrFirst
<1>2. \A t \in Slots \ {s} : req[t] = Idle
  BY <1>1 DEF AloneInv
<1> QED BY <1>1, <1>2, StepTo DEF AloneInv

AdminsHaveRoles == \A p \in Admins : PersonLive(p) => RoleThere(person[p].role)

LEMMA KnowsNothing == Knows(Idle) /\ Knows(Idle)'
<1>1. Idle.pc = "idle" /\ Idle.kind = None /\ None # "ADMIN"
  BY StaffAssumption DEF Idle
<1> QED BY <1>1 DEF Knows

LEMMA Kindless ==
    ASSUME Shape, NEW s \in Slots, req[s].pc # "insert" /\ (req[s].pc = "upload" => req[s].next # "insert")
    PROVE  req[s].kind = None /\ None # "ADMIN"
  BY Fits, StaffAssumption DEF RequestFits

\* The roles that are there stay, and nobody's role changes.
LEMMA SameRoles ==
    ASSUME AdminsHaveRoles, UNCHANGED <<role, person>>
    PROVE  AdminsHaveRoles'
  BY DEF AdminsHaveRoles, PersonLive, RoleThere, RoleLive

LEMMA RolesKnown ==
    ASSUME Shape, NEW s \in Slots, RoleStep(s), Shape', Knows(req[s]), AdminsHaveRoles
    PROVE  Knows(req[s])' /\ AdminsHaveRoles'
<1> DEFINE r == req'[s]
<1>1. ASSUME r.pc \notin {"removeRole", "insert", "upload", "preload", "save"} PROVE Knows(req[s])'
  <2>1. RequestFits(r)
    BY DEF Shape
  <2>2. r.kind # "ADMIN"
    BY <1>1, <2>1, StaffAssumption DEF RequestFits
  <2> QED BY <1>1, <2>2 DEF Knows
<1>2. CASE CreateRole(s) \/ UpdateRole(s)
  <2>1. UNCHANGED <<role, person>> /\ r.pc \in {"commitNew", "writeRow", "deleteLinks"}
    BY <1>2, CreateRoleTo, UpdateRoleTo DEF roleTables
  <2> QED BY <1>1, <2>1, SameRoles
<1>3. CASE RemoveRole(s)
  <2>1. /\ UNCHANGED <<role, person>> /\ r.pc = "removeRole"
        /\ Unassigned(r.role) /\ r.kind = None
    BY <1>3, RemoveRoleTo DEF roleTables, StartsAt
  <2>2. Knows(req[s])'
    BY <2>1, StaffAssumption DEF Knows, Unassigned, PersonLive
  <2> QED BY <2>1, <2>2, SameRoles
<1>4. CASE WriteRow(s) \/ DeleteLinks(s) \/ Deleting(s) \/ ReadLinks(s) \/ InsertLinks(s)
  <2>1. UNCHANGED <<role, person>>
    BY <1>4, QuietRoles DEF roleTables
  <2>2. r.pc \notin {"removeRole", "insert", "upload", "preload", "save"}
    <3>1. Idle.pc = "idle"
      BY DEF Idle
    <3>2. CASE WriteRow(s) \/ Deleting(s)
      <4>1. r.pc \in {"commit", "deleteLinks", "readLinks"}
        BY <3>2, WriteRowTo, DeletingTo
      <4> QED BY <4>1
    <3>3. CASE DeleteLinks(s) \/ ReadLinks(s) \/ InsertLinks(s)
      BY <3>1, <3>3, DeleteLinksTo, ReadLinksTo, InsertLinksTo
    <3> QED BY <1>4, <3>2, <3>3
  <2> QED BY <1>1, <2>1, <2>2, SameRoles
<1>5. CASE CommitNew(s) \/ Commit(s)
  <2>1. UNCHANGED person /\ r = Idle
    BY <1>5, CommitNewTo, CommitTo
  <2>2. \A x \in Roles : RoleLive(x) => RoleLive(x)'
    <3>1. CASE CommitNew(s)
      BY <3>1, CommitNewTo DEF RoleLive, Shape, TypeOK
    <3>2. CASE Commit(s)
      <4>1. role' = [role EXCEPT ![req[s].role].name = IF req[s].name = None THEN @ ELSE req[s].name]
            /\ role \in [Roles -> Role]
        BY <3>2, CommitTo DEF Shape, TypeOK
      <4> QED BY <4>1 DEF RoleLive, Role
    <3> QED BY <1>5, <3>1, <3>2
  <2>3. \A p \in People : person[p].role \in Roles \cup {None}
    BY Picture DEF Person
  <2>4. AdminsHaveRoles'
    BY <2>1, <2>2, <2>3 DEF AdminsHaveRoles, PersonLive, RoleThere, People
  <2> QED BY <2>1, <2>4, KnowsNothing DEF Knows, Unassigned, PersonLive, RoleThere, RoleLive
<1>6. CASE RoleRemove(s)
  <2>1. /\ UNCHANGED person /\ r = Idle /\ req[s].pc = "removeRole"
        /\ role' = [role EXCEPT ![req[s].role].state = "GONE"]
    BY <1>6, RoleRemoveTo
  <2>2. Unassigned(req[s].role)
    BY <2>1 DEF Knows
  <2>3. \A x \in Roles \ {req[s].role} : role'[x] = role[x]
    BY <2>1 DEF Shape, TypeOK
  <2>4. \A p \in People : person[p].role \in Roles \cup {None}
    BY Picture DEF Person
  <2>5. AdminsHaveRoles'
    BY <2>1, <2>2, <2>3, <2>4 DEF AdminsHaveRoles, Unassigned, PersonLive, RoleThere, RoleLive, People
  <2> QED BY <1>1, <2>1, <2>5 DEF Idle
<1> QED BY <1>2, <1>3, <1>4, <1>5, <1>6 DEF RoleStep

\* The start of a request about a person, seen from the roles.
LEMMA BeginsKnown ==
    ASSUME Shape, NEW s \in Slots, Bystands(s), AdminsHaveRoles, UNCHANGED person,
           req'[s].kind = "ADMIN" => RoleThere(req'[s].row.role),
           req'[s].pc # "removeRole",
           req'[s].id \in Admins => /\ req'[s].pc \in {"upload", "preload"} =>
                                          req'[s].row.role = None \/ RoleThere(req'[s].row.role)
                                    /\ req'[s].pc = "upload" => req'[s].next # "save"
                                    /\ req'[s].pc = "save" => RoleThere(req'[s].row.role)
    PROVE  Knows(req[s])' /\ AdminsHaveRoles'
<1>1. UNCHANGED role
  BY DEF Bystands, roleTables
<1>2. RoleThere(req[s].row.role)' <=> RoleThere(req'[s].row.role)
  BY <1>1 DEF RoleThere, RoleLive
<1> QED BY <1>1, <1>2, SameRoles DEF Knows

LEMMA PersonsKnown ==
    ASSUME Shape, NEW s \in Slots, PersonStep(s), Knows(req[s]), AdminsHaveRoles
    PROVE  Knows(req[s])' /\ AdminsHaveRoles'
<1> DEFINE r == req'[s]
<1>0. Bystands(s) /\ UNCHANGED role /\ None \notin {"ADMIN"} /\ None \notin People
  BY PersonStepTo, StaffAssumption DEF Bystands, roleTables
<1>1. CASE CreateAdmin(s)
  <2>1. PICK x \in Roles, pc \in {"upload", "insert"}, k \in {Empty, Link} :
           /\ RoleLive(x)
           /\ Begins(s, pc, None, "ADMIN", k, Empty, [NoPerson EXCEPT !.role = x], "insert")
    BY <1>1, CreateAdminTo
  <2>2. /\ r.pc \in {"upload", "insert"} /\ r.id = None /\ RoleThere(r.row.role) /\ UNCHANGED person
        /\ r.next = "insert"
    BY <2>1, StaffAssumption DEF Begins, NoPerson, RoleThere
  <2> QED BY <1>0, <2>2, BeginsKnown DEF People
<1>2. CASE CreateUser(s)
  <2>1. PICK pc \in {"upload", "insert"}, kind \in {"REGISTER", "BEGIN", "ENTER"}, k \in {Empty, Link} :
           Begins(s, pc, None, kind, k, Empty, NoPerson, "insert")
    BY <1>2, CreateUserTo
  <2>2. /\ r.pc \in {"upload", "insert"} /\ r.id = None /\ r.kind # "ADMIN" /\ UNCHANGED person
        /\ r.next = "insert"
    BY <2>1 DEF Begins
  <2> QED BY <1>0, <2>2, BeginsKnown DEF People
<1>3. CASE UpdatePerson(s)
  <2>1. PICK p \in People, x \in Roles \cup {None}, pc \in {"upload", "preload"} :
          \E k \in {person[p].picture, Empty, Link} :
           /\ PersonLive(p) /\ (x \notin {None, person[p].role} => RoleLive(x))
           /\ Begins(s, pc, p, None, k, person[p].picture, [NoPerson EXCEPT !.role = x], "preload")
    BY <1>3, UpdatePersonTo
  <2>2. /\ r.pc \in {"upload", "preload"} /\ r.id = p /\ r.kind = None /\ r.row.role = x
        /\ UNCHANGED person /\ r.next = "preload"
    BY <2>1 DEF Begins, NoPerson
  <2>3. p \in Admins => x = None \/ RoleThere(x)
    BY <2>1 DEF AdminsHaveRoles, RoleThere
  <2> QED BY <1>0, <2>2, <2>3, BeginsKnown
<1>4. CASE SetUpAccount(s)
  <2>1. PICK p \in Users, pc \in {"upload", "save"} : \E k \in {person[p].picture, Empty, Link} :
           /\ person[p].state = "BEGUN"
           /\ Begins(s, pc, p, None, k, person[p].picture,
                     [state |-> "LIVE", role |-> None, picture |-> k], "save")
    BY <1>4, SetUpAccountTo
  <2>2. /\ r.pc \in {"upload", "save"} /\ r.id = p /\ r.kind = None /\ UNCHANGED person
    BY <2>1 DEF Begins
  <2>3. p \notin Admins
    BY StaffAssumption
  <2> QED BY <1>0, <2>2, <2>3, BeginsKnown
<1>5. CASE RemovePerson(s)
  <2>1. PICK p \in People, pc \in {"softRemove", "deleteObject"} :
           Begins(s, pc, p, None, Empty, person[p].picture, NoPerson, "softRemove")
    BY <1>5, RemovePersonTo
  <2>2. r.pc \in {"softRemove", "deleteObject"} /\ r.kind = None /\ UNCHANGED person
    BY <2>1 DEF Begins
  <2> QED BY <1>0, <2>2, BeginsKnown
<1>6. CASE Upload(s)
  <2>1. /\ Keeps(s) /\ req[s].pc = "upload" /\ UNCHANGED person
        /\ r.pc = req[s].next /\ r.next = req[s].next /\ req[s].row \in Person
        /\ r.row = req[s].row \/ \E k \in Pictures : r.row = [req[s].row EXCEPT !.picture = k]
    BY <1>6, UploadTo, Fits DEF Request, FreshKeys
  <2>2. r.row.role = req[s].row.role
    BY <2>1 DEF Person
  <2>3. r.pc \in {"insert", "preload", "save"}
    BY <2>1, Fits DEF RequestFits
  <2> QED BY <1>0, <2>1, <2>2, <2>3, BeginsKnown DEF Knows, Keeps
<1>7. CASE Insert(s)
  <2>1. r = Idle /\ \E p \in People, state \in {"BEGUN", "LIVE"} :
           /\ p \in Admins => req[s].kind = "ADMIN"
           /\ person' = [person EXCEPT ![p] = [state |-> state, role |-> req[s].row.role,
                                               picture |-> req[s].picture]]
    BY <1>7, InsertTo
  <2>2. AdminsHaveRoles'
    BY <1>0, <2>1 DEF Knows, AdminsHaveRoles, PersonLive, RoleThere, RoleLive, Shape, TypeOK, People
  <2> QED BY <1>0, <2>1, <2>2 DEF Knows, Idle
<1>8. CASE InsertRefused(s)
  <2>1. r = Idle /\ UNCHANGED person
    BY <1>8, InsertRefusedTo
  <2> QED BY <1>0, <2>1, BeginsKnown DEF Idle
<1>9. CASE Preload(s)
  <2>1. UNCHANGED person /\ req[s].pc = "preload" /\ req[s].kind = None
    BY <1>9, PreloadTo, Kindless
  <2>2. CASE r = Idle
    BY <1>0, <2>1, <2>2, BeginsKnown DEF Idle
  <2>3. CASE r # Idle
    <3>1. /\ PersonLive(req[s].id) /\ Keeps(s) /\ r.pc = "save"
          /\ r.row.role = Resolved(req[s].row.role, person[req[s].id].role)
      BY <1>9, <2>3, PreloadTo
    <3>2. req[s].id \in Admins => RoleThere(r.row.role)
      BY <2>1, <3>1 DEF Resolved, Knows, AdminsHaveRoles
    <3> QED BY <1>0, <2>1, <3>1, <3>2, BeginsKnown DEF Keeps
  <2> QED BY <2>2, <2>3
<1>10. CASE Save(s)
  <2>1. /\ req[s].pc = "save" /\ req[s].id \in People /\ req[s].kind = None
        /\ person' = [person EXCEPT ![req[s].id] = req[s].row]
        /\ r = Idle \/ (Keeps(s) /\ r.pc = "deleteObject")
    BY <1>10, SaveTo, Kindless
  <2>2. AdminsHaveRoles'
    BY <1>0, <2>1 DEF Knows, AdminsHaveRoles, PersonLive, RoleThere, RoleLive, Shape, TypeOK
  <2> QED BY <1>0, <2>1, <2>2 DEF Knows, Idle, Keeps
<1>11. CASE DeleteObject(s)
  <2>1. /\ req[s].pc = "deleteObject" /\ UNCHANGED person /\ req[s].kind = None
        /\ r = Idle \/ (Keeps(s) /\ r.pc = "softRemove")
    BY <1>11, DeleteObjectTo, Kindless
  <2> QED BY <1>0, <2>1, BeginsKnown DEF Idle, Keeps
<1>12. CASE SoftRemove(s)
  <2>1. r = Idle /\ req[s].id \in People /\ person' = [person EXCEPT ![req[s].id].state = "GONE"]
    BY <1>12, SoftRemoveTo
  <2>2. \A p \in People : PersonLive(p)' => person'[p] = person[p]
    BY <2>1 DEF PersonLive, Shape, TypeOK, Person
  <2>3. AdminsHaveRoles'
    BY <1>0, <2>2 DEF AdminsHaveRoles, PersonLive, RoleThere, RoleLive, People
  <2> QED BY <1>0, <2>1, <2>3 DEF Knows, Idle
<1> QED BY <1>1, <1>2, <1>3, <1>4, <1>5, <1>6, <1>7, <1>8, <1>9, <1>10, <1>11, <1>12 DEF PersonStep

LEMMA AloneKept == Shape /\ AloneInv /\ [Next]_vars => AloneInv'
<1> SUFFICES ASSUME Shape, AloneInv, [Next]_vars PROVE AloneInv'
  OBVIOUS
<1>1. CASE UNCHANGED vars
  BY <1>1 DEF AloneInv, vars, roleTables, control, Knows, Unassigned, PersonLive, RoleThere, RoleLive
<1>2. ASSUME NEW s \in Slots, Step(s), calm' PROVE AloneInv'
  <2>1. /\ Shape' /\ Knows(req[s]) /\ AdminsHaveRoles
        /\ \A t \in Slots \ {s} : req[t] = Idle /\ req'[t] = Idle
    BY <1>2, AloneIs DEF AdminsHaveRoles
  <2>2. Knows(req[s])' /\ AdminsHaveRoles'
    <3>1. CASE RoleStep(s)
      BY <2>1, <3>1, RolesKnown
    <3>2. CASE PersonStep(s)
      BY <2>1, <3>2, PersonsKnown
    <3>3. CASE RequestFails(s)
      <4>1. UNCHANGED <<role, person>> /\ req'[s] = Idle
        BY <3>3, RequestFailsTo DEF roleTables
      <4>2. Idle.pc = "idle" /\ Idle.kind = None /\ None # "ADMIN"
        BY StaffAssumption DEF Idle
      <4> QED BY <2>1, <4>1, <4>2, SameRoles DEF Knows
    <3> QED BY <1>2, <3>1, <3>2, <3>3 DEF Step
  <2>3. \A t \in Slots : Knows(req[t])'
    <3>1. Idle.pc = "idle" /\ Idle.kind = None /\ None # "ADMIN"
      BY StaffAssumption DEF Idle
    <3>2. ASSUME NEW t \in Slots \ {s} PROVE Knows(req[t])'
      BY <2>1, <3>1 DEF Knows
    <3> QED BY <2>2, <3>2
  <2> QED BY <2>1, <2>2, <2>3 DEF AloneInv, AdminsHaveRoles
<1>3. CASE ~calm'
  BY <1>3 DEF AloneInv
<1> QED BY <1>1, <1>2, <1>3 DEF Next

--------------------------------------------------------------------------------
\* Without overlap or failure, objects and pictures as the one request s leaves them.
Holding(s) ==
    /\ KeysApart /\ Owns(req[s])
    /\ \A p \in People :
          /\ PersonLive(p) /\ person[p].picture \in Pictures
          /\ ~(req[s].id = p /\ req[s].pc = "softRemove")
          => person[p].picture \in bucket
    /\ bucket \subseteq Shown \cup stranded \cup Pending(req[s])

LEMMA IdleOwns == Owns(Idle) /\ Pending(Idle) = {}
<1>1. Idle.pc = "idle"
  BY DEF Idle
<1> QED BY <1>1 DEF Owns, Pending

LEMMA HoldsBefore ==
    ASSUME Shape, ObjectsInv, calm, fails = 0, NEW s \in Slots, \A t \in Slots \ {s} : req[t] = Idle
    PROVE  Holding(s)
<1>1. \A t \in Slots \ {s} : Pending(req[t]) = {} /\ req[t].pc = "idle"
  BY IdleOwns DEF Idle
<1>2. \A p \in People : Leaving(p) => req[s].id = p /\ req[s].pc = "softRemove"
  BY <1>1 DEF Leaving
<1>3. UNION {Pending(req[t]) : t \in Slots} \subseteq Pending(req[s])
  BY <1>1
<1> QED BY <1>2, <1>3 DEF ObjectsInv, Holding

LEMMA HoldsAfter ==
    ASSUME NEW s \in Slots, \A t \in Slots \ {s} : req'[t] = Idle, Holding(s)'
    PROVE  ObjectsInv'
<1>1. Idle.pc = "idle"
  BY DEF Idle
<1>2. ASSUME NEW t \in Slots PROVE Owns(req[t])'
  <2>1. CASE t = s
    BY <2>1 DEF Holding
  <2>2. CASE t # s
    <3>1. req'[t].pc = "idle"
      BY <1>1, <2>2
    <3> QED BY <3>1 DEF Owns
  <2> QED BY <2>1, <2>2
<1>3. \A p \in People : req'[s].id = p /\ req'[s].pc = "softRemove" => Leaving(p)'
  BY DEF Leaving
<1>4. Pending(req[s])' \subseteq UNION {Pending(req'[t]) : t \in Slots}
  BY DEF Pending
<1>5. UNION {Pending(req'[t]) : t \in Slots} = (UNION {Pending(req[t]) : t \in Slots})'
  BY DEF Pending
<1> QED BY <1>2, <1>3, <1>4, <1>5 DEF ObjectsInv, Holding

LEMMA NoneFailedYet ==
    ASSUME Shape, NEW s \in Slots, Step(s), fails' = 0
    PROVE  fails = 0
<1>1. CASE CreateRole(s) \/ UpdateRole(s) \/ RemoveRole(s) \/ CommitNew(s) \/ Commit(s) \/ RoleRemove(s)
  BY <1>1, CreateRoleTo, UpdateRoleTo, RemoveRoleTo, CommitNewTo, CommitTo, RoleRemoveTo DEF control
<1>2. CASE CreateAdmin(s) \/ CreateUser(s) \/ UpdatePerson(s) \/ SetUpAccount(s) \/ RemovePerson(s)
  <2>1. (\E r : Start(s, r))
    BY <1>2 DEF CreateAdmin, CreateUser, UpdatePerson, SetUpAccount, RemovePerson
  <2> QED BY <2>1 DEF Start
<1>3. CASE WriteRow(s) \/ DeleteLinks(s) \/ Deleting(s) \/ ReadLinks(s) \/ InsertLinks(s)
  BY <1>3, QuietRoles DEF control
<1>4. CASE Insert(s) \/ InsertRefused(s) \/ Preload(s) \/ Save(s) \/ SoftRemove(s)
  BY <1>4, InsertTo, InsertRefusedTo, PreloadTo, SaveTo, SoftRemoveTo DEF control
<1>5. CASE Upload(s) \/ DeleteObject(s) \/ RequestFails(s)
  <2>1. fails' = fails \/ fails' > 0
    BY <1>5, UploadTo, DeleteObjectTo, RequestFailsTo
  <2> QED BY <2>1
<1> QED BY <1>1, <1>2, <1>3, <1>4, <1>5 DEF Step, RoleStep, PersonStep

LEMMA NoKeys == Empty \notin Pictures /\ Link \notin Pictures
  BY StaffAssumption

\* Neither people nor objects move, and the request has no key in its hands before and is not
\* about to remove anybody.
LEMMA Untouched ==
    ASSUME NEW s \in Slots, Holding(s), UNCHANGED <<person, objects>>,
           req[s].pc \notin {"insert", "preload", "save", "deleteObject", "softRemove"}, Owns(req[s])'
    PROVE  Holding(s)'
<1>1. Pending(req[s]) = {}
  BY DEF Pending
<1>2. KeysApart' /\ Shown' = Shown
  BY DEF Holding, KeysApart, Shown, PersonLive
<1>3. bucket' \subseteq Shown' \cup stranded' \cup Pending(req[s])'
  BY <1>1, <1>2 DEF Holding, objects
<1>4. \A p \in People : PersonLive(p)' /\ person'[p].picture \in Pictures => person'[p].picture \in bucket'
  BY DEF Holding, PersonLive, objects
<1> QED BY <1>2, <1>3, <1>4 DEF Holding

LEMMA RolesHold ==
    ASSUME Shape, NEW s \in Slots, RoleStep(s), Holding(s)
    PROVE  Holding(s)'
<1> DEFINE busy == {"upload", "insert", "preload", "save", "deleteObject", "softRemove"}
<1>0. Idle.pc = "idle"
  BY DEF Idle
<1>1. CASE CreateRole(s) \/ UpdateRole(s) \/ RemoveRole(s)
  <2>1. UNCHANGED <<person, objects>> /\ req[s] = Idle /\ req'[s].pc \notin busy
    BY <1>1, CreateRoleTo, UpdateRoleTo, RemoveRoleTo
  <2> QED BY <1>0, <2>1, Untouched DEF Owns
<1>2. CASE CommitNew(s) \/ Commit(s) \/ RoleRemove(s)
  <2>1. UNCHANGED <<person, objects>> /\ req[s].pc \notin busy /\ req'[s] = Idle
    BY <1>2, CommitNewTo, CommitTo, RoleRemoveTo
  <2> QED BY <1>0, <2>1, Untouched DEF Owns
<1>3. CASE WriteRow(s) \/ Deleting(s)
  <2>1. UNCHANGED <<person, objects>> /\ req[s].pc \notin busy
    BY <1>3, QuietRoles, WriteRowTo, DeletingTo
  <2>2. req'[s].pc \in {"commit", "deleteLinks", "readLinks"}
    BY <1>3, WriteRowTo, DeletingTo
  <2> QED BY <2>1, <2>2, Untouched DEF Owns
<1>4. CASE DeleteLinks(s) \/ ReadLinks(s) \/ InsertLinks(s)
  <2>1. UNCHANGED <<person, objects>> /\ req[s].pc \notin busy /\ req'[s].pc \notin busy
    BY <1>0, <1>4, QuietRoles, DeleteLinksTo, ReadLinksTo, InsertLinksTo
  <2> QED BY <2>1, Untouched DEF Owns
<1> QED BY <1>1, <1>2, <1>3, <1>4 DEF RoleStep

LEMMA StartsHold ==
    ASSUME Shape, NEW s \in Slots, Holding(s),
           CreateAdmin(s) \/ CreateUser(s) \/ UpdatePerson(s) \/ SetUpAccount(s) \/ RemovePerson(s)
    PROVE  Holding(s)'
<1> DEFINE r == req'[s]
<1>0. Idle.pc = "idle"
  BY DEF Idle
<1>1. CASE CreateAdmin(s) \/ CreateUser(s)
  <2>1. /\ UNCHANGED <<person, objects>> /\ req[s] = Idle /\ r.pc \in {"upload", "insert"}
        /\ r.next = "insert" /\ r.picture \in {Empty, Link}
    BY <1>1, CreateAdminTo, CreateUserTo DEF Begins
  <2>2. Owns(req[s])'
    BY <2>1, NoKeys DEF Owns, New
  <2> QED BY <1>0, <2>1, <2>2, Untouched
<1>2. CASE UpdatePerson(s)
  <2>1. PICK p \in People, x \in Roles \cup {None}, pc \in {"upload", "preload"} :
          \E k \in {person[p].picture, Empty, Link} :
           /\ PersonLive(p)
           /\ Begins(s, pc, p, None, k, person[p].picture, [NoPerson EXCEPT !.role = x], "preload")
    BY <1>2, UpdatePersonTo
  <2>2. /\ UNCHANGED <<person, objects>> /\ req[s] = Idle /\ r.pc \in {"upload", "preload"} /\ r.id = p
        /\ r.next = "preload" /\ r.picture \in {person[p].picture, Empty, Link}
        /\ r.old = person[p].picture
    BY <2>1 DEF Begins
  <2>3. Owns(req[s])'
    BY <2>1, <2>2, NoKeys DEF Owns, New, Changes, PersonLive
  <2> QED BY <1>0, <2>2, <2>3, Untouched
<1>3. CASE SetUpAccount(s)
  <2>1. PICK p \in Users, pc \in {"upload", "save"} : \E k \in {person[p].picture, Empty, Link} :
           /\ person[p].state = "BEGUN"
           /\ Begins(s, pc, p, None, k, person[p].picture,
                     [state |-> "LIVE", role |-> None, picture |-> k], "save")
    BY <1>3, SetUpAccountTo
  <2>2. /\ UNCHANGED <<person, objects>> /\ req[s] = Idle /\ r.pc \in {"upload", "save"} /\ r.id = p
        /\ r.next = "save" /\ r.picture \in {person[p].picture, Empty, Link}
        /\ r.old = person[p].picture /\ r.row.state = "LIVE" /\ r.row.picture = r.picture
    BY <2>1 DEF Begins
  <2>3. Owns(req[s])'
    BY <2>1, <2>2, NoKeys DEF Owns, New, Changes, PersonLive
  <2> QED BY <1>0, <2>2, <2>3, Untouched
<1>4. CASE RemovePerson(s)
  <2>1. PICK p \in People, pc \in {"softRemove", "deleteObject"} :
           /\ PersonLive(p) /\ (pc = "softRemove" <=> person[p].picture = Empty)
           /\ Begins(s, pc, p, None, Empty, person[p].picture, NoPerson, "softRemove")
    BY <1>4, RemovePersonTo
  <2>2. /\ UNCHANGED <<person, objects>> /\ req[s] = Idle /\ r.pc \in {"softRemove", "deleteObject"}
        /\ r.id = p /\ r.next = "softRemove" /\ r.old = person[p].picture
        /\ (r.pc = "softRemove" => person[p].picture = Empty)
    BY <2>1 DEF Begins
  <2>3. bucket \subseteq Pictures
    BY DEF Shape, TypeOK
  <2>4. Owns(req[s])'
    BY <2>1, <2>2, <2>3, NoKeys DEF Owns, Changes, PersonLive, objects
  <2> QED BY <1>0, <2>2, <2>4, Untouched
<1> QED BY <1>1, <1>2, <1>3, <1>4

LEMMA UploadHolds ==
    ASSUME Shape, NEW s \in Slots, Holding(s), Upload(s), fails' = 0
    PROVE  Holding(s)'
<1> DEFINE r == req'[s]
<1>1. /\ req[s].pc = "upload" /\ UNCHANGED <<person, stranded>>
      /\ r.pc = req[s].next /\ r.id = req[s].id /\ r.old = req[s].old
      /\ r.pc \in {"insert", "preload", "save"} /\ req[s].row \in Person
  BY UploadTo, Fits DEF Keeps, RequestFits, Request
<1>2. PICK k \in FreshKeys(s) : /\ bucket' = bucket \cup {k} /\ r.picture = k
                                /\ r.row = [req[s].row EXCEPT !.picture = k]
  <2>1. ~(fails' > 0)
    OBVIOUS
  <2> QED BY <2>1, UploadTo
<1>3. k \in Pictures /\ k \notin bucket /\ \A p \in People : person[p].picture # k
  BY DEF FreshKeys
<1>4. KeysApart' /\ Shown' = Shown /\ Pending(req[s]) = {}
  BY <1>1 DEF Holding, KeysApart, Shown, PersonLive, Pending
<1>5. r.row.state = req[s].row.state /\ r.row.picture = k
  BY <1>1, <1>2 DEF Person
<1>6. Owns(req[s])'
  <2>1. New(k)'
    BY <1>1, <1>2, <1>3 DEF New
  <2>2. r.pc # "insert" => Changes(req[s])'
    BY <1>1 DEF Holding, Owns, Changes, PersonLive
  <2>3. r.pc = "save" => r.row.state = "LIVE"
    BY <1>1, <1>5 DEF Holding, Owns
  <2> QED BY <1>1, <1>2, <1>5, <2>1, <2>2, <2>3 DEF Owns
<1>7. bucket' \subseteq Shown' \cup stranded' \cup Pending(req[s])'
  <2>1. Pending(r) = {k}
    BY <1>1, <1>2 DEF Pending
  <2> QED BY <1>1, <1>2, <1>4, <2>1 DEF Holding, Pending
<1>8. \A p \in People : PersonLive(p)' /\ person'[p].picture \in Pictures => person'[p].picture \in bucket'
  BY <1>1, <1>2 DEF Holding, PersonLive
<1> QED BY <1>4, <1>6, <1>7, <1>8 DEF Holding

LEMMA InsertHolds ==
    ASSUME Shape, NEW s \in Slots, Holding(s), Insert(s) \/ InsertRefused(s)
    PROVE  Holding(s)'
<1>1. req[s].pc = "insert" /\ req'[s] = Idle /\ bucket' = bucket /\ bucket \subseteq Pictures
  BY InsertTo, InsertRefusedTo DEF Shape, TypeOK, objects
<1>2. New(req[s].picture) /\ Pending(req[s]) = {req[s].picture}
  BY <1>1 DEF Holding, Owns, Pending
<1>3. Owns(req[s])'
  <2>1. req'[s].pc = "idle"
    BY <1>1 DEF Idle
  <2> QED BY <2>1 DEF Owns
<1>4. CASE Insert(s)
  <2>1. PICK p \in People, state \in {"BEGUN", "LIVE"} :
           /\ person[p].state = "NONE" /\ UNCHANGED stranded
           /\ person' = [person EXCEPT ![p] = [state |-> state, role |-> req[s].row.role,
                                               picture |-> req[s].picture]]
    BY <1>4, InsertTo DEF objects
  <2>2. /\ person'[p].picture = req[s].picture /\ PersonLive(p)' /\ ~PersonLive(p)
        /\ \A q \in People \ {p} : person'[q] = person[q] /\ (PersonLive(q)' <=> PersonLive(q))
    BY <2>1 DEF Shape, TypeOK, PersonLive
  <2>3. KeysApart'
    BY <1>2, <2>2 DEF KeysApart, Holding, New
  <2>4. \A q \in People : PersonLive(q)' /\ person'[q].picture \in Pictures => person'[q].picture \in bucket'
    BY <1>1, <1>2, <2>2 DEF Holding, New
  <2>5. Shown \cup {req[s].picture} \subseteq Shown'
    BY <2>2 DEF Shown
  <2>6. bucket' \subseteq Shown' \cup stranded' \cup Pending(req[s])'
    BY <1>1, <1>2, <2>1, <2>5 DEF Holding
  <2> QED BY <1>3, <2>3, <2>4, <2>6 DEF Holding
<1>5. CASE InsertRefused(s)
  <2>1. UNCHANGED person /\ stranded' = stranded \cup ({req[s].picture} \cap Pictures)
    BY <1>5, InsertRefusedTo
  <2>2. KeysApart' /\ Shown' = Shown
    BY <2>1 DEF Holding, KeysApart, Shown, PersonLive
  <2>3. \A q \in People : PersonLive(q)' /\ person'[q].picture \in Pictures => person'[q].picture \in bucket'
    BY <1>1, <2>1 DEF Holding, PersonLive
  <2>4. bucket' \subseteq Shown' \cup stranded' \cup Pending(req[s])'
    BY <1>1, <1>2, <2>1, <2>2 DEF Holding
  <2> QED BY <1>3, <2>2, <2>3, <2>4 DEF Holding
<1> QED BY <1>4, <1>5

LEMMA PreloadHolds ==
    ASSUME Shape, NEW s \in Slots, Holding(s), Preload(s)
    PROVE  Holding(s)'
<1> DEFINE r == req'[s]
<1>1. req[s].pc = "preload" /\ UNCHANGED <<person, objects>>
  BY PreloadTo
<1>2. Changes(req[s]) /\ (req[s].picture = req[s].old \/ New(req[s].picture))
  BY <1>1 DEF Holding, Owns
<1>3. /\ Keeps(s) /\ r.pc = "save" /\ r.picture = req[s].picture
      /\ r.row.state = person[req[s].id].state /\ r.row.picture = req[s].picture
  BY <1>2, PreloadTo DEF Changes
<1>4. Owns(req[s])'
  <2>1. Changes(req[s])'
    BY <1>1, <1>2, <1>3 DEF Changes, Keeps, PersonLive
  <2>2. New(req[s].picture) => New(req[s].picture)'
    BY <1>1, <1>3 DEF New, objects
  <2>3. r.row.state \in {"BEGUN", "LIVE"}
    BY <1>2, <1>3 DEF Changes, PersonLive
  <2> QED BY <1>2, <1>3, <2>1, <2>2, <2>3 DEF Owns, Keeps
<1>5. KeysApart' /\ Shown' = Shown
  BY <1>1 DEF Holding, KeysApart, Shown, PersonLive
<1>6. bucket' \subseteq Shown' \cup stranded' \cup Pending(req[s])'
  BY <1>1, <1>3, <1>5 DEF Holding, Pending, objects
<1>7. \A p \in People : PersonLive(p)' /\ person'[p].picture \in Pictures => person'[p].picture \in bucket'
  BY <1>1 DEF Holding, PersonLive, objects
<1> QED BY <1>4, <1>5, <1>6, <1>7 DEF Holding

LEMMA SaveHolds ==
    ASSUME Shape, NEW s \in Slots, Holding(s), Save(s)
    PROVE  Holding(s)'
<1> DEFINE r == req'[s]
           k == req[s].picture
<1>0. PICK id \in People : id = req[s].id
  BY SaveTo
<1>1. /\ req[s].pc = "save" /\ UNCHANGED objects /\ bucket \subseteq Pictures
      /\ person' = [person EXCEPT ![id] = req[s].row]
  BY <1>0, SaveTo DEF Shape, TypeOK
<1>2. /\ PersonLive(id) /\ req[s].old = person[id].picture /\ (k = req[s].old \/ New(k))
      /\ req[s].row.picture = k /\ req[s].row.state \in {"BEGUN", "LIVE"}
  BY <1>0, <1>1 DEF Holding, Owns, Changes
<1>3. /\ person'[id].picture = k /\ PersonLive(id)'
      /\ \A q \in People \ {id} : person'[q] = person[q] /\ (PersonLive(q)' <=> PersonLive(q))
  <2>1. person \in [People -> Person]
    BY DEF Shape, TypeOK
  <2>2. person'[id] = req[s].row
    BY <1>1, <2>1
  <2>3. \A q \in People \ {id} : person'[q] = person[q]
    BY <1>1, <2>1
  <2> QED BY <1>2, <2>2, <2>3 DEF PersonLive
<1>4. KeysApart'
  BY <1>2, <1>3 DEF KeysApart, Holding, New
<1>5. \A q \in People : PersonLive(q)' /\ person'[q].picture \in Pictures => person'[q].picture \in bucket'
  BY <1>1, <1>2, <1>3 DEF Holding, New, objects
<1>6. k \in Shown' /\ \A x \in Shown : x = req[s].old \/ x \in Shown'
  <2>1. k \in Shown'
    BY <1>1, <1>3 DEF Shown
  <2>2. ASSUME NEW q \in People, PersonLive(q)
        PROVE  person[q].picture = req[s].old \/ person[q].picture \in Shown'
    <3>1. CASE q = id
      BY <1>2, <3>1
    <3>2. CASE q # id
      BY <1>3, <2>2, <3>2 DEF Shown
    <3> QED BY <3>1, <3>2
  <2> QED BY <2>1, <2>2 DEF Shown
<1>7. bucket \subseteq Shown' \cup stranded \cup {req[s].old}
  BY <1>1, <1>6 DEF Holding, Pending
<1>8. CASE req[s].old \in {Empty, k} /\ r = Idle
  <2>1. bucket' \subseteq Shown' \cup stranded' \cup Pending(req[s])'
    BY <1>1, <1>6, <1>7, <1>8, NoKeys DEF objects
  <2>2. Owns(req[s])'
    <3>1. r.pc = "idle"
      BY <1>8 DEF Idle
    <3> QED BY <3>1 DEF Owns
  <2> QED BY <1>4, <1>5, <2>1, <2>2 DEF Holding
<1>9. CASE req[s].old \notin {Empty, k} /\ Keeps(s) /\ r.pc = "deleteObject" /\ r.next = "idle"
  <2>1. bucket' \subseteq Shown' \cup stranded' \cup Pending(req[s])'
    BY <1>1, <1>7, <1>9 DEF objects, Pending, Keeps
  <2>2. req[s].old \in Pictures => req[s].old \notin Shown'
    <3>1. ASSUME req[s].old \in Pictures, NEW q \in People, PersonLive(q)'
          PROVE  person'[q].picture # req[s].old
      BY <1>1, <1>2, <1>3, <1>9, <3>1 DEF Holding, KeysApart
    <3> QED BY <3>1 DEF Shown
  <2>3. Owns(req[s])'
    BY <1>9, <2>2 DEF Owns, Keeps
  <2> QED BY <1>4, <1>5, <2>1, <2>3 DEF Holding
<1> QED BY <1>8, <1>9, SaveTo

LEMMA DeleteObjectHolds ==
    ASSUME Shape, NEW s \in Slots, Holding(s), DeleteObject(s), fails' = 0
    PROVE  Holding(s)'
<1> DEFINE r == req'[s]
           k == req[s].old
<1>0. ~(fails' > 0)
  OBVIOUS
<1>1. /\ req[s].pc = "deleteObject" /\ UNCHANGED <<person, stranded>> /\ bucket' = bucket \ {k}
      /\ bucket \subseteq Pictures
  BY <1>0, DeleteObjectTo DEF Shape, TypeOK
<1>2. KeysApart' /\ Shown' = Shown
  BY <1>1 DEF Holding, KeysApart, Shown, PersonLive
<1>3. bucket' \subseteq Shown' \cup stranded' \cup Pending(req[s])'
  BY <1>1, <1>2 DEF Holding, Pending
<1>4. CASE req[s].next = "idle" /\ r = Idle
  <2>1. Owns(req[s])'
    <3>1. r.pc = "idle"
      BY <1>4 DEF Idle
    <3> QED BY <3>1 DEF Owns
  <2>2. \A q \in People : PersonLive(q) /\ person[q].picture \in Pictures => person[q].picture # k
    BY <1>1, <1>4 DEF Holding, Owns, Shown
  <2>3. \A q \in People : PersonLive(q)' /\ person'[q].picture \in Pictures => person'[q].picture \in bucket'
    BY <1>1, <2>2 DEF Holding, PersonLive
  <2> QED BY <1>2, <1>3, <2>1, <2>3 DEF Holding
<1>5. CASE req[s].next = "softRemove" /\ Keeps(s) /\ r.pc = "softRemove"
  <2>1. PersonLive(req[s].id) /\ k = person[req[s].id].picture /\ req[s].id \in People
    <3>1. req[s].id \in People
      BY <1>1, PersonIn DEF PersonFits, PersonAt, Request
    <3> QED BY <1>1, <1>5, <3>1 DEF Holding, Owns, Changes
  <2>2. Owns(req[s])'
    BY <1>1, <1>5, <2>1 DEF Owns, Keeps
  <2>3. \A q \in People \ {req[s].id} :
           PersonLive(q) /\ person[q].picture \in Pictures => person[q].picture # k
    BY <2>1 DEF Holding, KeysApart
  <2>4. \A q \in People : PersonLive(q)' /\ person'[q].picture \in Pictures
                          /\ ~(r.id = q /\ r.pc = "softRemove") => person'[q].picture \in bucket'
    BY <1>1, <1>5, <2>3 DEF Holding, PersonLive, Keeps
  <2> QED BY <1>2, <1>3, <2>2, <2>4 DEF Holding
<1> QED BY <1>4, <1>5, DeleteObjectTo

LEMMA SoftRemoveHolds ==
    ASSUME Shape, NEW s \in Slots, Holding(s), SoftRemove(s)
    PROVE  Holding(s)'
<1>0. PICK id \in People : id = req[s].id
  BY SoftRemoveTo
<1>1. /\ req[s].pc = "softRemove" /\ req'[s] = Idle /\ UNCHANGED objects
      /\ person' = [person EXCEPT ![id].state = "GONE"]
  BY <1>0, SoftRemoveTo
<1>2. person[id].picture \notin bucket /\ Pending(req[s]) = {}
  BY <1>0, <1>1 DEF Holding, Owns, Pending
<1>3. /\ \A q \in People \ {id} : person'[q] = person[q] /\ (PersonLive(q)' <=> PersonLive(q))
      /\ ~PersonLive(id)'
  <2>1. person \in [People -> Person]
    BY DEF Shape, TypeOK
  <2>2. person'[id].state = "GONE"
    BY <1>1, <2>1 DEF Person
  <2>3. \A q \in People \ {id} : person'[q] = person[q]
    BY <1>1, <2>1
  <2> QED BY <2>2, <2>3 DEF PersonLive
<1>4. KeysApart'
  <2> SUFFICES ASSUME NEW p \in People, NEW q \in People, PersonLive(p)', PersonLive(q)',
                      person'[p].picture = person'[q].picture
               PROVE  p = q \/ person'[p].picture \notin Pictures
    BY DEF KeysApart
  <2>1. p # id /\ q # id
    BY <1>3
  <2> QED BY <1>3, <2>1 DEF KeysApart, Holding
<1>5. \A q \in People : PersonLive(q)' /\ person'[q].picture \in Pictures => person'[q].picture \in bucket'
  <2> SUFFICES ASSUME NEW q \in People, PersonLive(q)', person'[q].picture \in Pictures
               PROVE  person'[q].picture \in bucket'
    OBVIOUS
  <2>1. q # id
    BY <1>3
  <2> QED BY <1>0, <1>1, <1>3, <2>1 DEF Holding, objects
<1>6. \A x \in Shown : x \in Shown' \/ x = person[id].picture
  BY <1>3 DEF Shown
<1>7. bucket' \subseteq Shown' \cup stranded' \cup Pending(req[s])'
  BY <1>1, <1>2, <1>6 DEF Holding, objects
<1>8. Owns(req[s])'
  <2>1. req'[s].pc = "idle"
    BY <1>1 DEF Idle
  <2> QED BY <2>1 DEF Owns
<1> QED BY <1>4, <1>5, <1>7, <1>8 DEF Holding

LEMMA ObjectsKept == Shape /\ AloneInv /\ ObjectsInv /\ [Next]_vars => ObjectsInv'
<1> SUFFICES ASSUME Shape, AloneInv, ObjectsInv, [Next]_vars, calm', fails' = 0 PROVE ObjectsInv'
  BY DEF ObjectsInv
<1>1. CASE UNCHANGED vars
  <2>1. UNCHANGED <<person, bucket, stranded, req, calm, fails>>
    BY <1>1 DEF vars, objects, control
  <2> QED BY <2>1 DEF ObjectsInv, KeysApart, Owns, New, Changes, Shown, PersonLive, Pending, Leaving
<1>2. ASSUME NEW s \in Slots, Step(s) PROVE ObjectsInv'
  <2>1. calm /\ fails = 0 /\ \A t \in Slots \ {s} : req[t] = Idle /\ req'[t] = Idle
    BY <1>2, AloneIs, NoneFailedYet
  <2>2. Holding(s)
    BY <2>1, HoldsBefore
  <2>3. Holding(s)'
    <3>1. CASE RoleStep(s)
      BY <2>2, <3>1, RolesHold
    <3>2. CASE CreateAdmin(s) \/ CreateUser(s) \/ UpdatePerson(s) \/ SetUpAccount(s) \/ RemovePerson(s)
      BY <2>2, <3>2, StartsHold
    <3>3. CASE Upload(s) \/ Insert(s) \/ InsertRefused(s) \/ Preload(s)
      BY <2>2, <3>3, UploadHolds, InsertHolds, PreloadHolds
    <3>4. CASE Save(s) \/ DeleteObject(s) \/ SoftRemove(s)
      BY <2>2, <3>4, SaveHolds, DeleteObjectHolds, SoftRemoveHolds
    <3>5. CASE RequestFails(s)
      <4>1. fails' > 0
        BY <3>5, RequestFailsTo
      <4> QED BY <4>1
    <3> QED BY <1>2, <3>1, <3>2, <3>3, <3>4, <3>5 DEF Step, PersonStep
  <2> QED BY <2>1, <2>3, HoldsAfter
<1> QED BY <1>1, <1>2 DEF Next

--------------------------------------------------------------------------------
LEMMA StaffInitially == Init => RolesInv /\ AloneInv /\ ObjectsInv
<1> SUFFICES ASSUME Init PROVE RolesInv /\ AloneInv /\ ObjectsInv
  OBVIOUS
<1>1. Shape
  <2>1. /\ [state |-> "NONE", name |-> None] \in Role /\ {} \in PermissionSets
        /\ NoPerson \in Person /\ 0 \in 0..MaxFails
    BY StaffAssumption DEF Role, RowState, PermissionSets, NoPerson, Person
  <2> QED BY <2>1, IdleOK DEF Init, Shape, TypeOK
<1>2. \A s \in Slots : req[s] = Idle /\ req[s].role = None
  BY DEF Init, Idle
<1>3. RolesInv
  <2>1. \A s \in Slots : Single(s)
    BY <1>2 DEF Single, LinksFit, SeesAll, GivesPermissions
  <2>2. \A s, t \in Slots : Pair(s, t)
    BY <1>2 DEF Pair, Nested, OneHolder, BothNamed, SameRole
  <2>3. perms = asked
    BY DEF Init
  <2> QED BY <1>1, <2>1, <2>2, <2>3, RolesInvOf
<1>4. \A p \in People : ~PersonLive(p)
  BY DEF Init, PersonLive, NoPerson
<1>5. AloneInv
  BY <1>2, <1>4, KnowsNothing DEF AloneInv, People
<1>6. ObjectsInv
  <2>1. KeysApart
    BY <1>4 DEF KeysApart
  <2>2. \A s \in Slots : Owns(req[s])
    BY <1>2, IdleOwns
  <2>3. bucket = {}
    BY DEF Init
  <2> QED BY <1>4, <2>1, <2>2, <2>3 DEF ObjectsInv
<1> QED BY <1>3, <1>5, <1>6

\* The inductive invariant: shapes, what transactions hold of a role's links, what the one
\* request in flight knows, and whose each object is.
THEOREM StaffKept == Spec => []StaffInv
<1>1. StaffInv <=> RolesInv /\ AloneInv /\ ObjectsInv
  BY DEF StaffInv, RolesInv, Shape, LinksInv
<1>2. RolesInv => Shape
  BY DEF RolesInv
<1>3. StaffInv /\ [Next]_vars => StaffInv'
  BY <1>1, <1>2, RolesInvKept, AloneKept, ObjectsKept DEF StaffInv, RolesInv, Shape, LinksInv
<1> QED BY <1>1, <1>3, StaffInitially, PTL DEF Spec

\* Every row and every request in flight has its shape.
THEOREM StaffTyped == Spec => []TypeOK
<1>1. StaffInv => TypeOK
  BY DEF StaffInv
<1> QED BY <1>1, StaffKept, PTL

\* Whatever overlaps or dies, no step takes the last permission from a role unless it commits a
\* request that gives the role none: transactions that replace permissions find nested sets of
\* links, so only one of them has deleted any (role.service.ts:171-177).
THEOREM NobodyIsStripped == Spec => NeverStripped
<1>1. RolesInv /\ [Next]_vars =>
         [\A r \in Roles : perms[r] # {} /\ perms'[r] = {} => asked'[r] = {}]_vars
  BY StripsNone
<1>2. StaffInv => RolesInv
  BY DEF StaffInv, RolesInv, Shape, LinksInv
<1> QED BY <1>1, <1>2, StaffKept, PTL DEF Spec, NeverStripped

\* As long as requests that give permissions to one role at the same time all write its row, the
\* role has exactly what it was last given: the lock of the row makes one of them wait, and each
\* finds all links there are (role.service.ts:159-177).
THEOREM GivenAsAsked == Spec => []PermissionsAsAsked
<1>1. StaffInv => PermissionsAsAsked
  BY DEF StaffInv, GivenInv, PermissionsAsAsked
<1> QED BY <1>1, StaffKept, PTL

\* Without overlap every admin who is there has a role that is there (role.service.ts:202-218).
THEOREM RolesStayLive == Spec => []RolesLiveWhenCalm
<1>1. StaffInv => RolesLiveWhenCalm
  BY DEF StaffInv, AloneInv, RolesLiveWhenCalm, AssignedRoleLives, RoleThere
<1> QED BY <1>1, StaffKept, PTL

\* Without overlap, and with nothing lost half way, the bucket holds exactly the pictures of the
\* people who are there and what was uploaded for users the database refused
\* (admin.service.ts:172-204, 218-222, user.service.ts:143-176, 190-196).
THEOREM PicturesMatch == Spec => []BucketMatches
<1>1. StaffInv => BucketMatches
  <2> SUFFICES ASSUME ObjectsInv, calm, fails = 0 PROVE PictureIsThere /\ (stranded = {} => NoOrphan)
    BY DEF StaffInv, BucketMatches
  <2>1. PictureIsThere
    BY DEF ObjectsInv, PictureIsThere, Leaving
  <2>2. stranded = {} => NoOrphan
    <3> SUFFICES ASSUME stranded = {}, \A s \in Slots : req[s] = Idle PROVE bucket \subseteq Shown
      BY DEF NoOrphan, Shown
    <3>1. \A s \in Slots : Pending(req[s]) = {}
      BY IdleOwns
    <3> QED BY <3>1 DEF ObjectsInv
  <2> QED BY <2>1, <2>2
<1> QED BY <1>1, StaffKept, PTL
================================================================================
