-------------------------------- MODULE Pictures --------------------------------
(***************************************************************************)
(* AdminService and UserService as far as roles and profile pictures go.   *)
(* A picture is an object of the bucket, and a row holds its key.  update  *)
(* reads the row, uploads, loads the row again, saves it, and deletes the  *)
(* object the first read named; remove deletes the object and then the     *)
(* row.  An upload that fails leaves the picture as it was and a deletion  *)
(* that fails leaves the object.                                           *)
(***************************************************************************)
EXTENDS Roles

\* What a request gives as picture in its body: nothing, the empty string, or a URL.
Given == {None, Empty, Link}

\* Variant: a field that is not given is cleared.
Cleared(given, existing) == given

Resolved(given, existing) == IF given = None THEN existing ELSE given

\* AdminService.create.
CreateAdmin(s) ==
    /\ \E r \in Roles, file \in BOOLEAN, url \in Given :
         /\ RoleLive(r)
         /\ Start(s, [Idle EXCEPT !.pc = IF file THEN "upload" ELSE "insert", !.next = "insert",
                                  !.kind = "ADMIN", !.row.role = r,
                                  !.picture = IF file THEN Empty ELSE Resolved(url, Empty)])
    /\ UNCHANGED <<roleTables, person, objects>>

\* A user who registers in one request, one whose registration begins, and one an admin enters
\* (UserService.create), who gets no roleId and whom the database refuses.
CreateUser(s) ==
    /\ \E kind \in {"REGISTER", "BEGIN", "ENTER"}, file \in BOOLEAN, url \in Given :
         /\ kind = "BEGIN" => ~file
         /\ kind = "ENTER" => file    \* without one nothing is left of it
         /\ kind # "ENTER" => url = None
         /\ Start(s, [Idle EXCEPT !.pc = IF file THEN "upload" ELSE "insert", !.next = "insert",
                                  !.kind = kind, !.picture = Resolved(url, Empty)])
    /\ UNCHANGED <<roleTables, person, objects>>

\* randomUUID: a key nobody has had, whether its object is still there or not.
FreshKeys(s) ==
    Pictures \ (bucket \cup {person[p].picture : p \in People}
                       \cup UNION {{req[t].picture, req[t].old, req[t].row.picture} : t \in Slots})

Upload(s) ==
    /\ req[s].pc = "upload"
    /\ \/ \E k \in FreshKeys(s) :
            /\ bucket' = bucket \cup {k}
            /\ Continue(s, [req[s] EXCEPT !.pc = req[s].next, !.picture = k, !.row.picture = k])
            /\ UNCHANGED stranded
       \/ CallFails(s, [req[s] EXCEPT !.pc = req[s].next])
    /\ UNCHANGED <<roleTables, person>>

Insert(s) ==
    /\ req[s].pc = "insert"
    /\ req[s].kind # "ENTER"
    /\ \E p \in IF req[s].kind = "ADMIN" THEN Admins ELSE Users :
         /\ person[p].state = "NONE"
         /\ person' = [person EXCEPT ![p] = [state |-> IF req[s].kind = "BEGIN" THEN "BEGUN" ELSE "LIVE",
                                             role |-> req[s].row.role, picture |-> req[s].picture]]
    /\ Finish(s)
    /\ UNCHANGED <<roleTables, objects>>

InsertRefused(s) ==
    /\ req[s].pc = "insert"
    /\ req[s].kind = "ENTER"
    /\ stranded' = stranded \cup ({req[s].picture} \cap Pictures)
    /\ Finish(s)
    /\ UNCHANGED <<roleTables, person, bucket>>

\* With no new picture the one that was read is given again.
UpdatePerson(s) ==
    /\ \E p \in People, r \in Roles \cup {None}, file \in BOOLEAN, url \in Given :
         /\ PersonLive(p)
         /\ p \in Users => r = None
         /\ r \notin {None, person[p].role} => RoleLive(r)
         /\ Start(s, [Idle EXCEPT !.pc = IF file THEN "upload" ELSE "preload", !.next = "preload",
                                  !.id = p, !.row.role = r, !.old = person[p].picture,
                                  !.picture = IF file THEN person[p].picture
                                              ELSE Resolved(url, person[p].picture)])
    /\ UNCHANGED <<roleTables, person, objects>>

\* userRegisterAccountSetup saves the row it read; the picture replaces one that may be there.
SetUpAccount(s) ==
    /\ \E p \in Users, file \in BOOLEAN, url \in Given :
         /\ person[p].state = "BEGUN"
         /\ LET picture == IF file THEN person[p].picture ELSE Resolved(url, person[p].picture)
            IN  Start(s, [Idle EXCEPT !.pc = IF file THEN "upload" ELSE "save", !.next = "save",
                                      !.id = p, !.old = person[p].picture, !.picture = picture,
                                      !.row = [state |-> "LIVE", role |-> None, picture |-> picture]])
    /\ UNCHANGED <<roleTables, person, objects>>

Preload(s) ==
    /\ req[s].pc = "preload"
    /\ LET p == req[s].id
           row == [person[p] EXCEPT !.role = Resolved(req[s].row.role, @), !.picture = req[s].picture]
       IN  IF PersonLive(p) THEN Continue(s, [req[s] EXCEPT !.pc = "save", !.row = row])
                            ELSE Finish(s)
    /\ UNCHANGED <<roleTables, person, objects>>

Save(s) ==
    /\ req[s].pc = "save"
    /\ person' = [person EXCEPT ![req[s].id] = req[s].row]
    /\ IF req[s].old \in {Empty, req[s].picture} THEN Finish(s)
       ELSE Continue(s, [req[s] EXCEPT !.pc = "deleteObject", !.next = "idle"])
    /\ UNCHANGED <<roleTables, objects>>

RemovePerson(s) ==
    /\ \E p \in People :
         /\ PersonLive(p)
         /\ Start(s, [Idle EXCEPT !.pc = IF person[p].picture = Empty THEN "softRemove"
                                         ELSE "deleteObject",
                                  !.next = "softRemove", !.id = p, !.old = person[p].picture])
    /\ UNCHANGED <<roleTables, person, objects>>

\* Variant: the object of the new picture is deleted.
DeleteNewObject(s) ==
    /\ req[s].pc = "deleteObject"
    /\ LET then == IF req[s].next = "idle" THEN Idle ELSE [req[s] EXCEPT !.pc = req[s].next]
       IN  bucket' = bucket \ {req[s].picture} /\ Continue(s, then)
    /\ UNCHANGED <<roleTables, person, stranded>>

DeleteObject(s) ==
    /\ req[s].pc = "deleteObject"
    /\ LET then == IF req[s].next = "idle" THEN Idle ELSE [req[s] EXCEPT !.pc = req[s].next]
       IN  \/ bucket' = bucket \ {req[s].old} /\ Continue(s, then) /\ UNCHANGED stranded
           \/ CallFails(s, then)
    /\ UNCHANGED <<roleTables, person>>

SoftRemove(s) ==
    /\ req[s].pc = "softRemove"
    /\ person' = [person EXCEPT ![req[s].id].state = "GONE"]
    /\ Finish(s)
    /\ UNCHANGED <<roleTables, objects>>

PersonStep(s) ==
    \/ CreateAdmin(s) \/ CreateUser(s) \/ Upload(s) \/ Insert(s) \/ InsertRefused(s)
    \/ UpdatePerson(s) \/ SetUpAccount(s) \/ Preload(s) \/ Save(s) \/ RemovePerson(s)
    \/ DeleteObject(s) \/ SoftRemove(s)
================================================================================
