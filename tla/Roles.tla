---------------------------------- MODULE Roles ----------------------------------
(***************************************************************************)
(* RoleService: roles and what they permit.  create and update run in one  *)
(* transaction (READ COMMITTED), which the decorator opens and hands to    *)
(* the calls below it through AsyncLocalStorage.  The checks go through    *)
(* injected repositories and see what is committed when they are made; the *)
(* writes go through the manager of the transaction and appear together    *)
(* when it commits.  Until then the row of the role and the links that are *)
(* deleted or inserted are locked, and a statement that needs them waits.  *)
(***************************************************************************)
EXTENDS StaffState

NameTaken(n) == \E r \in Roles : RoleLive(r) /\ role[r].name = n

\* The checks of create; the row and its links are visible once the transaction commits.
CreateRole(s) ==
    /\ \E n \in Names, ps \in SUBSET Permissions :
         /\ ~NameTaken(n)
         /\ Start(s, [Idle EXCEPT !.pc = "commitNew", !.name = n, !.set = ps])
    /\ UNCHANGED <<roleTables, person, objects>>

CommitNew(s) ==
    /\ req[s].pc = "commitNew"
    /\ \E r \in Roles :
         /\ role[r].state = "NONE"
         /\ role' = [role EXCEPT ![r] = [state |-> "LIVE", name |-> req[s].name]]
         /\ perms' = [perms EXCEPT ![r] = req[s].set]
         /\ asked' = [asked EXCEPT ![r] = req[s].set]
    /\ Finish(s)
    /\ UNCHANGED <<person, objects>>

\* A name of its own is no change; another must be free.
NameAllowed(r, n) == n \in {None, role[r].name} \/ ~NameTaken(n)

UpdateRole(s) ==
    /\ \E r \in Roles, n \in Names \cup {None}, ps \in (SUBSET Permissions) \cup {None} :
         /\ RoleLive(r) /\ {n, ps} # {None}
         /\ NameAllowed(r, n)
         /\ Start(s, [Idle EXCEPT !.pc = IF n = None THEN "deleteLinks" ELSE "writeRow",
                                  !.role = r, !.name = n, !.set = ps])
    /\ UNCHANGED <<roleTables, person, objects>>

Others(s) == {req[t] : t \in {t \in Slots \ {s} : req[t].role = req[s].role}}

\* Variant: a transaction does not hold the row it has written.
NoRowLock(s) == FALSE

RowLocked(s) ==
    \E r \in Others(s) : r.name # None
                         /\ r.pc \in {"deleteLinks", "deleting", "readLinks", "insertLinks", "commit"}

WriteRow(s) ==
    /\ req[s].pc = "writeRow"
    /\ ~RowLocked(s)
    /\ Goto(s, IF req[s].set = None THEN "commit" ELSE "deleteLinks")
    /\ UNCHANGED <<roleTables, person, objects>>

\* The delete finds the links that are committed when it starts ...
DeleteLinks(s) ==
    /\ req[s].pc = "deleteLinks"
    /\ Continue(s, [req[s] EXCEPT !.pc = "deleting", !.seen = perms[req[s].role]])
    /\ UNCHANGED <<roleTables, person, objects>>

Deleted(s) == [req[s] EXCEPT !.deleted = req[s].seen \cap perms[req[s].role], !.seen = {},
                             !.pc = IF req[s].set = {} THEN "commit" ELSE "readLinks"]

\* Variant: the links are deleted through the injected repository, outside the transaction.
DeletingAtOnce(s) ==
    /\ req[s].pc = "deleting"
    /\ perms' = [perms EXCEPT ![req[s].role] = @ \ req[s].seen]
    /\ Continue(s, Deleted(s))
    /\ UNCHANGED <<role, asked, person, objects>>

\* ... and waits for those of them that another transaction is deleting.
Deleting(s) ==
    /\ req[s].pc = "deleting"
    /\ \A r \in Others(s) : r.deleted \cap req[s].seen = {}
    /\ Continue(s, Deleted(s))
    /\ UNCHANGED <<roleTables, person, objects>>

Visible(s) == perms[req[s].role] \ req[s].deleted

\* save looks for the links first and inserts those that are not there.
ReadLinks(s) ==
    /\ req[s].pc = "readLinks"
    /\ Continue(s, [req[s] EXCEPT !.pc = "insertLinks", !.seen = req[s].set \ Visible(s)])
    /\ UNCHANGED <<roleTables, person, objects>>

\* The insert waits for a link in another transaction's hands; one that is there by then is a
\* duplicate key, and the transaction is rolled back.
InsertLinks(s) ==
    /\ req[s].pc = "insertLinks"
    /\ \A r \in Others(s) : (r.deleted \cup r.inserted) \cap req[s].seen = {}
    /\ IF req[s].seen \cap Visible(s) # {} THEN Finish(s)
       ELSE Continue(s, [req[s] EXCEPT !.pc = "commit", !.inserted = req[s].seen, !.seen = {}])
    /\ UNCHANGED <<roleTables, person, objects>>

\* A delete that waited passes over the links the transaction has deleted, and does not see
\* those it has inserted, be they the same.
Commit(s) ==
    /\ req[s].pc = "commit"
    /\ LET r == req[s].role
       IN  /\ role' = [role EXCEPT ![r].name = IF req[s].name = None THEN @ ELSE req[s].name]
           /\ perms' = [perms EXCEPT ![r] = Visible(s) \cup req[s].inserted]
           /\ asked' = [asked EXCEPT ![r] = IF req[s].set = None THEN @ ELSE req[s].set]
           /\ req' = [t \in Slots |->
                        IF t = s THEN Idle
                        ELSE IF req[t].role = r /\ req[t].pc = "deleting"
                        THEN [req[t] EXCEPT !.seen = @ \ req[s].deleted]
                        ELSE req[t]]
    /\ UNCHANGED <<person, objects, control>>

\* Variant: the admins of the role are not looked at.
Removable(r) == TRUE

Unassigned(r) == \A p \in Admins : PersonLive(p) => person[p].role # r

RemoveRole(s) ==
    /\ \E r \in Roles :
         /\ RoleLive(r) /\ Unassigned(r)
         /\ Start(s, [Idle EXCEPT !.pc = "removeRole", !.role = r])
    /\ UNCHANGED <<roleTables, person, objects>>

RoleRemove(s) ==
    /\ req[s].pc = "removeRole"
    /\ ~RowLocked(s)
    /\ role' = [role EXCEPT ![req[s].role].state = "GONE"]
    /\ Finish(s)
    /\ UNCHANGED <<perms, asked, person, objects>>

RoleStep(s) ==
    \/ CreateRole(s) \/ CommitNew(s) \/ UpdateRole(s) \/ WriteRow(s) \/ DeleteLinks(s)
    \/ Deleting(s) \/ ReadLinks(s) \/ InsertLinks(s) \/ Commit(s) \/ RemoveRole(s) \/ RoleRemove(s)
================================================================================
