-------------------------------- MODULE MCStaff --------------------------------
(* Staff with a few roles and people, two requests at a time. *)
EXTENDS Staff, TLC

Symmetry == Permutations(Slots) \cup Permutations(Users) \cup Permutations(Roles) \cup Permutations(Names)
            \cup Permutations(Permissions) \cup Permutations(Pictures)

\* A behaviour is followed while it is about one of four things: the permissions of a role; the
\* names of two roles, or which of them an admin has; an admin's picture; the pictures of users.
\* Bounds: nothing fails while there are two of them, one is removed, and a URL is
\* given as picture only without overlap.
OneTopic ==
    LET roles  == {r \in Roles : role[r].state # "NONE"}
        people == {p \in People : person[p].state # "NONE"}
        users  == people \cap Users # {} \/ \E s \in Slots : req[s].kind \in {"REGISTER", "BEGIN", "ENTER"}
        noPermissions == /\ perms = [r \in Roles |-> {}]
                         /\ \A s \in Slots : req[s].set \in {None, {}}
        noNames    == \A s \in Slots : req[s].name = None
        noPictures == /\ bucket = {}
                      /\ \A p \in People : person[p].picture = Empty
                      /\ \A s \in Slots : req[s].picture = Empty /\ req[s].pc # "upload"
    IN  /\ Cardinality(roles) > 1 => noPermissions /\ noPictures
        /\ people # {} => noPermissions /\ noNames
        /\ roles # {} => ~users
        /\ Cardinality(people) > 1 => fails = 0 /\ stranded = {}
        /\ Cardinality({p \in People : person[p].state = "GONE"}) <= 1
        /\ \A s \in Slots : req[s].picture = Link => calm
================================================================================
