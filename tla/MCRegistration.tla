----------------------------- MODULE MCRegistration -----------------------------
(* Values for checking Registration with TLC. *)
EXTENDS Registration, TLC

PhonesInUse ==
    {p \in Phones : \/ \E u \in Users : user[u].phone = p
                    \/ \E s \in Slots : p \in {req[s].phone, req[s].row.phone}}

\* Bound: two accounts and two phones while requests do not overlap, and one of each when
\* they do.  No property speaks of two accounts or two phones after an overlap.
Small ==
    calm \/ /\ \E u \in Users : user[u] = NoRow
            /\ Cardinality(PhonesInUse) <= 1

Symmetry == Permutations(Slots) \cup Permutations(Users) \cup Permutations(Phones)
================================================================================
