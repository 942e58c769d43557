------------------------------- MODULE MCAccounts -------------------------------
(* Values for checking Accounts with TLC. *)
EXTENDS Accounts, TLC

\* No flow touches two accounts, so one account that is not deleted is enough.
MCInit == Init /\ \E a \in Accounts : \A b \in Accounts : Live(b) <=> b = a
MCSpec == MCInit /\ [][Next]_vars

Symmetry == Permutations(Tokens) \cup Permutations(Codes) \cup Permutations(Passwords)
================================================================================
