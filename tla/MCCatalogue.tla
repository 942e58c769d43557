------------------------------ MODULE MCCatalogue ------------------------------
(***************************************************************************)
(* Catalogue with two hotels, two types and two requests at a time.        *)
(***************************************************************************)
EXTENDS Catalogue, TLC

Symmetry == Permutations(Slots) \cup Permutations(Hotels) \cup Permutations(Types)
            \cup Permutations(Rooms) \cup Permutations(Numbers) \cup Permutations(Characteristics)

Used == {r \in Rooms : room[r].state # "NONE"}

\* Characteristics, benefits and rooms do not meet in any action, nor do two rooms at a rate: a
\* behaviour is followed while it is about one of them.
OneTopic ==
    /\ Cardinality({k \in 1..3 : CASE k = 1 -> asked # [t \in Types |-> {}]
                                   [] k = 2 -> benefits # [o \in Rates |-> {}]
                                   [] k = 3 -> Used # {}}) <= 1
    /\ Cardinality(Used) > 1 => fails = 0 /\ \A o \in Rates : rate[o].state = "NONE"
    /\ fails = 1 => calm

\* Bound: one row is deleted.
Gone ==
    {h \in Hotels : hotel[h] = "GONE"} \cup {t \in Types : type[t].state = "GONE"}
    \cup {r \in Rooms : room[r].state = "GONE"} \cup {o \in Rates : rate[o].state = "GONE"}

OneGone == Cardinality(Gone) <= 1
================================================================================
