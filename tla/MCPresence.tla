----------------------------- MODULE MCPresence -----------------------------
(***************************************************************************)
(* Instances of Presence for TLC: the rooms of one person, the occupancy   *)
(* of a house of two, and the rows of one person where nothing fails.      *)
(***************************************************************************)
EXTENDS Presence

\* No run dies, no put fails, and a row that is stored is known to be stored.
CalmNext ==
    /\ Next
    /\ ~ \E x \in Procs : Dies(x)
    /\ \A p \in People : rows'[p] > rows[p] => \E l \in Pollers : draft'[l].people[p].keyed

CalmSpec == Init /\ [][CalmNext]_vars
=============================================================================
