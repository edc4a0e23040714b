------------------------------- MODULE MCRooms -------------------------------
EXTENDS Rooms, TLC

CONSTANTS ana, ben, phone, watch, den, attic, c1, c2, j1, j2

\* Two nodes at one location; one of them has no name of its own.
MCSpots == { [node |-> "porch", zone |-> "hall", bucket |-> 1] }
           \cup { [node |-> "hall", zone |-> "hall", bucket |-> b] : b \in {0, 2, 4} }
MCWindows == {<<0, 1>>, <<1, 2>>, <<2, 1>>, <<0, 2>>}
MCOffset == [z \in Zones |-> IF z = "chicago" THEN 0 ELSE 1]

Symmetric == Permutations(People) \cup Permutations(Rooms) \cup Permutations(Calls)
=============================================================================
