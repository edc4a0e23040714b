------------------------------ MODULE MCCatalog -----------------------------
(* A lamp and a fan with their names, and a scene of both, in two containers. *)
EXTENDS Catalog, TLC

CONSTANTS c1, c2, lamp, fan, lampOn, fanOn, evening

MCContainers == {c1, c2}
MCDevices == {lamp, fan}
MCPhrases == {lampOn, fanOn}
MCNames == lampOn :> {lamp} @@ fanOn :> {fan}
MCNamePhrase == lamp :> lampOn @@ fan :> fanOn
MCActions == evening :> {lamp, fan}

\* Only safety is checked of the catalog.  A device changes places with its name.
Same == [x \in MCDevices \cup MCPhrases |-> x]
Swap == lamp :> fan @@ fan :> lamp @@ lampOn :> fanOn @@ fanOn :> lampOn
MCSymmetry == { p @@ q : p \in Permutations(MCContainers), q \in {Same, Swap} }
=============================================================================
