------------------------- MODULE MCAtlasBakePool -------------------------
(* Instance of AtlasBakePool: pages of four kinds. card and sheet are bigger *)
(* than a worker's share, icons and relics do not both fit in it.            *)
EXTENDS AtlasBakePool

CONSTANTS card, sheet, icons, relics

SizeOf == [p \in Pages |-> CASE p = icons -> 1 [] p = relics -> 2 [] OTHER -> 3]

\* The card's page is dropped when idle and needed again, twice.
JobsOf == [p \in Pages |-> IF p = card THEN 3 ELSE 1]
=============================================================================
