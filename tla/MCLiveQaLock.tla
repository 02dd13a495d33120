--------------------------- MODULE MCLiveQaLock ---------------------------
(* Two or three callers for two leases. Callers and resources are alike.   *)
EXTENDS LiveQaLock, TLC
CONSTANTS p1, p2, o1, o2, o3, n1, n2
Symmetric == Permutations(Callers) \cup Permutations(Names) \cup Permutations(Owners)
===========================================================================
