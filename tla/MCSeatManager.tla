--------------------------- MODULE MCSeatManager ---------------------------
(* Model-checking instance of SeatManager: names and sockets are model     *)
(* values, and interchangeable.                                            *)
EXTENDS SeatManager, TLC

Symmetry == Permutations(Names) \cup Permutations(Sessions)

=============================================================================
