--------------------------- MODULE MCSeatCleanup ---------------------------
(* Model-checking instance of SeatCleanup.  The code treats all sockets alike *)
(* and so does the model: the liveness property is checked for one of them.   *)
EXTENDS SeatCleanup, TLC

CONSTANTS s1, s2

\* Sound only where no liveness property is checked.
Symmetry == Permutations(Sessions)

\* A join or a close of one browser is answered, whatever the other one does: no
\* wait for a cleanup, a launch or readiness lasts for ever.
JoinsAreAnswered == JoinIsAnswered(s1)

=============================================================================
