--------------------------- MODULE SeatOwnership ---------------------------
(***************************************************************************)
(* What the host promises about the game that owns a seat, whatever tasks  *)
(* carry it out: a seat has at most one game; it is given up only once its *)
(* game has exited; and a game that could not be stopped, or whose network *)
(* peer could not be removed, holds its seat until both are gone.          *)
(***************************************************************************)
EXTENDS Naturals

CONSTANTS Slots, MaxGenerations

NoGen == 0
Gens == 1..MaxGenerations

VARIABLES
    owner,  \* the game that owns each slot
    alive,  \* the games whose process runs
    held,   \* games that keep their slot until process and peer are gone
    peer,   \* the game behind each slot's network peer
    used    \* games started so far

vars == <<owner, alive, held, peer, used>>

Init ==
    /\ owner = [q \in Slots |-> NoGen]
    /\ alive = {} /\ held = {}
    /\ peer = [q \in Slots |-> NoGen]
    /\ used = 0

\* Slots whose game has exited and holds nothing are given up together.
Idle(S) == \A q \in S : owner[q] # NoGen /\ owner[q] \notin alive \cup held
Without(S) == [q \in Slots |-> IF q \in S THEN NoGen ELSE owner[q]]

GiveUp ==
    \E S \in SUBSET Slots :
        /\ Idle(S)
        /\ owner' = Without(S)
        /\ UNCHANGED <<alive, held, peer, used>>

\* A game starts on an empty slot; a peer left over on it may be removed.
Start(q) ==
    \E S \in SUBSET Slots :
        /\ Idle(S)
        /\ Without(S)[q] = NoGen
        /\ used < MaxGenerations /\ used' = used + 1
        /\ owner' = [Without(S) EXCEPT ![q] = used']
        /\ alive' = alive \cup {used'}
        /\ \/ peer' = peer
           \/ peer' = [peer EXCEPT ![q] = NoGen]
        /\ UNCHANGED held

\* Games that are not held are stopped and give up their slots; others of the
\* slots could not be stopped, and are held.
Stop ==
    \E S, T \in SUBSET {q \in Slots : owner[q] # NoGen} :
        /\ \A q \in S : owner[q] \notin held
        /\ owner' = Without(S)
        /\ alive' = alive \ {owner[q] : q \in S}
        /\ held' = held \cup {owner[q] : q \in T \ S}
        /\ UNCHANGED <<peer, used>>

Exit ==
    \E g \in alive : alive' = alive \ {g} /\ UNCHANGED <<owner, held, peer, used>>

\* A game joins as its slot's peer; a peer leaves, or is removed.
Peers ==
    /\ \E q \in Slots : \/ peer' = [peer EXCEPT ![q] = NoGen]
                        \/ peer[q] = NoGen /\ owner[q] \in alive
                           /\ peer' = [peer EXCEPT ![q] = owner[q]]
    /\ UNCHANGED <<owner, alive, held, used>>

\* A seat is cleaned up: process and peer are gone, held or not.
Clean(q) ==
    /\ owner[q] # NoGen /\ owner[q] \notin alive
    /\ peer[q] # owner[q]
    /\ held' = held \ {owner[q]}
    /\ owner' = Without({q})
    /\ UNCHANGED <<alive, peer, used>>

Next == GiveUp \/ Stop \/ Exit \/ Peers \/ \E q \in Slots : Start(q) \/ Clean(q)

Spec == Init /\ [][Next]_vars

=============================================================================
