------------------------- MODULE SeatManagerProofs -------------------------
(***************************************************************************)
(* What TLAPS proves of the seat table, for every set of names and         *)
(* sessions and every number of slots, launches and sockets.               *)
(***************************************************************************)
EXTENDS SeatManager, TLAPS

----------------------------------------------------------------------------
(* Type correctness                                                        *)

\* The part of TypeOK that a join changes.
SeatsTyped ==
    /\ claim \in [Names -> Slots \cup {NoSlot}]
    /\ bound \in [Sessions -> Slots \cup {NoSlot}]
    /\ proc \in [Slots -> Processes \cup {NoProcess}]
    /\ alive \subseteq Processes
    /\ quar \subseteq Slots
    /\ detached \subseteq Slots
    /\ grace \subseteq Grace
    /\ launched \in 0..MaxLaunches

\* Reaping the dead slots keeps the table well typed.
LEMMA ReapedTable ==
    ASSUME TypeOK
    PROVE  /\ ProcR \in [Slots -> Processes \cup {NoProcess}]
           /\ BoundR \in [Sessions -> Slots \cup {NoSlot}]
           /\ GraceR \subseteq Grace
           /\ DetachedR \subseteq Slots
  BY DEF TypeOK, ProcR, BoundR, GraceR, DetachedR, WithoutSessions, WithoutGrace

\* Removing the claims on a set of slots keeps the claims well typed.
LEMMA ClaimsTyped ==
    ASSUME NEW c \in [Names -> Slots \cup {NoSlot}], NEW S
    PROVE  WithoutClaims(c, S) \in [Names -> Slots \cup {NoSlot}]
  BY DEF WithoutClaims

LEMMA TakenByTyped ==
    ASSUME TypeOK, NEW s \in Sessions, NEW q \in Slots, NEW over
    PROVE  TakenBy(s, q, over) \in [Sessions -> Slots \cup {NoSlot}]
  BY ReapedTable DEF TakenBy, WithoutSessions

LEMMA TakeSlotTyped ==
    ASSUME TypeOK, NEW over, TakeSlot(over)
    PROVE  grace' \subseteq Grace /\ detached' \subseteq Slots
  BY ReapedTable DEF TakeSlot, WithoutGrace

\* The three ways a join ends on a slot.
LEMMA ShareTyped ==
    ASSUME TypeOK, NEW s \in Sessions, NEW q \in Slots,
           NEW c \in [Names -> Slots \cup {NoSlot}], Share(s, q, c)
    PROVE  SeatsTyped'
  BY ReapedTable, TakenByTyped, TakeSlotTyped DEF TypeOK, SeatsTyped, Share, children

LEMMA LaunchTyped ==
    ASSUME TypeOK, NEW s \in Sessions, NEW q \in Slots,
           NEW c \in [Names -> Slots \cup {NoSlot}], NEW over, Launch(s, q, c, over)
    PROVE  SeatsTyped'
  <1>1. launched' \in 0..MaxLaunches /\ launched' \in Processes
    BY BoundsAssumption DEF TypeOK, Launch, Processes
  <1>2. proc' \in [Slots -> Processes \cup {NoProcess}] /\ alive' \subseteq Processes
    BY <1>1, ReapedTable DEF TypeOK, Launch
  <1> QED
    BY <1>1, <1>2, TakenByTyped, TakeSlotTyped DEF TypeOK, SeatsTyped, Launch

LEMMA RefuseTyped ==
    ASSUME TypeOK, NEW s \in Sessions, NEW q \in Slots,
           NEW c \in [Names -> Slots \cup {NoSlot}], NEW over, NEW r, Refuse(s, q, c, over, r)
    PROVE  SeatsTyped'
  <1>1. claim' \in [Names -> Slots \cup {NoSlot}]
    BY ClaimsTyped DEF Refuse
  <1>2. bound' \in [Sessions -> Slots \cup {NoSlot}]
    BY TakenByTyped DEF Refuse
  <1> QED
    BY <1>1, <1>2, ReapedTable, TakeSlotTyped DEF TypeOK, SeatsTyped, Refuse, children

LEMMA JoinTyped ==
    ASSUME TypeOK, NEW s \in Sessions, Join(s)
    PROVE  SeatsTyped'
  <1>1. CASE Reenter(s)
    <2>1. BoundR[s] \in Slots
      BY <1>1, ReapedTable DEF Reenter
    <2> QED
      BY <1>1, <2>1, ReapedTable, TakeSlotTyped DEF TypeOK, SeatsTyped, Reenter, children
  <1>2. ASSUME NEW n \in Names, NEW q \in Slots, NEW m \in BOOLEAN, JoinSeat(s, n, q, m)
        PROVE  SeatsTyped'
    <2> DEFINE c == [WithoutClaims(claim, {q}) EXCEPT ![n] = q]
    <2>1. c \in [Names -> Slots \cup {NoSlot}]
      BY ClaimsTyped DEF TypeOK
    <2>2. CASE Share(s, q, c) \/ Launch(s, q, c, {q}) \/ Refuse(s, q, c, {q}, Claimed(q))
      <3> HIDE DEF c
      <3> QED BY <2>1, <2>2, ShareTyped, LaunchTyped, RefuseTyped
    <2>3. CASE /\ TakeSlot({q})
               /\ bound' = [TakenBy(s, q, {q}) EXCEPT ![s] = NoSlot]
               /\ proc' = ProcR
               /\ UNCHANGED <<claim, children>>
      BY <2>3, ReapedTable, TakenByTyped, TakeSlotTyped DEF TypeOK, SeatsTyped, children
    <2> QED
      BY <1>2, <2>2, <2>3 DEF JoinSeat
  <1>3. ASSUME NEW n \in Names, JoinByName(s, n)
        PROVE  SeatsTyped'
    <2>1. claim[n] \in Slots /\ claim \in [Names -> Slots \cup {NoSlot}]
      BY <1>3 DEF TypeOK, JoinByName
    <2> QED
      BY <1>3, <2>1, ShareTyped, LaunchTyped, RefuseTyped DEF JoinByName
  <1>4. ASSUME NEW n \in Names, JoinAsNew(s, n)
        PROVE  SeatsTyped'
    <2>1. PICK q \in Slots :
             LET claims == [WithoutClaims(claim, {q}) EXCEPT ![n] = q]
             IN  Launch(s, q, claims, {}) \/ Refuse(s, q, claims, {}, FALSE)
      BY <1>4 DEF JoinAsNew
    <2> DEFINE c == [WithoutClaims(claim, {q}) EXCEPT ![n] = q]
    <2>2. c \in [Names -> Slots \cup {NoSlot}]
      BY ClaimsTyped DEF TypeOK
    <2>3. Launch(s, q, c, {}) \/ Refuse(s, q, c, {}, FALSE)
      BY <2>1
    <2> HIDE DEF c
    <2> QED
      BY <2>2, <2>3, LaunchTyped, RefuseTyped
  <1>5. ASSUME NEW n \in Names, JoinTurnedAway(s, n)
        PROVE  SeatsTyped'
    BY <1>5, ReapedTable DEF TypeOK, SeatsTyped, JoinTurnedAway, children
  <1>6. CASE JoinAfterDispose(s)
    BY <1>6 DEF TypeOK, SeatsTyped, JoinAfterDispose, table, children
  <1> QED
    BY <1>1, <1>2, <1>3, <1>4, <1>5, <1>6 DEF Join

\* Killing a set of slots, some of which may stick.
LEMMA ShutdownTyped ==
    ASSUME TypeOK, NEW S \in SUBSET Slots, NEW stuck \in SUBSET S, ShutdownSlots(S, stuck)
    PROVE  /\ proc' \in [Slots -> Processes \cup {NoProcess}]
           /\ alive' \subseteq Processes
           /\ quar' \subseteq Slots
           /\ launched' \in 0..MaxLaunches
  BY DEF TypeOK, ShutdownSlots

\* What a closing browser does to its slot.
LEMMA CompleteGraceTyped ==
    ASSUME TypeOK, NEW s \in Sessions, CompleteGrace(s)
    PROVE  /\ SeatsTyped'
           /\ peer' \subseteq Peer /\ evicting' = evicting /\ peerTicket' \in Nat
  <1>1. CASE bound[s] = NoSlot
    BY <1>1 DEF TypeOK, SeatsTyped, CompleteGrace, table, children, peers
  <1>2. CASE bound[s] # NoSlot /\ Detach(s)
    <2>1. bound[s] \in Slots
      BY <1>2 DEF TypeOK
    <2> QED
      BY <1>2, <2>1 DEF TypeOK, SeatsTyped, Detach, WithoutGrace, children, peers
  <1>3. CASE bound[s] # NoSlot /\ Release(s)
    <2> DEFINE q == bound[s]
               last == \A x \in Sessions \ {s} : bound[x] # q
    <2>1. q \in Slots
      BY <1>3 DEF TypeOK
    <2>2. /\ claim' \in [Names -> Slots \cup {NoSlot}]
          /\ bound' \in [Sessions -> Slots \cup {NoSlot}]
          /\ grace' \subseteq Grace
          /\ evicting' = evicting
      BY <1>3 DEF TypeOK, Release, WithoutGrace
    <2>3. CASE last /\ q \in Running
      <3>1. PICK stuck \in SUBSET {q} :
               /\ ShutdownSlots({q}, stuck)
               /\ detached' = detached \ ({q} \ stuck)
               /\ IF stuck = {}
                  THEN /\ peerTicket' = peerTicket + 1
                       /\ peer' = {p \in peer : p.slot # q} \cup
                                  {[slot |-> q, id |-> peerTicket', inFlight |-> FALSE]}
                  ELSE UNCHANGED <<peer, peerTicket>>
        BY <1>3, <2>3 DEF Release
      <3>2. /\ proc' \in [Slots -> Processes \cup {NoProcess}]
            /\ alive' \subseteq Processes
            /\ quar' \subseteq Slots
            /\ launched' \in 0..MaxLaunches
        BY <2>1, <3>1, ShutdownTyped
      <3>3. detached' \subseteq Slots
        BY <3>1 DEF TypeOK
      <3>4. peerTicket' \in Nat
        BY <3>1 DEF TypeOK
      <3>5. peer' \subseteq Peer
        <4>1. [slot |-> q, id |-> peerTicket', inFlight |-> FALSE] \in Peer
          BY <2>1, <3>4 DEF Peer
        <4>2. peer \subseteq Peer
          BY DEF TypeOK
        <4> HIDE DEF q
        <4> QED
          BY <3>1, <4>1, <4>2
      <3> QED
        BY <2>2, <3>2, <3>3, <3>4, <3>5 DEF SeatsTyped
    <2>4. CASE ~(last /\ q \in Running)
      BY <1>3, <2>2, <2>4 DEF TypeOK, SeatsTyped, Release, children
    <2> QED
      BY <2>3, <2>4
  <1> QED
    BY <1>1, <1>2, <1>3 DEF CompleteGrace

\* What the host does to a set of slots.
LEMMA SlotRemovalTyped ==
    ASSUME TypeOK, NEW S
    PROVE  /\ WithoutSessions(bound, S) \in [Sessions -> Slots \cup {NoSlot}]
           /\ WithoutClaims(claim, S) \in [Names -> Slots \cup {NoSlot}]
           /\ WithoutGrace(grace, S) \subseteq Grace
  BY DEF TypeOK, WithoutSessions, WithoutClaims, WithoutGrace

LEMMA StopEverySeatTyped ==
    ASSUME TypeOK, StopEverySeat, grace' \subseteq grace
    PROVE  /\ SeatsTyped'
           /\ peer' \subseteq Peer /\ evicting' \subseteq Eviction /\ peerTicket' \in Nat
  <1>1. PICK stuck \in SUBSET Running : ShutdownSlots(Running, stuck)
    BY DEF StopEverySeat
  <1>2. /\ proc' \in [Slots -> Processes \cup {NoProcess}]
        /\ alive' \subseteq Processes
        /\ quar' \subseteq Slots
        /\ launched' \in 0..MaxLaunches
    BY <1>1, ShutdownTyped DEF Running
  <1> QED
    BY <1>2 DEF StopEverySeat, TypeOK, SeatsTyped

LEMMA TypeStep == TypeOK /\ [Next]_vars => TypeOK'
  <1> SUFFICES ASSUME TypeOK, [Next]_vars
               PROVE  TypeOK'
    OBVIOUS
  <1> USE DEF table, children, peers
  <1>1. CASE GameMoves
    BY <1>1 DEF TypeOK, GameMoves, Games
  <1>2. CASE ProcessExits
    BY <1>2 DEF TypeOK, ProcessExits
  <1>3. ASSUME NEW s \in Sessions, SocketOpens(s)
        PROVE  TypeOK'
    BY <1>3, BoundsAssumption DEF TypeOK, SocketOpens, SocketStates
  <1>4. ASSUME NEW s \in Sessions, ReadJoinFacts(s)
        PROVE  TypeOK'
    BY <1>4 DEF TypeOK, ReadJoinFacts
  <1>5. ASSUME NEW s \in Sessions, Join(s)
        PROVE  TypeOK'
    <2>1. SeatsTyped'
      BY <1>5, JoinTyped
    <2>2. JoinAfterDispose(s) \/ Allocating(s)
      BY <1>5 DEF Join, Reenter, JoinSeat, JoinByName, JoinAsNew, JoinTurnedAway
    <2>3. Allocating(s)
      BY <2>2 DEF JoinAfterDispose
    <2> QED
      BY <2>1, <2>3 DEF TypeOK, SeatsTyped, Allocating
  <1>6. ASSUME NEW s \in Sessions, SocketCloses(s)
        PROVE  TypeOK'
    BY <1>6 DEF TypeOK, SocketCloses, SocketStates
  <1>7. ASSUME NEW s \in Sessions, ReadRunPresence(s)
        PROVE  TypeOK'
    BY <1>7 DEF TypeOK, ReadRunPresence, SocketStates
  <1>8. ASSUME NEW s \in Sessions, DetachOnClose(s)
        PROVE  TypeOK'
    <2>1. SeatsTyped' /\ UNCHANGED peers
      BY <1>8 DEF TypeOK, SeatsTyped, DetachOnClose, Detach, WithoutGrace, Running
    <2> QED
      BY <1>8, <2>1 DEF TypeOK, SeatsTyped, DetachOnClose, SocketStates
  <1>9. ASSUME NEW s \in Sessions, RetainOnClose(s)
        PROVE  TypeOK'
    <2>1. CASE Retainable(s)
      <3>1. bound[s] \in Slots /\ proc[bound[s]] \in Processes
        BY <2>1 DEF TypeOK, Retainable, Running
      <3>2. ticket' \in Nat
        BY <1>9, <2>1 DEF TypeOK, RetainOnClose
      <3>3. [slot |-> bound[s], ticket |-> ticket', session |-> s,
             process |-> proc[bound[s]]] \in Grace
        BY <3>1, <3>2 DEF Grace
      <3>4. grace' \subseteq Grace /\ detached' \subseteq Slots
        BY <1>9, <2>1, <3>1, <3>3 DEF TypeOK, RetainOnClose, WithoutGrace
      <3> QED
        BY <1>9, <2>1, <3>2, <3>4 DEF TypeOK, RetainOnClose, SocketStates
    <2>2. CASE ~Retainable(s)
      BY <1>9, <2>2 DEF TypeOK, RetainOnClose, SocketStates
    <2> QED
      BY <2>1, <2>2
  <1>10. ASSUME NEW s \in Sessions, ReleaseOnClose(s)
         PROVE  TypeOK'
    <2>1. /\ SeatsTyped'
          /\ peer' \subseteq Peer /\ evicting' = evicting /\ peerTicket' \in Nat
      BY <1>10, CompleteGraceTyped DEF ReleaseOnClose
    <2> QED
      BY <1>10, <2>1 DEF TypeOK, SeatsTyped, ReleaseOnClose, SocketStates
  <1>11. ASSUME NEW g \in grace \cup expiring, ExpiryStarts(g)
         PROVE  TypeOK'
    BY <1>11 DEF TypeOK, ExpiryStarts
  <1>12. ASSUME NEW g \in grace \cup expiring, ExpiryEnds(g)
         PROVE  TypeOK'
    <2>1. CASE CompleteGrace(g.session)
      <3>1. g.session \in Sessions
        BY DEF TypeOK, Grace
      <3>2. /\ SeatsTyped'
            /\ peer' \subseteq Peer /\ evicting' = evicting /\ peerTicket' \in Nat
        BY <2>1, <3>1, CompleteGraceTyped
      <3> QED
        BY <1>12, <3>2 DEF TypeOK, SeatsTyped, ExpiryEnds
    <2>2. CASE /\ grace' = grace \ {g}
               /\ UNCHANGED <<claim, bound, proc, detached, children, peers>>
      BY <1>12, <2>2 DEF TypeOK, ExpiryEnds
    <2> QED
      BY <1>12, <2>1, <2>2 DEF ExpiryEnds
  <1>13. ASSUME NEW g \in grace \cup expiring, ExpiryThrows(g)
         PROVE  TypeOK'
    BY <1>13 DEF TypeOK, ExpiryThrows
  <1>14. ASSUME NEW p \in peer, TryBeginPeerCleanup(p)
         PROVE  TypeOK'
    <2>1. [p EXCEPT !.inFlight = TRUE] \in Peer /\ [slot |-> p.slot, id |-> p.id] \in Eviction
      BY DEF TypeOK, Peer, Eviction
    <2> QED
      BY <1>14, <2>1 DEF TypeOK, TryBeginPeerCleanup
  <1>15. ASSUME NEW e \in evicting, ConfirmPeerCleanup(e)
         PROVE  TypeOK'
    BY <1>15 DEF TypeOK, ConfirmPeerCleanup
  <1>16. ASSUME NEW e \in evicting, PeerCleanupFailed(e)
         PROVE  TypeOK'
    <2>1. \A p \in Owed(e) : [p EXCEPT !.inFlight = FALSE] \in Peer
      BY DEF TypeOK, Peer, Owed
    <2> QED
      BY <1>16, <2>1 DEF TypeOK, PeerCleanupFailed
  <1>17. ASSUME NEW q \in Slots, ReapSeat(q)
         PROVE  TypeOK'
    <2>1. PICK stuck \in SUBSET {q} : ShutdownSlots({q}, stuck)
      BY <1>17 DEF ReapSeat
    <2>2. {q} \in SUBSET Slots
      OBVIOUS
    <2> QED
      BY <1>17, <2>1, <2>2, ShutdownTyped, SlotRemovalTyped DEF TypeOK, ReapSeat
  <1>18. CASE ReapDetachedSlots
    <2>1. PICK stuck \in SUBSET detached :
             /\ ShutdownSlots(detached, stuck)
             /\ bound' = WithoutSessions(bound, (detached \cap Running) \ stuck)
      BY <1>18 DEF ReapDetachedSlots
    <2>2. detached \in SUBSET Slots
      BY DEF TypeOK
    <2> QED
      BY <1>18, <2>1, <2>2, ShutdownTyped, SlotRemovalTyped DEF TypeOK, ReapDetachedSlots
  <1>19. ASSUME NEW q \in Slots, CleanupCompletes(q)
         PROVE  TypeOK'
    BY <1>19, SlotRemovalTyped DEF TypeOK, CleanupCompletes
  <1>20. ASSUME NEW q \in Slots, CleanupQuarantines(q)
         PROVE  TypeOK'
    BY <1>20 DEF TypeOK, CleanupQuarantines
  <1>21. CASE EndHosting
    <2>1. grace' \subseteq grace /\ StopEverySeat
      BY <1>21 DEF EndHosting, WithoutGrace
    <2> QED
      BY <1>21, <2>1, StopEverySeatTyped DEF TypeOK, SeatsTyped, EndHosting
  <1>22. CASE Dispose
    <2>1. grace' \subseteq grace /\ StopEverySeat
      BY <1>22 DEF Dispose
    <2> QED
      BY <1>22, <2>1, StopEverySeatTyped DEF TypeOK, SeatsTyped, Dispose
  <1>23. CASE UNCHANGED vars
    BY <1>23 DEF TypeOK, vars
  <1>24. ASSUME NEW s \in Sessions, Browser(s)
         PROVE  TypeOK'
    BY <1>24, <1>3, <1>4, <1>5, <1>6, <1>7, <1>8, <1>9, <1>10 DEF Browser
  <1>25. CASE Timers
    BY <1>25, <1>11, <1>12, <1>13 DEF Timers
  <1>26. CASE PeerCleanup
    BY <1>26, <1>14, <1>15, <1>16 DEF PeerCleanup
  <1>27. CASE Host
    BY <1>27, <1>17, <1>18, <1>19, <1>20, <1>21, <1>22 DEF Host
  <1> QED
    BY <1>1, <1>2, <1>23, <1>24, <1>25, <1>26, <1>27 DEF Next

LEMMA TypeInit == Init => TypeOK
  <1> SUFFICES ASSUME Init
               PROVE  TypeOK
    OBVIOUS
  <1>1. disposed \in BOOLEAN
    BY Zenon DEF Init
  <1> QED
    BY <1>1, BoundsAssumption DEF Init, TypeOK, Games, SocketStates

\* Every variable of the seat table keeps its type: a process never leaves the launched
\* range, a reservation always names a slot, a session and a process of the table.
THEOREM TypeCorrect == Spec => []TypeOK
  BY TypeInit, TypeStep, PTL DEF Spec

----------------------------------------------------------------------------
(* Claims                                                                  *)

\* Forgetting claims, or forgetting those on q and giving q to one name, keeps two
\* names from one slot.
LEMMA ForgettingKeepsBijection ==
    ASSUME TypeOK, ClaimsAreABijection, NEW S, claim' = WithoutClaims(claim, S)
    PROVE  ClaimsAreABijection'
  BY DEF TypeOK, ClaimsAreABijection, WithoutClaims

LEMMA RepointingKeepsBijection ==
    ASSUME TypeOK, ClaimsAreABijection, NEW n \in Names, NEW q \in Slots,
           claim' = [WithoutClaims(claim, {q}) EXCEPT ![n] = q]
    PROVE  ClaimsAreABijection'
  BY DEF TypeOK, ClaimsAreABijection, WithoutClaims

LEMMA RefusingKeepsBijection ==
    ASSUME TypeOK, ClaimsAreABijection, NEW n \in Names, NEW q \in Slots,
           claim' = WithoutClaims([WithoutClaims(claim, {q}) EXCEPT ![n] = q], {q})
    PROVE  ClaimsAreABijection'
  BY DEF TypeOK, ClaimsAreABijection, WithoutClaims

LEMMA JoinKeepsBijection ==
    ASSUME TypeOK, ClaimsAreABijection, NEW s \in Sessions, Join(s)
    PROVE  ClaimsAreABijection'
  <1>1. CASE UNCHANGED claim
    BY <1>1 DEF ClaimsAreABijection
  <1>2. ASSUME NEW n \in Names, NEW q \in Slots, NEW m \in BOOLEAN, JoinSeat(s, n, q, m)
        PROVE  ClaimsAreABijection'
    <2> DEFINE c == [WithoutClaims(claim, {q}) EXCEPT ![n] = q]
    <2>1. \/ claim' = claim \/ claim' = c \/ claim' = WithoutClaims(c, {q})
      BY <1>2 DEF JoinSeat, Share, Launch, Refuse
    <2> QED
      BY <2>1, <1>1, RepointingKeepsBijection, RefusingKeepsBijection
  <1>3. ASSUME NEW n \in Names, JoinByName(s, n)
        PROVE  UNCHANGED claim
    BY <1>3 DEF JoinByName, Share, Launch, Refuse
  <1>4. ASSUME NEW n \in Names, JoinAsNew(s, n)
        PROVE  ClaimsAreABijection'
    <2>1. PICK q \in Slots :
             LET claims == [WithoutClaims(claim, {q}) EXCEPT ![n] = q]
             IN  Launch(s, q, claims, {}) \/ Refuse(s, q, claims, {}, FALSE)
      BY <1>4 DEF JoinAsNew
    <2> DEFINE c == [WithoutClaims(claim, {q}) EXCEPT ![n] = q]
    <2>2. claim' = c \/ claim' = WithoutClaims(c, {q})
      BY <2>1 DEF Launch, Refuse
    <2> QED
      BY <2>2, RepointingKeepsBijection, RefusingKeepsBijection
  <1>5. (Reenter(s) \/ JoinAfterDispose(s) \/ \E n \in Names : JoinTurnedAway(s, n))
           => UNCHANGED claim
    BY DEF Reenter, JoinAfterDispose, JoinTurnedAway, table
  <1> QED
    BY <1>1, <1>2, <1>3, <1>4, <1>5 DEF Join

LEMMA BijectionStep == TypeOK /\ ClaimsAreABijection /\ [Next]_vars => ClaimsAreABijection'
  <1> SUFFICES ASSUME TypeOK, ClaimsAreABijection, [Next]_vars
               PROVE  ClaimsAreABijection'
    OBVIOUS
  <1> USE DEF table
  <1>1. CASE UNCHANGED claim
    BY <1>1 DEF ClaimsAreABijection
  <1>2. (GameMoves \/ ProcessExits \/ Timers \/ PeerCleanup) => UNCHANGED claim
    BY DEF GameMoves, ProcessExits, Timers, ExpiryStarts, ExpiryEnds, ExpiryThrows,
           CompleteGrace, Detach, Release, PeerCleanup, TryBeginPeerCleanup,
           ConfirmPeerCleanup, PeerCleanupFailed
  <1>3. ASSUME NEW s \in Sessions, Browser(s), ~Join(s)
        PROVE  UNCHANGED claim
    BY <1>3 DEF Browser, SocketOpens, ReadJoinFacts, SocketCloses, ReadRunPresence,
                DetachOnClose, RetainOnClose, ReleaseOnClose, CompleteGrace, Detach, Release
  <1>4. ASSUME NEW s \in Sessions, Join(s)
        PROVE  ClaimsAreABijection'
    BY <1>4, JoinKeepsBijection
  <1>5. ASSUME NEW q \in Slots, ReapSeat(q) \/ CleanupCompletes(q)
        PROVE  ClaimsAreABijection'
    BY <1>5, ForgettingKeepsBijection DEF ReapSeat, CleanupCompletes
  <1>6. ASSUME NEW q \in Slots, CleanupQuarantines(q)
        PROVE  UNCHANGED claim
    BY <1>6 DEF CleanupQuarantines
  <1>7. CASE ReapDetachedSlots
    BY <1>7, ForgettingKeepsBijection DEF ReapDetachedSlots
  <1>8. CASE EndHosting \/ Dispose
    BY <1>8 DEF EndHosting, Dispose, StopEverySeat, ClaimsAreABijection
  <1>9. CASE Host
    BY <1>9, <1>1, <1>5, <1>6, <1>7, <1>8 DEF Host
  <1>10. CASE UNCHANGED vars
    BY <1>10, <1>1 DEF vars
  <1> QED
    BY <1>1, <1>2, <1>3, <1>4, <1>9, <1>10 DEF Next

\* No two names ever claim the same slot, whatever rejoins, seat picks, thefts of a
\* dead player's slot and refusals came before.
THEOREM ClaimsStayABijection == Spec => []ClaimsAreABijection
  <1>1. Init => ClaimsAreABijection
    BY DEF Init, ClaimsAreABijection
  <1> QED
    BY <1>1, TypeCorrect, BijectionStep, PTL DEF Spec

----------------------------------------------------------------------------
(* The table of processes, sessions and reservations                       *)

\* The table once the dead slots are reaped satisfies the same invariant.
LEMMA ReapedInv ==
    ASSUME TypeOK, TableInv
    PROVE  /\ alive \subseteq {ProcR[q] : q \in Slots}
           /\ \A q \in Slots : ProcR[q] <= launched
           /\ \A q, r \in Slots : q # r /\ ProcR[q] # NoProcess => ProcR[q] # ProcR[r]
           /\ \A s \in Sessions : BoundR[s] # NoSlot =>
                 /\ ProcR[BoundR[s]] # NoProcess
                 /\ \A x \in Sessions \ {s} : BoundR[x] # BoundR[s]
           /\ \A g \in GraceR :
                 /\ BoundR[g.session] = g.slot /\ ProcR[g.slot] = g.process
                 /\ sock[g.session] = "closed"
                 /\ g.slot \in DetachedR
           /\ \A p \in peer : ProcR[p.slot] = NoProcess
  <1>1. alive \subseteq {ProcR[q] : q \in Slots}
    BY DEF TypeOK, TableInv, NoGameEscapesTheTable, ProcR, Dead, Exited, NoProcess, Processes
  <1>2. \A q \in Slots : ProcR[q] <= launched
    BY DEF TypeOK, TableInv, IdsAreFresh, ProcR, NoProcess, Processes
  <1>3. \A q, r \in Slots : q # r /\ ProcR[q] # NoProcess => ProcR[q] # ProcR[r]
    BY DEF TypeOK, TableInv, NoGameEscapesTheTable, ProcR, Running
  <1>4. \A s \in Sessions : BoundR[s] # NoSlot =>
           /\ ProcR[BoundR[s]] # NoProcess
           /\ \A x \in Sessions \ {s} : BoundR[x] # BoundR[s]
    BY DEF TypeOK, TableInv, BindingsOwnAProcess, BoundR, WithoutSessions, ProcR, Running
  <1>5. \A g \in GraceR : g \in grace /\ g.slot \in Slots /\ g.slot \notin Dead
                       /\ g.session \in Sessions
    BY DEF TypeOK, GraceR, WithoutGrace, Grace
  <1>6. \A g \in GraceR :
           /\ BoundR[g.session] = g.slot /\ ProcR[g.slot] = g.process
           /\ sock[g.session] = "closed"
           /\ g.slot \in DetachedR
    BY <1>5 DEF TypeOK, TableInv, GraceIsForTheHolder, BoundR, WithoutSessions, ProcR, DetachedR
  <1>7. \A p \in peer : ProcR[p.slot] = NoProcess
    BY DEF TypeOK, Peer, TableInv, PendingPeerKeepsSlotEmpty, ProcR, Running
  <1> QED
    BY <1>1, <1>2, <1>3, <1>4, <1>6, <1>7

\* The invariant without the sockets' part, which joins do not touch.
SeatsInv ==
    /\ IdsAreFresh
    /\ BindingsOwnAProcess
    /\ NoGameEscapesTheTable
    /\ GraceIsForTheHolder
    /\ PendingPeerKeepsSlotEmpty

\* The slot a session takes over is its own, and no reservation names it or the session.
LEMMA TakeOver ==
    ASSUME TypeOK, TableInv, NEW s \in Sessions, NEW q \in Slots, NEW over,
           over = {q} \/ (over = {} /\ ProcR[q] = NoProcess), sock[s] = "open", TakeSlot(over)
    PROVE  /\ \A x \in Sessions \ {s} : TakenBy(s, q, over)[x] # NoSlot =>
                 /\ TakenBy(s, q, over)[x] # q
                 /\ TakenBy(s, q, over)[x] \in Slots
                 /\ ProcR[TakenBy(s, q, over)[x]] # NoProcess
                 /\ \A y \in Sessions \ {x, s} : TakenBy(s, q, over)[y] # TakenBy(s, q, over)[x]
           /\ TakenBy(s, q, over)[s] = q
           /\ \A g \in grace' :
                 /\ g.session \in Sessions \ {s} /\ g.slot \in Slots \ {q}
                 /\ TakenBy(s, q, over)[g.session] = g.slot /\ ProcR[g.slot] = g.process
                 /\ sock[g.session] = "closed"
                 /\ g.slot \in detached'
  <1>1. BoundR \in [Sessions -> Slots \cup {NoSlot}]
    BY ReapedTable
  <1>2. TakenBy(s, q, over) = [x \in Sessions |-> IF x = s THEN q
                                           ELSE IF BoundR[x] = q THEN NoSlot ELSE BoundR[x]]
    <2>1. over # {q} => /\ over = {}
                        /\ \A x \in Sessions : BoundR[x] # q
      <3>1. \A x \in Sessions : BoundR[x] # NoSlot => ProcR[BoundR[x]] # NoProcess
        BY ReapedInv
      <3>2. q # NoSlot
        BY DEF Slots, NoSlot, MinSlot
      <3> QED BY <3>1, <3>2
    <2> QED BY <1>1, <2>1 DEF TakenBy, WithoutSessions
  <1>3. \A g \in grace' : g \in GraceR /\ g.slot # q /\ g.slot \in Slots /\ g.session \in Sessions
    <2>1. \A g \in GraceR : g.slot \in Slots /\ g.session \in Sessions /\ g.process # NoProcess
      BY ReapedTable DEF Grace, NoProcess, Processes
    <2>2. \A g \in GraceR : ProcR[g.slot] = g.process
      BY ReapedInv
    <2> QED BY <2>1, <2>2 DEF TakeSlot, WithoutGrace
  <1>4. \A g \in grace' : g.session # s
    BY <1>3, ReapedInv
  <1>5. \A g \in grace' : g.slot \in detached'
    BY <1>3, ReapedInv DEF TakeSlot
  <1> QED
    BY <1>1, <1>2, <1>3, <1>4, <1>5, ReapedInv

LEMMA ShareKeepsInv ==
    ASSUME TypeOK, TableInv, NEW s \in Sessions, NEW q \in Slots, NEW c,
           sock[s] = "open", UNCHANGED <<sock, peer>>, Share(s, q, c)
    PROVE  SeatsInv'
  <1>0. PICK over : over = {q}
    OBVIOUS
  <1>1. /\ TakeSlot(over) /\ ProcR[q] # NoProcess
        /\ bound' = TakenBy(s, q, over) /\ proc' = ProcR /\ alive' = alive /\ launched' = launched
    BY <1>0 DEF Share, children, TakeSlot, TakenBy
  <1>2. IdsAreFresh'
    BY <1>1, ReapedInv DEF IdsAreFresh, TableInv
  <1>3. BindingsOwnAProcess'
    <2>1. /\ bound'[s] = q
          /\ \A x \in Sessions \ {s} : bound'[x] # NoSlot =>
               /\ bound'[x] # q
               /\ bound'[x] \in Slots
               /\ ProcR[bound'[x]] # NoProcess
               /\ \A y \in Sessions \ {x, s} : bound'[y] # bound'[x]
      <3>1. over = {q} \/ (over = {} /\ ProcR[q] = NoProcess)
        BY <1>0
      <3> QED BY <1>1, <3>1, TakeOver
    <2>2. \A x \in Sessions : bound'[x] # NoSlot => bound'[x] \in Slots /\ proc'[bound'[x]] # NoProcess
      BY <1>1, <2>1
    <2> QED BY <2>1, <2>2 DEF BindingsOwnAProcess, Running
  <1>4. NoGameEscapesTheTable'
    BY <1>1, ReapedInv DEF NoGameEscapesTheTable, Running
  <1>5. GraceIsForTheHolder'
    BY <1>0, <1>1, TakeOver DEF GraceIsForTheHolder
  <1>6. PendingPeerKeepsSlotEmpty'
    BY <1>1, ReapedInv DEF PendingPeerKeepsSlotEmpty, Running
  <1> QED
    BY <1>2, <1>3, <1>4, <1>5, <1>6 DEF SeatsInv

LEMMA LaunchKeepsInv ==
    ASSUME TypeOK, TableInv, NEW s \in Sessions, NEW q \in Slots, NEW c,
           sock[s] = "open", UNCHANGED <<sock, peer>>, NEW over, over \in {{q}, {}}, Launch(s, q, c, over)
    PROVE  SeatsInv'
  <1>1. /\ TakeSlot(over) /\ ProcR[q] = NoProcess /\ ~PeerPending(q)
        /\ bound' = TakenBy(s, q, over) /\ launched' = launched + 1
        /\ proc' = [ProcR EXCEPT ![q] = launched + 1] /\ alive' = alive \cup {launched + 1}
    BY DEF Launch
  <1>2. /\ launched \in Nat /\ launched + 1 # NoProcess
        /\ ProcR \in [Slots -> Processes \cup {NoProcess}]
        /\ \A r \in Slots : ProcR[r] \in Nat /\ ProcR[r] <= launched
    BY ReapedTable, ReapedInv, BoundsAssumption DEF TypeOK, Processes, NoProcess
  <1>3. IdsAreFresh'
    BY <1>1, <1>2 DEF IdsAreFresh, TableInv
  <1>4. BindingsOwnAProcess'
    BY <1>1, <1>2, TakeOver DEF BindingsOwnAProcess, Running
  <1>5. NoGameEscapesTheTable'
    <2>1. \A r \in Slots : proc'[r] = IF r = q THEN launched + 1 ELSE ProcR[r]
      BY <1>1, <1>2
    <2>2. \A p \in alive : \E r \in Slots \ {q} : ProcR[r] = p
      BY <1>1, ReapedInv DEF TypeOK, Processes, NoProcess
    <2>3. alive' \subseteq {proc'[r] : r \in Slots}
      BY <1>1, <2>1, <2>2
    <2>4. \A r, t \in Slots : r # t /\ proc'[r] # NoProcess => proc'[r] # proc'[t]
      BY <1>2, <2>1, ReapedInv
    <2> QED
      BY <2>3, <2>4 DEF NoGameEscapesTheTable, Running
  <1>6. GraceIsForTheHolder'
    BY <1>1, <1>2, TakeOver DEF GraceIsForTheHolder
  <1>7. PendingPeerKeepsSlotEmpty'
    BY <1>1, <1>2, ReapedInv DEF TypeOK, Peer, PendingPeerKeepsSlotEmpty, Running, PeerPending
  <1> QED
    BY <1>3, <1>4, <1>5, <1>6, <1>7 DEF SeatsInv

LEMMA DropKeepsInv ==
    ASSUME TypeOK, TableInv, NEW s \in Sessions, NEW q \in Slots,
           sock[s] = "open", UNCHANGED <<sock, peer, alive, launched>>,
           NEW over, over = {q} \/ (over = {} /\ ProcR[q] = NoProcess),
           TakeSlot(over), bound' = [TakenBy(s, q, over) EXCEPT ![s] = NoSlot], proc' = ProcR
    PROVE  SeatsInv'
  <1>1. \A x \in Sessions : bound'[x] = IF x = s THEN NoSlot ELSE TakenBy(s, q, over)[x]
    BY TakenByTyped
  <1>2. IdsAreFresh'
    BY ReapedInv DEF IdsAreFresh, TableInv
  <1>3. BindingsOwnAProcess'
    BY <1>1, TakeOver DEF BindingsOwnAProcess, Running
  <1>4. NoGameEscapesTheTable'
    BY ReapedInv DEF NoGameEscapesTheTable, Running
  <1>5. GraceIsForTheHolder'
    BY <1>1, TakeOver DEF GraceIsForTheHolder
  <1>6. PendingPeerKeepsSlotEmpty'
    BY ReapedInv DEF PendingPeerKeepsSlotEmpty, Running
  <1> QED
    BY <1>2, <1>3, <1>4, <1>5, <1>6 DEF SeatsInv

\* However a join ends, the table stays consistent.
LEMMA JoinKeepsInv ==
    ASSUME TypeOK, TableInv, NEW s \in Sessions, Join(s)
    PROVE  SeatsInv'
  <1>1. Allocating(s)
    BY DEF Join, Reenter, JoinSeat, JoinByName, JoinAsNew, JoinTurnedAway, JoinAfterDispose
  <1>2. sock[s] = "open" /\ UNCHANGED <<sock, peer>>
    BY <1>1 DEF Allocating, TableInv, JoinsAreOpen, peers
  <1>3. \A q \in Slots : \A c, r : \A over \in {{q}, {}} : Refuse(s, q, c, over, r) => SeatsInv'
    BY <1>2, DropKeepsInv DEF Refuse, children
  <1>4. CASE Reenter(s)
    <2> DEFINE q == BoundR[s]
    <2>1. /\ q \in Slots /\ TakeSlot({q})
          /\ bound' = BoundR /\ proc' = ProcR /\ alive' = alive /\ launched' = launched
      BY <1>4, ReapedTable DEF Reenter, children
    <2>2. \A g \in grace' : g \in GraceR /\ g.slot \in detached'
      BY <2>1, ReapedInv DEF TakeSlot, WithoutGrace
    <2>3. GraceIsForTheHolder'
      BY <1>2, <2>1, <2>2, ReapedInv DEF GraceIsForTheHolder
    <2>4. BindingsOwnAProcess'
      BY <2>1, ReapedTable, ReapedInv DEF BindingsOwnAProcess, Running
    <2>5. IdsAreFresh'
      BY <2>1, ReapedInv DEF IdsAreFresh, TableInv
    <2>6. NoGameEscapesTheTable' /\ PendingPeerKeepsSlotEmpty'
      BY <1>2, <2>1, ReapedInv DEF NoGameEscapesTheTable, PendingPeerKeepsSlotEmpty, Running
    <2> QED
      BY <2>3, <2>4, <2>5, <2>6 DEF SeatsInv
  <1>5. ASSUME NEW n \in Names, NEW q \in Slots, NEW m \in BOOLEAN, JoinSeat(s, n, q, m)
        PROVE  SeatsInv'
    BY <1>2, <1>3, <1>5, ShareKeepsInv, LaunchKeepsInv, DropKeepsInv DEF JoinSeat, children
  <1>6. ASSUME NEW n \in Names, JoinByName(s, n)
        PROVE  SeatsInv'
    <2>1. claim[n] \in Slots
      BY <1>6 DEF TypeOK, JoinByName
    <2> QED
      BY <1>2, <1>3, <1>6, <2>1, ShareKeepsInv, LaunchKeepsInv DEF JoinByName
  <1>7. ASSUME NEW n \in Names, JoinAsNew(s, n)
        PROVE  SeatsInv'
    BY <1>2, <1>3, <1>7, LaunchKeepsInv DEF JoinAsNew
  <1>8. ASSUME NEW n \in Names, JoinTurnedAway(s, n)
        PROVE  SeatsInv'
    <2>1. /\ bound' = BoundR /\ proc' = ProcR /\ grace' = GraceR /\ detached' = DetachedR
          /\ alive' = alive /\ launched' = launched
      BY <1>8 DEF JoinTurnedAway, children
    <2>2. IdsAreFresh'
      BY <2>1, ReapedInv DEF IdsAreFresh, TableInv
    <2>3. BindingsOwnAProcess'
      BY <2>1, ReapedTable, ReapedInv DEF BindingsOwnAProcess, Running
    <2>4. NoGameEscapesTheTable' /\ PendingPeerKeepsSlotEmpty' /\ GraceIsForTheHolder'
      BY <1>2, <2>1, ReapedInv
      DEF NoGameEscapesTheTable, PendingPeerKeepsSlotEmpty, GraceIsForTheHolder, Running
    <2> QED
      BY <2>2, <2>3, <2>4 DEF SeatsInv
  <1>9. CASE JoinAfterDispose(s)
    BY <1>2, <1>9 DEF JoinAfterDispose, table, children, TableInv, SeatsInv, IdsAreFresh,
       BindingsOwnAProcess, NoGameEscapesTheTable, GraceIsForTheHolder,
       PendingPeerKeepsSlotEmpty, Running
  <1> QED
    BY <1>4, <1>5, <1>6, <1>7, <1>8, <1>9 DEF Join

\* Killing slots that no session and no reservation keeps afterwards.
LEMMA ShutdownKeepsInv ==
    ASSUME TypeOK, TableInv, NEW S \in SUBSET Slots, NEW stuck \in SUBSET S,
           ShutdownSlots(S, stuck),
           \A s \in Sessions : bound'[s] # NoSlot =>
              bound'[s] = bound[s] /\ bound[s] \notin S \ stuck
    PROVE  /\ IdsAreFresh' /\ NoGameEscapesTheTable' /\ BindingsOwnAProcess'
           /\ \A q \in Slots : proc'[q] = IF q \in S \ stuck THEN NoProcess ELSE proc[q]
  <1>1. \A q \in Slots : proc'[q] = IF q \in S \ stuck THEN NoProcess ELSE proc[q]
    BY DEF ShutdownSlots
  <1>2. alive' = alive \ {proc[q] : q \in S \ stuck} /\ launched' = launched
    BY DEF ShutdownSlots
  <1>3. \A q \in Slots : proc'[q] <= launched'
    BY <1>1, <1>2 DEF TypeOK, TableInv, IdsAreFresh, NoProcess
  <1>4. IdsAreFresh'
    BY <1>2, <1>3 DEF TableInv, IdsAreFresh
  <1>5. alive' \subseteq {proc'[q] : q \in Slots}
    BY <1>1, <1>2 DEF TableInv, NoGameEscapesTheTable
  <1>6. NoGameEscapesTheTable'
    BY <1>1, <1>5 DEF TableInv, NoGameEscapesTheTable, Running
  <1>7. BindingsOwnAProcess'
    BY <1>1 DEF TypeOK, TableInv, BindingsOwnAProcess, Running
  <1> QED
    BY <1>1, <1>4, <1>6, <1>7

\* A browser leaving, in a run or after its grace: s's socket need not be open any more.
LEMMA DetachKeepsInv ==
    ASSUME TypeOK, TableInv, NEW s \in Sessions, bound[s] # NoSlot, Detach(s),
           \A x \in Sessions : sock[x] = "closed" => sock'[x] = "closed"
    PROVE  SeatsInv'
  <1>1. bound[s] \in Slots
    BY DEF TypeOK
  <1>2. \A x \in Sessions : bound'[x] = IF x = s THEN NoSlot ELSE bound[x]
    BY DEF TypeOK, Detach
  <1>3. /\ proc' = proc /\ alive' = alive /\ launched' = launched /\ peer' = peer
        /\ grace' = WithoutGrace(grace, {bound[s]}) /\ detached \subseteq detached'
    BY DEF Detach, children, peers
  <1>4. \A g \in grace' : g \in grace /\ g.session \in Sessions \ {s}
    BY <1>3 DEF TypeOK, Grace, TableInv, GraceIsForTheHolder, WithoutGrace
  <1>5. GraceIsForTheHolder'
    BY <1>2, <1>3, <1>4 DEF TableInv, GraceIsForTheHolder
  <1>6. BindingsOwnAProcess'
    BY <1>2, <1>3 DEF TableInv, BindingsOwnAProcess, Running
  <1>7. IdsAreFresh' /\ NoGameEscapesTheTable' /\ PendingPeerKeepsSlotEmpty'
    BY <1>3
    DEF TableInv, IdsAreFresh, NoGameEscapesTheTable, PendingPeerKeepsSlotEmpty, Running
  <1> QED
    BY <1>5, <1>6, <1>7 DEF SeatsInv

LEMMA ReleaseKeepsInv ==
    ASSUME TypeOK, TableInv, NEW s \in Sessions, bound[s] # NoSlot, Release(s),
           \A x \in Sessions : sock[x] = "closed" => sock'[x] = "closed"
    PROVE  SeatsInv'
  <1> DEFINE q == bound[s]
  <1>1. /\ q \in Slots /\ q \in Running
        /\ \A x \in Sessions \ {s} : bound[x] # q
    BY DEF TypeOK, TableInv, BindingsOwnAProcess
  <1>2. PICK stuck \in SUBSET {q} :
           /\ ShutdownSlots({q}, stuck)
           /\ detached' = detached \ ({q} \ stuck)
           /\ IF stuck = {}
              THEN /\ peerTicket' = peerTicket + 1
                   /\ peer' = {p \in peer : p.slot # q} \cup
                              {[slot |-> q, id |-> peerTicket', inFlight |-> FALSE]}
              ELSE UNCHANGED <<peer, peerTicket>>
    BY <1>1 DEF Release
  <1>3. \A x \in Sessions : bound'[x] = IF x = s THEN NoSlot ELSE bound[x]
    BY DEF TypeOK, Release
  <1>4. /\ IdsAreFresh' /\ NoGameEscapesTheTable' /\ BindingsOwnAProcess'
        /\ \A r \in Slots : proc'[r] = IF r \in {q} \ stuck THEN NoProcess ELSE proc[r]
    <2>1. {q} \in SUBSET Slots
      BY <1>1
    <2>2. \A x \in Sessions : bound'[x] # NoSlot =>
             bound'[x] = bound[x] /\ bound[x] \notin {q} \ stuck
      BY <1>1, <1>3
    <2> HIDE DEF q
    <2> QED
      BY <1>2, <2>1, <2>2, ShutdownKeepsInv
  <1>5. \A g \in grace' : /\ g \in grace /\ g.slot \in Slots \ {q}
                         /\ g.session \in Sessions \ {s}
    BY DEF TypeOK, Grace, TableInv, GraceIsForTheHolder, WithoutGrace, Release
  <1>6. GraceIsForTheHolder'
    BY <1>2, <1>3, <1>4, <1>5 DEF TableInv, GraceIsForTheHolder
  <1>7. PendingPeerKeepsSlotEmpty'
    <2>1. \A p \in peer : p.slot \in Slots /\ p.slot # q /\ proc[p.slot] = NoProcess
      BY <1>1 DEF TypeOK, Peer, TableInv, PendingPeerKeepsSlotEmpty, Running
    <2> HIDE DEF q
    <2>2. \A p \in peer' : p \in peer \/ (p.slot = q /\ stuck = {})
      <3> DEFINE owed == [slot |-> q, id |-> peerTicket', inFlight |-> FALSE]
      <3>1. CASE stuck = {}
        <4>1. owed.slot = q
          OBVIOUS
        <4>2. peer' = {p \in peer : p.slot # q} \cup {owed}
          BY <1>2, <3>1
        <4> HIDE DEF owed
        <4> QED
          BY <3>1, <4>1, <4>2
      <3>2. CASE stuck # {}
        <4>1. peer' = peer
          BY <1>2, <3>2
        <4> QED
          BY <4>1
      <3> QED
        BY <3>1, <3>2
    <2> QED
      BY <1>1, <1>4, <2>1, <2>2 DEF PendingPeerKeepsSlotEmpty, Running
  <1> QED
    BY <1>4, <1>6, <1>7 DEF SeatsInv

LEMMA CompleteGraceKeepsInv ==
    ASSUME TypeOK, TableInv, NEW s \in Sessions, CompleteGrace(s),
           \A x \in Sessions : sock[x] = "closed" => sock'[x] = "closed"
    PROVE  SeatsInv'
  <1>1. CASE bound[s] = NoSlot
    <2>1. UNCHANGED <<bound, proc, alive, launched, grace, detached, peer>>
      BY <1>1 DEF CompleteGrace, table, children, peers
    <2>2. \A g \in grace : g.session \in Sessions
      BY DEF TypeOK, Grace
    <2>3. GraceIsForTheHolder'
      BY <2>1, <2>2 DEF TableInv, GraceIsForTheHolder
    <2> QED
      BY <2>1, <2>3 DEF TableInv, SeatsInv, IdsAreFresh, BindingsOwnAProcess,
         NoGameEscapesTheTable, PendingPeerKeepsSlotEmpty, Running
  <1> QED
    BY <1>1, DetachKeepsInv, ReleaseKeepsInv DEF CompleteGrace

\* The host ends one seat: its session, its reservation and, unless it sticks, its process.
LEMMA EndingKeepsInv ==
    ASSUME TypeOK, TableInv, NEW q \in Slots, NEW stuck \in SUBSET {q},
           ShutdownSlots({q}, stuck),
           bound' = WithoutSessions(bound, {q}), grace' = WithoutGrace(grace, {q}),
           detached' = detached \ {q}, sock' = sock, peer' = peer
    PROVE  SeatsInv'
  <1>1. \A s \in Sessions : bound'[s] # NoSlot =>
           bound'[s] = bound[s] /\ bound[s] \notin {q} \ stuck
    BY DEF WithoutSessions
  <1>2. {q} \in SUBSET Slots
    OBVIOUS
  <1>3. /\ IdsAreFresh' /\ NoGameEscapesTheTable' /\ BindingsOwnAProcess'
        /\ \A r \in Slots : proc'[r] = IF r \in {q} \ stuck THEN NoProcess ELSE proc[r]
    BY <1>1, <1>2, ShutdownKeepsInv
  <1>4. \A g \in grace' : g \in grace /\ g.slot \in Slots \ {q} /\ g.session \in Sessions
    BY DEF TypeOK, Grace, WithoutGrace
  <1>5. GraceIsForTheHolder'
    BY <1>3, <1>4 DEF TableInv, GraceIsForTheHolder, WithoutSessions
  <1>6. PendingPeerKeepsSlotEmpty'
    BY <1>3 DEF TypeOK, Peer, TableInv, PendingPeerKeepsSlotEmpty, Running
  <1> QED
    BY <1>3, <1>5, <1>6 DEF SeatsInv

LEMMA TableStep == TypeOK /\ TableInv /\ [Next]_vars => TableInv'
  <1> SUFFICES ASSUME TypeOK, TableInv, [Next]_vars
               PROVE  TableInv'
    OBVIOUS
  <1>1. JoinsAreOpen'
    <2>1. ASSUME NEW s \in Sessions, Browser(s)
          PROVE  JoinsAreOpen'
      <3>1. CASE Join(s)
        <4>1. Allocating(s)
          BY <3>1 DEF Join, Reenter, JoinSeat, JoinByName, JoinAsNew, JoinTurnedAway,
                      JoinAfterDispose
        <4> QED
          BY <4>1 DEF TypeOK, TableInv, JoinsAreOpen, Allocating
      <3>2. CASE SocketOpens(s) \/ ReadJoinFacts(s) \/ SocketCloses(s) \/ ReadRunPresence(s)
        BY <3>2 DEF TypeOK, TableInv, JoinsAreOpen, SocketOpens, ReadJoinFacts, SocketCloses,
                    ReadRunPresence
      <3>3. CASE DetachOnClose(s) \/ RetainOnClose(s) \/ ReleaseOnClose(s)
        BY <3>3 DEF TypeOK, TableInv, JoinsAreOpen, DetachOnClose, RetainOnClose, ReleaseOnClose
      <3> QED
        BY <2>1, <3>1, <3>2, <3>3 DEF Browser
    <2>2. CASE UNCHANGED <<facts, sock>>
      BY <2>2 DEF TableInv, JoinsAreOpen
    <2>3. (GameMoves \/ ProcessExits \/ Timers \/ PeerCleanup \/ Host \/ UNCHANGED vars)
             => UNCHANGED <<facts, sock>>
      BY DEF GameMoves, ProcessExits, Timers, ExpiryStarts, ExpiryEnds, ExpiryThrows,
             PeerCleanup, TryBeginPeerCleanup, ConfirmPeerCleanup, PeerCleanupFailed, Host,
             ReapSeat, CleanupCompletes, CleanupQuarantines, ReapDetachedSlots, EndHosting,
             Dispose, vars
    <2> QED
      BY <2>1, <2>2, <2>3 DEF Next
  <1>2. ASSUME UNCHANGED <<sock, bound, proc, alive, launched, grace, detached, peer>>
        PROVE  SeatsInv'
    BY <1>2 DEF TableInv, SeatsInv, IdsAreFresh, BindingsOwnAProcess, NoGameEscapesTheTable,
       GraceIsForTheHolder, PendingPeerKeepsSlotEmpty, Running
  <1>3. ASSUME GameMoves
        PROVE  SeatsInv'
    BY <1>2, <1>3 DEF GameMoves, table, children, peers
  <1>4. ASSUME ProcessExits
        PROVE  SeatsInv'
    BY <1>4 DEF ProcessExits, table, peers, TableInv, SeatsInv, IdsAreFresh,
       BindingsOwnAProcess, NoGameEscapesTheTable, GraceIsForTheHolder,
       PendingPeerKeepsSlotEmpty, Running
  <1>5. ASSUME NEW s \in Sessions, SocketOpens(s)
        PROVE  SeatsInv'
    <2>1. /\ UNCHANGED <<bound, proc, alive, launched, grace, detached, peer>>
          /\ \A x \in Sessions \ {s} : sock'[x] = sock[x]
          /\ \A g \in grace : g.session # s
      BY <1>5 DEF SocketOpens, Forgotten, table, children, peers, TypeOK
    <2>2. \A g \in grace : g.session \in Sessions
      BY DEF TypeOK, Grace
    <2>3. GraceIsForTheHolder'
      BY <2>1, <2>2 DEF TableInv, GraceIsForTheHolder
    <2> QED
      BY <2>1, <2>3 DEF TableInv, SeatsInv, IdsAreFresh, BindingsOwnAProcess,
         NoGameEscapesTheTable, PendingPeerKeepsSlotEmpty, Running
  <1>6. ASSUME NEW s \in Sessions, ReadJoinFacts(s)
        PROVE  SeatsInv'
    BY <1>2, <1>6 DEF ReadJoinFacts, table, children, peers, TableInv, SeatsInv
  <1>7. ASSUME NEW s \in Sessions, Join(s)
        PROVE  SeatsInv'
    BY <1>7, JoinKeepsInv
  <1>8. ASSUME NEW s \in Sessions, SocketCloses(s) \/ ReadRunPresence(s)
        PROVE  SeatsInv'
    <2>1. /\ UNCHANGED <<bound, proc, alive, launched, grace, detached, peer>>
          /\ \A x \in Sessions : sock[x] = "closed" => sock'[x] = "closed"
      BY <1>8 DEF SocketCloses, ReadRunPresence, table, children, peers, TypeOK
    <2>2. \A g \in grace : g.session \in Sessions
      BY DEF TypeOK, Grace
    <2>3. GraceIsForTheHolder'
      BY <2>1, <2>2 DEF TableInv, GraceIsForTheHolder
    <2> QED
      BY <2>1, <2>3 DEF TableInv, SeatsInv, IdsAreFresh, BindingsOwnAProcess,
         NoGameEscapesTheTable, PendingPeerKeepsSlotEmpty, Running
  <1>9. ASSUME NEW s \in Sessions, DetachOnClose(s)
        PROVE  SeatsInv'
    <2>1. \A x \in Sessions : sock[x] = "closed" => sock'[x] = "closed"
      BY <1>9 DEF DetachOnClose, TypeOK
    <2>2. CASE bound[s] # NoSlot
      BY <1>9, <2>1, <2>2, DetachKeepsInv DEF DetachOnClose
    <2>3. CASE bound[s] = NoSlot
      BY <1>9, <2>1, <2>3, CompleteGraceKeepsInv DEF DetachOnClose, CompleteGrace
    <2> QED
      BY <2>2, <2>3
  <1>10. ASSUME NEW s \in Sessions, RetainOnClose(s)
         PROVE  SeatsInv'
    <2>1. /\ UNCHANGED <<bound, proc, alive, launched, peer>>
          /\ detached \subseteq detached'
          /\ \A x \in Sessions : sock[x] = "closed" => sock'[x] = "closed"
      BY <1>10 DEF RetainOnClose, children, peers, TypeOK
    <2>2. \A g \in grace : g.session \in Sessions
      BY DEF TypeOK, Grace
    <2>3. GraceIsForTheHolder'
      <3>1. CASE Retainable(s)
        <4> DEFINE fresh == [slot |-> bound[s], ticket |-> ticket', session |-> s,
                             process |-> proc[bound[s]]]
        <4>1. /\ \A g \in grace' : g \in grace \/ g = fresh
              /\ bound[s] \in detached'
              /\ sock'[s] = "closed"
          BY <1>10, <3>1 DEF RetainOnClose, WithoutGrace, TypeOK
        <4>2. fresh.slot = bound[s] /\ fresh.session = s /\ fresh.process = proc[bound[s]]
          OBVIOUS
        <4> HIDE DEF fresh
        <4> QED
          BY <2>1, <2>2, <4>1, <4>2 DEF TableInv, GraceIsForTheHolder
      <3>2. CASE ~Retainable(s)
        BY <1>10, <2>1, <2>2, <3>2 DEF RetainOnClose, TableInv, GraceIsForTheHolder
      <3> QED
        BY <3>1, <3>2
    <2> QED
      BY <2>1, <2>3 DEF TableInv, SeatsInv, IdsAreFresh, BindingsOwnAProcess,
         NoGameEscapesTheTable, PendingPeerKeepsSlotEmpty, Running
  <1>11. ASSUME NEW s \in Sessions, ReleaseOnClose(s)
         PROVE  SeatsInv'
    <2>1. \A x \in Sessions : sock[x] = "closed" => sock'[x] = "closed"
      BY <1>11 DEF ReleaseOnClose, TypeOK
    <2> QED
      BY <1>11, <2>1, CompleteGraceKeepsInv DEF ReleaseOnClose
  <1>12. ASSUME NEW g \in grace \cup expiring, ExpiryStarts(g) \/ ExpiryThrows(g)
         PROVE  SeatsInv'
    <2>1. UNCHANGED <<sock, bound, proc, alive, launched, detached, peer>> /\ grace' \subseteq grace
      BY <1>12 DEF ExpiryStarts, ExpiryThrows, children, peers
    <2> QED
      BY <2>1 DEF TableInv, SeatsInv, IdsAreFresh, BindingsOwnAProcess, NoGameEscapesTheTable,
         GraceIsForTheHolder, PendingPeerKeepsSlotEmpty, Running
  <1>13. ASSUME NEW g \in grace \cup expiring, ExpiryEnds(g)
         PROVE  SeatsInv'
    <2>1. UNCHANGED sock
      BY <1>13 DEF ExpiryEnds
    <2>2. CASE CompleteGrace(g.session)
      <3>1. g.session \in Sessions
        BY DEF TypeOK, Grace
      <3> QED
        BY <2>1, <2>2, <3>1, CompleteGraceKeepsInv
    <2>3. CASE /\ grace' = grace \ {g}
               /\ UNCHANGED <<claim, bound, proc, detached, children, peers>>
      BY <2>1, <2>3 DEF TableInv, SeatsInv, IdsAreFresh, BindingsOwnAProcess,
         NoGameEscapesTheTable, GraceIsForTheHolder, PendingPeerKeepsSlotEmpty, Running,
         children, peers
    <2> QED
      BY <1>13, <2>2, <2>3 DEF ExpiryEnds
  <1>14. ASSUME PeerCleanup
         PROVE  SeatsInv'
    <2>1. UNCHANGED <<sock, bound, proc, alive, launched, detached, grace>>
      BY <1>14 DEF PeerCleanup, TryBeginPeerCleanup, ConfirmPeerCleanup, PeerCleanupFailed,
                   table, children
    <2>2. \A r \in peer' : \E p \in peer : r.slot = p.slot
      <3>1. ASSUME NEW p \in peer, TryBeginPeerCleanup(p)
            PROVE  \A r \in peer' : \E o \in peer : r.slot = o.slot
        <4>1. [p EXCEPT !.inFlight = TRUE].slot = p.slot
          BY DEF TypeOK, Peer
        <4> QED
          BY <3>1, <4>1 DEF TryBeginPeerCleanup
      <3>2. ASSUME NEW e \in evicting, ConfirmPeerCleanup(e)
            PROVE  \A r \in peer' : \E o \in peer : r.slot = o.slot
        BY <3>2 DEF ConfirmPeerCleanup
      <3>3. ASSUME NEW e \in evicting, PeerCleanupFailed(e)
            PROVE  \A r \in peer' : \E o \in peer : r.slot = o.slot
        <4>1. \A p \in peer : [p EXCEPT !.inFlight = FALSE].slot = p.slot
          BY DEF TypeOK, Peer
        <4>2. Owed(e) \subseteq peer
          BY DEF Owed
        <4> QED
          BY <3>3, <4>1, <4>2 DEF PeerCleanupFailed
      <3> QED
        BY <1>14, <3>1, <3>2, <3>3 DEF PeerCleanup
    <2> QED
      BY <2>1, <2>2 DEF TableInv, SeatsInv, IdsAreFresh, BindingsOwnAProcess,
         NoGameEscapesTheTable, GraceIsForTheHolder, PendingPeerKeepsSlotEmpty, Running
  <1>15. ASSUME NEW q \in Slots, ReapSeat(q)
         PROVE  SeatsInv'
    <2>1. PICK stuck \in SUBSET {q} : ShutdownSlots({q}, stuck)
      BY <1>15 DEF ReapSeat
    <2>2. /\ bound' = WithoutSessions(bound, {q}) /\ grace' = WithoutGrace(grace, {q})
          /\ detached' = detached \ {q} /\ sock' = sock /\ peer' = peer
      BY <1>15 DEF ReapSeat, peers
    <2> QED
      BY <2>1, <2>2, EndingKeepsInv
  <1>16. ASSUME ReapDetachedSlots
         PROVE  SeatsInv'
    <2>1. PICK stuck \in SUBSET detached :
             /\ ShutdownSlots(detached, stuck)
             /\ bound' = WithoutSessions(bound, (detached \cap Running) \ stuck)
      BY <1>16 DEF ReapDetachedSlots
    <2>2. /\ grace' = WithoutGrace(grace, detached) /\ sock' = sock /\ peer' = peer
      BY <1>16 DEF ReapDetachedSlots, peers
    <2>3. detached \in SUBSET Slots
      BY DEF TypeOK
    <2>4. \A s \in Sessions : bound'[s] # NoSlot =>
             bound'[s] = bound[s] /\ bound[s] \notin detached \ stuck
      BY <2>1 DEF WithoutSessions, TableInv, BindingsOwnAProcess
    <2>5. /\ IdsAreFresh' /\ NoGameEscapesTheTable' /\ BindingsOwnAProcess'
          /\ \A r \in Slots : proc'[r] = IF r \in detached \ stuck THEN NoProcess ELSE proc[r]
      BY <2>1, <2>3, <2>4, ShutdownKeepsInv
    <2>6. grace' = {}
      BY <2>2 DEF WithoutGrace, TableInv, GraceIsForTheHolder
    <2>7. GraceIsForTheHolder' /\ PendingPeerKeepsSlotEmpty'
      BY <2>2, <2>5, <2>6 DEF TableInv, GraceIsForTheHolder, PendingPeerKeepsSlotEmpty, Running
    <2> QED
      BY <2>5, <2>7 DEF SeatsInv
  <1>17. ASSUME NEW q \in Slots, CleanupCompletes(q)
         PROVE  SeatsInv'
    <2>1. /\ bound' = WithoutSessions(bound, {q}) /\ grace' = WithoutGrace(grace, {q})
          /\ detached' = detached \ {q} /\ proc' = [proc EXCEPT ![q] = NoProcess]
          /\ UNCHANGED <<sock, alive, launched, peer>> /\ proc[q] \notin alive
      BY <1>17 DEF CleanupCompletes, Exited, peers
    <2>2. IdsAreFresh'
      BY <2>1 DEF TypeOK, TableInv, IdsAreFresh, NoProcess
    <2>3. NoGameEscapesTheTable'
      BY <2>1 DEF TypeOK, TableInv, NoGameEscapesTheTable, Running
    <2>4. BindingsOwnAProcess'
      BY <2>1 DEF TypeOK, TableInv, BindingsOwnAProcess, WithoutSessions, Running
    <2>5. \A g \in grace' : g \in grace /\ g.slot \in Slots \ {q} /\ g.session \in Sessions
      BY <2>1 DEF TypeOK, Grace, WithoutGrace
    <2>6. GraceIsForTheHolder'
      BY <2>1, <2>5 DEF TypeOK, TableInv, GraceIsForTheHolder, WithoutSessions
    <2>7. PendingPeerKeepsSlotEmpty'
      BY <2>1 DEF TypeOK, TableInv, PendingPeerKeepsSlotEmpty, Running
    <2> QED
      BY <2>2, <2>3, <2>4, <2>6, <2>7 DEF SeatsInv
  <1>18. ASSUME NEW q \in Slots, CleanupQuarantines(q)
         PROVE  SeatsInv'
    BY <1>2, <1>18 DEF CleanupQuarantines, table, peers, TableInv, SeatsInv
  <1>19. ASSUME EndHosting \/ Dispose
         PROVE  SeatsInv'
    <2>1. StopEverySeat /\ grace' \subseteq WithoutGrace(grace, Running) /\ sock' = sock
      BY <1>19 DEF EndHosting, Dispose
    <2>2. PICK stuck \in SUBSET Running : ShutdownSlots(Running, stuck)
      BY <2>1 DEF StopEverySeat
    <2>3. Running \in SUBSET Slots
      BY DEF Running
    <2>4. \A s \in Sessions : bound'[s] = NoSlot
      BY <2>1 DEF StopEverySeat
    <2>5. IdsAreFresh' /\ NoGameEscapesTheTable' /\ BindingsOwnAProcess'
      BY <2>2, <2>3, <2>4, ShutdownKeepsInv
    <2>6. \A g \in grace : g.slot \in Running
      BY DEF TypeOK, Grace, TableInv, GraceIsForTheHolder, Running, Processes, NoProcess
    <2>7. GraceIsForTheHolder'
      BY <2>1, <2>6 DEF WithoutGrace, GraceIsForTheHolder
    <2>8. PendingPeerKeepsSlotEmpty'
      BY <2>1 DEF StopEverySeat, PendingPeerKeepsSlotEmpty
    <2> QED
      BY <2>5, <2>7, <2>8 DEF SeatsInv
  <1>20. ASSUME UNCHANGED vars
         PROVE  SeatsInv'
    BY <1>2, <1>20 DEF vars, table, children, peers
  <1>21. ASSUME NEW s \in Sessions, Browser(s)
         PROVE  SeatsInv'
    BY <1>21, <1>5, <1>6, <1>7, <1>8, <1>9, <1>10, <1>11 DEF Browser
  <1>22. ASSUME Timers
         PROVE  SeatsInv'
    BY <1>22, <1>12, <1>13 DEF Timers
  <1>23. ASSUME Host
         PROVE  SeatsInv'
    BY <1>23, <1>15, <1>16, <1>17, <1>18, <1>19 DEF Host
  <1>24. SeatsInv'
    BY <1>3, <1>4, <1>14, <1>20, <1>21, <1>22, <1>23 DEF Next
  <1> QED
    BY <1>1, <1>24 DEF SeatsInv, TableInv

\* The seat table is consistent for every number of names, sessions, slots and launches.
THEOREM TableStaysConsistent == Spec => []TableInv
  <1>1. Init => TableInv
    BY BoundsAssumption
    DEF Init, TableInv, JoinsAreOpen, IdsAreFresh, BindingsOwnAProcess, NoGameEscapesTheTable,
        GraceIsForTheHolder, PendingPeerKeepsSlotEmpty, Running, NoProcess, NoSlot
  <1> QED
    BY <1>1, TypeCorrect, TableStep, PTL DEF Spec

\* A session in the table owns, alone, a slot that has a process.
THEOREM BindingsAlwaysOwnAProcess == Spec => []BindingsOwnAProcess
  BY TableStaysConsistent, PTL DEF TableInv

\* Every live game is in the table, under one slot, whatever kills failed before.
THEOREM GamesStayInTheTable == Spec => []NoGameEscapesTheTable
  BY TableStaysConsistent, PTL DEF TableInv

\* A reservation is always for the closed session that still holds its slot.
THEOREM GraceStaysWithItsHolder == Spec => []GraceIsForTheHolder
  BY TableStaysConsistent, PTL DEF TableInv

\* No game runs on a netId while the eviction of its previous peer is owed.
THEOREM PendingPeersHaveNoGame == Spec => []PendingPeerKeepsSlotEmpty
  BY TableStaysConsistent, PTL DEF TableInv

----------------------------------------------------------------------------
(* What a disconnect may never do                                          *)

\* A detach leaves the process of every slot, and every other session.
LEMMA DetachSparesOthers ==
    ASSUME TypeOK, NEW s \in Sessions, Detach(s)
    PROVE  proc' = proc /\ alive' = alive /\ \A x \in Sessions \ {s} : bound'[x] = bound[x]
  BY DEF TypeOK, Detach, children

\* A release stops its own slot's process, and only when no other session holds it.
LEMMA ReleaseSparesOthers ==
    ASSUME TypeOK, NEW s \in Sessions, bound[s] # NoSlot, Release(s)
    PROVE  \A x \in Sessions \ {s} : bound[x] # NoSlot =>
              bound'[x] = bound[x] /\ proc'[bound[x]] = proc[bound[x]]
  <1> SUFFICES ASSUME NEW x \in Sessions \ {s}, bound[x] # NoSlot
               PROVE  bound'[x] = bound[x] /\ proc'[bound[x]] = proc[bound[x]]
    OBVIOUS
  <1> DEFINE q == bound[s]
             last == \A y \in Sessions \ {s} : bound[y] # q
  <1>1. bound'[x] = bound[x] /\ bound[x] \in Slots
    BY DEF TypeOK, Release
  <1>2. CASE last /\ q \in Running
    <2>1. PICK stuck \in SUBSET {q} : ShutdownSlots({q}, stuck)
      BY <1>2 DEF Release
    <2>2. bound[x] # q
      BY <1>2
    <2> HIDE DEF q
    <2> QED
      BY <1>1, <2>1, <2>2 DEF ShutdownSlots
  <1>3. CASE ~(last /\ q \in Running)
    BY <1>1, <1>3 DEF Release
  <1> QED
    BY <1>2, <1>3

LEMMA CompleteGraceSparesOthers ==
    ASSUME TypeOK, NEW s \in Sessions, CompleteGrace(s)
    PROVE  \A x \in Sessions \ {s} : bound[x] # NoSlot =>
              bound'[x] = bound[x] /\ proc'[bound[x]] = proc[bound[x]]
  <1>1. CASE bound[s] = NoSlot
    BY <1>1 DEF CompleteGrace, table
  <1>2. CASE bound[s] # NoSlot
    BY <1>2, DetachSparesOthers, ReleaseSparesOthers DEF CompleteGrace
  <1> QED
    BY <1>1, <1>2

\* A close, or the end of a grace, never stops the game of a browser still connected:
\* the reservation it acts on is for a session whose socket is closed.
THEOREM DisconnectSparesTheConnected == Spec => ConnectedBrowserKeepsItsGame
  <1>1. ASSUME TypeOK, TableInv, DisconnectStep
        PROVE  \A s \in Sessions : sock[s] = "open" /\ bound[s] # NoSlot =>
                  proc'[bound[s]] = proc[bound[s]] /\ bound'[s] = bound[s]
    <2> SUFFICES ASSUME NEW s \in Sessions, sock[s] = "open", bound[s] # NoSlot
                 PROVE  proc'[bound[s]] = proc[bound[s]] /\ bound'[s] = bound[s]
      OBVIOUS
    <2>1. ASSUME NEW x \in Sessions, DetachOnClose(x)
          PROVE  proc'[bound[s]] = proc[bound[s]] /\ bound'[s] = bound[s]
      <3>1. x # s
        BY <2>1 DEF DetachOnClose
      <3> QED
        BY <1>1, <2>1, <3>1, DetachSparesOthers DEF DetachOnClose, table
    <2>2. ASSUME NEW x \in Sessions, ReleaseOnClose(x)
          PROVE  proc'[bound[s]] = proc[bound[s]] /\ bound'[s] = bound[s]
      <3>1. x # s
        BY <2>2 DEF ReleaseOnClose
      <3> QED
        BY <1>1, <2>2, <3>1, CompleteGraceSparesOthers DEF ReleaseOnClose
    <2>3. ASSUME NEW g \in expiring, ExpiryEnds(g)
          PROVE  proc'[bound[s]] = proc[bound[s]] /\ bound'[s] = bound[s]
      <3>1. CASE IsCurrentTicket(g) /\ CompleteGrace(g.session)
        <4>1. g.session \in Sessions
          BY <1>1 DEF TypeOK, Grace
        <4>2. g.session # s
          BY <1>1, <3>1 DEF IsCurrentTicket, TableInv, GraceIsForTheHolder
        <4> QED
          BY <1>1, <3>1, <4>1, <4>2, CompleteGraceSparesOthers
      <3>2. CASE UNCHANGED <<claim, bound, proc, detached, children, peers>>
        BY <3>2
      <3> QED
        BY <2>3, <3>1, <3>2 DEF ExpiryEnds
    <2> QED
      BY <1>1, <2>1, <2>2, <2>3 DEF DisconnectStep
  <1> QED
    BY <1>1, TypeCorrect, TableStaysConsistent, PTL DEF ConnectedBrowserKeepsItsGame

\* While a run lasts, no disconnect stops a game.
THEOREM RunGamesOutliveTheirBrowsers == Spec => RunGameOutlivesItsBrowser
  <1>1. ASSUME TypeOK, game = "run", NEW s \in Sessions, CompleteGrace(s)
        PROVE  proc' = proc /\ alive' = alive
    BY <1>1, DetachSparesOthers DEF CompleteGrace, table, children
  <1>2. ASSUME TypeOK, game = "run", DisconnectStep
        PROVE  proc' = proc /\ alive' = alive
    <2>1. ASSUME NEW s \in Sessions, DetachOnClose(s)
          PROVE  proc' = proc /\ alive' = alive
      BY <1>2, <2>1, DetachSparesOthers DEF DetachOnClose, table, children
    <2>2. ASSUME NEW s \in Sessions, ReleaseOnClose(s)
          PROVE  proc' = proc /\ alive' = alive
      BY <1>1, <1>2, <2>2 DEF ReleaseOnClose
    <2>3. ASSUME NEW g \in expiring, ExpiryEnds(g)
          PROVE  proc' = proc /\ alive' = alive
      <3>1. g.session \in Sessions
        BY <1>2 DEF TypeOK, Grace
      <3> QED
        BY <1>1, <1>2, <2>3, <3>1 DEF ExpiryEnds, children
    <2> QED
      BY <1>2, <2>1, <2>2, <2>3 DEF DisconnectStep
  <1> QED
    BY <1>2, TypeCorrect, PTL DEF RunGameOutlivesItsBrowser

----------------------------------------------------------------------------
(* The reservation of a netId whose peer is still to be evicted            *)

\* p is still reserved after the step, in flight or not.
StillReserved(p) == \E r \in peer' : r.slot = p.slot /\ r.id = p.id

\* A release reserves an empty slot, so it replaces no reservation.
LEMMA CompleteGraceKeepsReservations ==
    ASSUME TypeOK, TableInv, NEW s \in Sessions, CompleteGrace(s)
    PROVE  \A p \in peer : p \in peer'
  <1>1. CASE bound[s] = NoSlot \/ Detach(s)
    BY <1>1 DEF CompleteGrace, Detach, Release, peers
  <1>2. CASE bound[s] # NoSlot /\ Release(s)
    <2> DEFINE q == bound[s]
               last == \A y \in Sessions \ {s} : bound[y] # q
    <2>1. CASE last /\ q \in Running
      <3>1. \A p \in peer : p.slot # q
        BY <2>1 DEF TableInv, PendingPeerKeepsSlotEmpty
      <3>2. \E owed : peer' = peer \/ peer' = {p \in peer : p.slot # q} \cup owed
        BY <1>2, <2>1 DEF Release
      <3> HIDE DEF q
      <3> QED
        BY <3>1, <3>2
    <2>2. CASE ~(last /\ q \in Running)
      BY <1>2, <2>2 DEF Release
    <2> QED
      BY <2>1, <2>2
  <1> QED
    BY <1>1, <1>2 DEF CompleteGrace

LEMMA ReservationStep ==
    ASSUME TypeOK, TableInv, Next, NEW p \in peer
    PROVE  \/ StillReserved(p)
           \/ [slot |-> p.slot, id |-> p.id] \in evicting \ evicting'
           \/ peer' = {} /\ evicting' = evicting
  <1>1. CASE p \in peer'
    BY <1>1 DEF StillReserved
  <1>2. ASSUME NEW s \in Sessions, Browser(s)
        PROVE  p \in peer'
    <2>1. CASE ReleaseOnClose(s)
      BY <2>1, CompleteGraceKeepsReservations DEF ReleaseOnClose
    <2>2. CASE Join(s)
      BY <2>2 DEF Join, Reenter, JoinSeat, JoinByName, JoinAsNew, JoinTurnedAway,
                  JoinAfterDispose, Allocating, peers
    <2>3. CASE ~ReleaseOnClose(s) /\ ~Join(s)
      BY <1>2, <2>3 DEF Browser, SocketOpens, ReadJoinFacts, SocketCloses, ReadRunPresence,
                        DetachOnClose, Detach, RetainOnClose, peers
    <2> QED
      BY <2>1, <2>2, <2>3
  <1>3. CASE Timers
    <2>1. ASSUME NEW g \in grace \cup expiring, ExpiryEnds(g)
          PROVE  p \in peer'
      <3>1. g.session \in Sessions
        BY DEF TypeOK, Grace
      <3> QED
        BY <2>1, <3>1, CompleteGraceKeepsReservations DEF ExpiryEnds, peers
    <2> QED
      BY <1>1, <1>3, <2>1 DEF Timers, ExpiryStarts, ExpiryThrows, peers
  <1>4. ASSUME NEW o \in peer, TryBeginPeerCleanup(o)
        PROVE  StillReserved(p)
    <2>1. [o EXCEPT !.inFlight = TRUE].slot = o.slot /\ [o EXCEPT !.inFlight = TRUE].id = o.id
      BY DEF TypeOK, Peer
    <2> QED
      BY <1>4, <2>1 DEF TryBeginPeerCleanup, StillReserved
  <1>5. ASSUME NEW e \in evicting, ConfirmPeerCleanup(e)
        PROVE  p \in peer' \/ [slot |-> p.slot, id |-> p.id] \in evicting \ evicting'
    <2>1. e = [slot |-> e.slot, id |-> e.id]
      BY DEF TypeOK, Eviction
    <2> QED
      BY <1>5, <2>1 DEF ConfirmPeerCleanup, Owed
  <1>6. ASSUME NEW e \in evicting, PeerCleanupFailed(e)
        PROVE  StillReserved(p)
    <2>1. [p EXCEPT !.inFlight = FALSE].slot = p.slot /\ [p EXCEPT !.inFlight = FALSE].id = p.id
      BY DEF TypeOK, Peer
    <2>2. p \in peer' \/ [p EXCEPT !.inFlight = FALSE] \in peer'
      BY <1>6 DEF PeerCleanupFailed
    <2> QED
      BY <2>1, <2>2 DEF StillReserved
  <1>7. CASE Host
    BY <1>1, <1>7 DEF Host, ReapSeat, CleanupCompletes, CleanupQuarantines, ReapDetachedSlots,
       EndHosting, Dispose, StopEverySeat, peers
  <1>8. CASE GameMoves \/ ProcessExits
    BY <1>1, <1>8 DEF GameMoves, ProcessExits, peers
  <1> QED
    BY <1>1, <1>2, <1>3, <1>4, <1>5, <1>6, <1>7, <1>8 DEF Next, PeerCleanup

\* A netId becomes free again only by its own eviction or with the whole table: a late
\* or failed eviction never frees the reservation that a later release made.
THEOREM ReservationsEndWithTheirEviction == Spec => ReservationEndsWithItsEviction
  <1>1. ASSUME TypeOK, TableInv, [Next]_vars
        PROVE  \A p \in peer :
                  (\A r \in peer' : r.slot # p.slot \/ r.id # p.id) =>
                     \/ [slot |-> p.slot, id |-> p.id] \in evicting \ evicting'
                     \/ peer' = {} /\ evicting' = evicting
    <2>1. CASE Next
      BY <1>1, <2>1, ReservationStep DEF StillReserved
    <2>2. CASE UNCHANGED vars
      BY <2>2 DEF vars, peers
    <2> QED
      BY <1>1, <2>1, <2>2
  <1> QED
    BY <1>1, TypeCorrect, TableStaysConsistent, PTL DEF Spec, ReservationEndsWithItsEviction

=============================================================================
