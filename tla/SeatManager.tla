---------------------------- MODULE SeatManager ----------------------------
(***************************************************************************)
(* The host's seat table: HeadlessClientManager, whose methods run one at  *)
(* a time under _lock.  A seat is a slot (and the netId derived from it)   *)
(* with at most one headless game process.  A browser socket (a session)   *)
(* joins by display name or by seat, leaves, and may find its game again   *)
(* for two minutes in the lobby, or for as long as the run lasts.          *)
(*                                                                         *)
(* Each action below is one locked section, or one step that the code      *)
(* takes outside the lock between two of them.                             *)
(***************************************************************************)
EXTENDS Naturals, FiniteSets

CONSTANTS
    Names,        \* display names, as NormalizeName compares them
    Sessions,     \* identities for browser sockets, reused once forgotten
    MaxSlot,      \* the lobby's highest seat (MinSlot..MaxSlot)
    MaxLaunches,  \* bound: game processes ever started
    MaxSockets    \* bound: sockets ever accepted

MinSlot == 2
Slots == MinSlot..MaxSlot
NoSlot == 0
NoProcess == 0
Processes == 1..MaxLaunches

ASSUME SlotsAssumption == MaxSlot \in Nat /\ MaxSlot >= MinSlot
ASSUME BoundsAssumption == MaxLaunches \in Nat /\ MaxSockets \in Nat

VARIABLES
    game,       \* what the host's game shows: "menu", "lobby" or "run"
    sock,       \* each socket: "closed", "open", or a step of its close
    facts,      \* the game state a socket's join has read, "none" between joins
    claim,      \* _nameToSlot
    bound,      \* _sessionToSlot
    proc,       \* _processBySlot: the process of each slot
    alive,      \* the processes that have not exited
    quar,       \* slots whose owned connection is Quarantined
    detached,   \* _detachedSlots
    grace,      \* _browserReconnectPending
    expiring,   \* grace reservations whose timer callback is past its first check
    peer,       \* _pendingPeerCleanup
    evicting,   \* peer evictions running outside the lock
    launched,   \* processes started so far (the next one's identity)
    sockets,    \* sockets accepted so far
    ticket,     \* _nextBrowserReconnectTicket
    peerTicket, \* _nextPeerCleanupTicket
    disposed    \* _disposed

table == <<claim, bound, proc, detached, grace>>
children == <<alive, quar, launched>>
peers == <<peer, evicting, peerTicket>>
vars == <<game, sock, facts, table, children, expiring, peers, sockets, ticket, disposed>>

Games == {"menu", "lobby", "run"}
SocketStates == {"closed", "open", "leaving", "midrun", "lobby", "afterGrace"}
Grace == [slot : Slots, ticket : Nat, session : Sessions, process : Processes]
Peer == [slot : Slots, id : Nat, inFlight : BOOLEAN]
Eviction == [slot : Slots, id : Nat]

TypeOK ==
    /\ game \in Games
    /\ sock \in [Sessions -> SocketStates]
    /\ facts \in [Sessions -> Games \cup {"none"}]
    /\ claim \in [Names -> Slots \cup {NoSlot}]
    /\ bound \in [Sessions -> Slots \cup {NoSlot}]
    /\ proc \in [Slots -> Processes \cup {NoProcess}]
    /\ alive \subseteq Processes
    /\ quar \subseteq Slots
    /\ detached \subseteq Slots
    /\ grace \subseteq Grace
    /\ expiring \subseteq Grace
    /\ peer \subseteq Peer
    /\ evicting \subseteq Eviction
    /\ launched \in 0..MaxLaunches
    /\ sockets \in 0..MaxSockets
    /\ ticket \in Nat
    /\ peerTicket \in Nat
    /\ disposed \in BOOLEAN

Init ==
    /\ game = "menu"
    /\ sock = [s \in Sessions |-> "closed"]
    /\ facts = [s \in Sessions |-> "none"]
    /\ claim = [n \in Names |-> NoSlot]
    /\ bound = [s \in Sessions |-> NoSlot]
    /\ proc = [q \in Slots |-> NoProcess]
    /\ alive = {} /\ quar = {} /\ detached = {}
    /\ grace = {} /\ expiring = {}
    /\ peer = {} /\ evicting = {}
    /\ launched = 0 /\ sockets = 0 /\ ticket = 0 /\ peerTicket = 0
    /\ disposed = FALSE

----------------------------------------------------------------------------
(* Helpers on the table                                                    *)

Running == {q \in Slots : proc[q] # NoProcess}
Exited(q) == proc[q] \notin alive
Claimed(q) == \E n \in Names : claim[n] = q
\* Mutant: only an eviction under way keeps the slot.
PeerInFlight(q) == \E p \in peer : p.slot = q /\ p.inFlight
PeerPending(q) == \E p \in peer : p.slot = q

\* CancelBrowserReconnectGraceLocked over a set of slots
WithoutGrace(g, S) == {r \in g : r.slot \notin S}
\* Mutant: the previous holder's claim is forgotten, not removed.
ClaimsKept(c, S) == c
\* _nameToSlot after RemoveNameForSlotLocked on each slot of S
WithoutClaims(c, S) == [n \in Names |-> IF c[n] \in S THEN NoSlot ELSE c[n]]
\* _sessionToSlot after every session of the slots of S is removed
WithoutSessions(b, S) == [s \in Sessions |-> IF b[s] \in S THEN NoSlot ELSE b[s]]

\* ShutdownSlotLocked leaves a slot of S in the table when it is quarantined
\* already, or when its live process survives the kill (or cannot be inspected).
MayStick(S, stuck) ==
    /\ stuck \subseteq S \cap Running
    /\ quar \cap S \subseteq stuck
    /\ \A q \in stuck : q \in quar \/ ~Exited(q)

\* Mutant: a game whose kill failed is dropped from the table all the same.
ShutdownSlotsDroppingStuck(S, stuck) ==
    /\ proc' = [q \in Slots |-> IF q \in S THEN NoProcess ELSE proc[q]]
    /\ alive' = alive \ {proc[q] : q \in S \ stuck}
    /\ quar' = quar \cup stuck
    /\ UNCHANGED launched

\* ShutdownSlotLocked on every slot of S; those of stuck are quarantined and kept.
ShutdownSlots(S, stuck) ==
    /\ proc' = [q \in Slots |-> IF q \in S \ stuck THEN NoProcess ELSE proc[q]]
    /\ alive' = alive \ {proc[q] : q \in S \ stuck}
    /\ quar' = quar \cup stuck
    /\ UNCHANGED launched

----------------------------------------------------------------------------
(* The game and the child processes                                        *)

GameMoves ==
    /\ \/ game = "menu" /\ game' = "lobby"
       \/ game = "lobby" /\ game' \in {"run", "menu"}
       \/ game = "run" /\ game' = "menu"
    /\ UNCHANGED <<sock, facts, table, children, expiring, peers, sockets, ticket, disposed>>

ProcessExits ==
    /\ \E p \in alive : alive' = alive \ {p}
    /\ UNCHANGED <<game, sock, facts, table, quar, launched, expiring, peers, sockets,
                   ticket, disposed>>

----------------------------------------------------------------------------
(* A socket opens; its join reads the game before the lock is taken        *)

\* An identity stands for a fresh Guid, so it is reused only once nothing names it.
Forgotten(s) ==
    /\ bound[s] = NoSlot
    /\ \A g \in grace \cup expiring : g.session # s

SocketOpens(s) ==
    /\ sock[s] = "closed" /\ Forgotten(s)
    /\ sockets < MaxSockets
    /\ sock' = [sock EXCEPT ![s] = "open"]
    /\ sockets' = sockets + 1
    /\ UNCHANGED <<game, facts, table, children, expiring, peers, ticket, disposed>>

ReadJoinFacts(s) ==
    /\ sock[s] = "open" /\ facts[s] = "none"
    /\ facts' = [facts EXCEPT ![s] = game]
    /\ UNCHANGED <<game, sock, table, children, expiring, peers, sockets, ticket, disposed>>

----------------------------------------------------------------------------
(* AllocateHeadless.  It starts by reaping the slots whose process exited: *)
(* their sessions go, their claims stay.  ...R is the table after that.    *)

Dead == {q \in Running : Exited(q)}
ProcR == [q \in Slots |-> IF q \in Dead \ quar THEN NoProcess ELSE proc[q]]
\* Mutant: the sessions of a dead game stay bound.
BoundKept == bound
BoundR == WithoutSessions(bound, Dead)
GraceR == WithoutGrace(grace, Dead)
DetachedR == detached \ (Dead \ quar)

Allocating(s) ==
    /\ facts[s] # "none"
    /\ facts' = [facts EXCEPT ![s] = "none"]
    /\ UNCHANGED <<game, sock, expiring, peers, sockets, ticket, disposed>>

\* The session is bound to slot q. A seat that was asked for, or that the name
\* claims, is taken over (over = {q}): its other sessions are dropped, and it is
\* neither detached nor waiting for its browser any more. A new name's slot has
\* no process and nothing to take over (over = {}).
TakenBy(s, q, over) == [WithoutSessions(BoundR, over) EXCEPT ![s] = q]
\* Mutant: a takeover leaves the reservation of the previous browser.
TakeSlotKeepingGrace(over) == grace' = GraceR /\ detached' = DetachedR \ over
TakeSlot(over) ==
    /\ grace' = WithoutGrace(GraceR, over)
    /\ detached' = DetachedR \ over

\* A live process on the slot is shared.
Share(s, q, claims) ==
    /\ ProcR[q] # NoProcess
    /\ TakeSlot({q})
    /\ bound' = TakenBy(s, q, {q}) /\ claim' = claims /\ proc' = ProcR
    /\ UNCHANGED children

\* No run, no peer waiting for its eviction: a new process is started.
Launch(s, q, claims, over) ==
    /\ ProcR[q] = NoProcess
    /\ facts[s] # "run"
    /\ ~PeerPending(q)
    /\ launched < MaxLaunches
    /\ TakeSlot(over)
    /\ bound' = TakenBy(s, q, over) /\ claim' = claims
    /\ launched' = launched + 1
    /\ proc' = [ProcR EXCEPT ![q] = launched']
    /\ alive' = alive \cup {launched'}
    /\ UNCHANGED quar

\* A run, a pending eviction, or a launcher that returned null or threw: the
\* session is dropped, and the claim too when this join had created it.
Refuse(s, q, claims, over, reusingClaim) ==
    /\ ProcR[q] = NoProcess
    /\ TakeSlot(over)
    /\ bound' = [TakenBy(s, q, over) EXCEPT ![s] = NoSlot]
    /\ claim' = IF reusingClaim THEN claims ELSE WithoutClaims(claims, {q})
    /\ proc' = ProcR
    /\ UNCHANGED children

\* The session already holds a slot, and asked for it or for no seat in particular.
Reenter(s) ==
    /\ ~disposed /\ Allocating(s)
    /\ BoundR[s] # NoSlot
    /\ TakeSlot({BoundR[s]})
    /\ bound' = BoundR /\ proc' = ProcR
    /\ UNCHANGED <<claim, children>>

\* A seat was picked: the netId-bound path.  allowNewSlot is the lobby, or a
\* seat that the game's run or save knows (MayRejoinNetId).
JoinSeat(s, n, q, mayRejoin) ==
    LET reusingClaim == Claimed(q)
        repointed == [WithoutClaims(claim, {q}) EXCEPT ![n] = q]
        allowNewSlot == facts[s] = "lobby" \/ (mayRejoin /\ facts[s] = "run")
    IN  /\ ~disposed /\ Allocating(s)
        /\ BoundR[s] # q
        /\ IF reusingClaim \/ allowNewSlot
           THEN \/ Share(s, q, repointed)
                \/ Launch(s, q, repointed, {q})
                \/ Refuse(s, q, repointed, {q}, reusingClaim)
           ELSE /\ TakeSlot({q})
                /\ bound' = [TakenBy(s, q, {q}) EXCEPT ![s] = NoSlot]
                /\ proc' = ProcR
                /\ UNCHANGED <<claim, children>>

\* A name that claims a slot comes back to it.
JoinByName(s, n) ==
    /\ ~disposed /\ Allocating(s)
    /\ BoundR[s] = NoSlot
    /\ claim[n] # NoSlot
    /\ \/ Share(s, claim[n], claim)
       \/ Launch(s, claim[n], claim, {claim[n]})
       \/ Refuse(s, claim[n], claim, {claim[n]}, TRUE)

\* PickSlotForNewNameLocked: the lowest slot with no process, no pending
\* eviction and, when there is one, no claim.
Free == {q \in Slots : ProcR[q] = NoProcess /\ ~PeerPending(q)}
Candidates == LET unclaimed == {q \in Free : ~Claimed(q)}
              IN  IF unclaimed # {} THEN unclaimed ELSE Free
IsLowest(q, S) == q \in S /\ \A r \in S : q <= r

\* A new name, with the lobby open, takes a slot; a dead player's claim on it is lost.
JoinAsNew(s, n) ==
    /\ ~disposed /\ Allocating(s)
    /\ BoundR[s] = NoSlot
    /\ claim[n] = NoSlot
    /\ facts[s] = "lobby"
    /\ \E q \in Slots :
          /\ IsLowest(q, Candidates)
          /\ LET claims == [WithoutClaims(claim, {q}) EXCEPT ![n] = q]
             IN  Launch(s, q, claims, {}) \/ Refuse(s, q, claims, {}, FALSE)

\* A name with no claim finds no slot, or no lobby: only the reaping happened.
JoinTurnedAway(s, n) ==
    /\ ~disposed /\ Allocating(s)
    /\ BoundR[s] = NoSlot
    /\ claim[n] = NoSlot
    /\ facts[s] # "lobby" \/ Candidates = {}
    /\ bound' = BoundR /\ proc' = ProcR /\ grace' = GraceR /\ detached' = DetachedR
    /\ UNCHANGED <<claim, children>>

\* After Dispose nothing is allocated.
JoinAfterDispose(s) ==
    /\ disposed /\ Allocating(s)
    /\ UNCHANGED <<table, children>>

Join(s) ==
    \/ Reenter(s)
    \/ \E n \in Names :
          \/ \E q \in Slots, mayRejoin \in BOOLEAN : JoinSeat(s, n, q, mayRejoin)
          \/ JoinByName(s, n)
          \/ JoinAsNew(s, n)
          \/ JoinTurnedAway(s, n)
    \/ JoinAfterDispose(s)

----------------------------------------------------------------------------
(* A socket closes: BrowserDisconnectSeat.Apply                            *)

\* The close first cancels and drains the join.
SocketCloses(s) ==
    /\ sock[s] = "open"
    /\ sock' = [sock EXCEPT ![s] = "leaving"]
    /\ facts' = [facts EXCEPT ![s] = "none"]
    /\ UNCHANGED <<game, table, children, expiring, peers, sockets, ticket, disposed>>

\* Run presence is read on the socket's own thread, before any lock.
ReadRunPresence(s) ==
    /\ sock[s] = "leaving"
    /\ sock' = [sock EXCEPT ![s] = IF game = "run" THEN "midrun" ELSE "lobby"]
    /\ UNCHANGED <<game, facts, table, children, expiring, peers, sockets, ticket, disposed>>

\* MarkDetached: drop the session, keep the process and the claim.
Detach(s) ==
    /\ bound' = [bound EXCEPT ![s] = NoSlot]
    /\ grace' = WithoutGrace(grace, {bound[s]})
    /\ detached' = IF bound[s] \in Running /\ \A x \in Sessions \ {s} : bound[x] # bound[s]
                   THEN detached \cup {bound[s]} ELSE detached
    /\ UNCHANGED <<claim, proc, children, peers>>

\* ReleaseForBrowser: drop the session, kill the game unless another session
\* holds it, and reserve the netId until its peer is evicted.
Release(s) ==
    LET q == bound[s]
        last == \A x \in Sessions \ {s} : bound[x] # q
    IN  /\ bound' = [bound EXCEPT ![s] = NoSlot]
        /\ grace' = WithoutGrace(grace, {q})
        /\ UNCHANGED <<claim, evicting>>
        /\ IF last /\ q \in Running
           THEN \E stuck \in SUBSET {q} :
                   /\ MayStick({q}, stuck)
                   /\ ShutdownSlots({q}, stuck)
                   /\ detached' = detached \ ({q} \ stuck)
                   /\ IF stuck = {}
                      THEN /\ peerTicket' = peerTicket + 1
                           /\ peer' = {p \in peer : p.slot # q} \cup
                                      {[slot |-> q, id |-> peerTicket', inFlight |-> FALSE]}
                      ELSE UNCHANGED <<peer, peerTicket>>
           ELSE UNCHANGED <<proc, children, detached, peer, peerTicket>>

\* Mutant: the run is not read again when the grace ends.
CompleteGraceUnread(s) ==
    IF bound[s] = NoSlot THEN UNCHANGED <<table, children, peers>> ELSE Release(s)

\* CompleteGrace runs on the game's main thread, so the run cannot start or
\* end between its read and the locked section.
CompleteGrace(s) ==
    IF bound[s] = NoSlot THEN UNCHANGED <<table, children, peers>>
    ELSE IF game = "run" THEN Detach(s) ELSE Release(s)

\* Mutant: a session without a seat is detached too.
DetachAnySession(s) ==
    /\ sock[s] = "midrun"
    /\ bound' = [bound EXCEPT ![s] = NoSlot]
    /\ grace' = WithoutGrace(grace, {bound[s]})
    /\ detached' = detached \cup {bound[s]}
    /\ sock' = [sock EXCEPT ![s] = "closed"]
    /\ UNCHANGED <<game, facts, claim, proc, children, peers, expiring, sockets, ticket, disposed>>

DetachOnClose(s) ==
    /\ sock[s] = "midrun"
    /\ IF bound[s] = NoSlot THEN UNCHANGED <<table, children, peers>> ELSE Detach(s)
    /\ sock' = [sock EXCEPT ![s] = "closed"]
    /\ UNCHANGED <<game, facts, expiring, sockets, ticket, disposed>>

\* RetainForBrowserReconnect: the last browser of a live game keeps its binding
\* behind a fresh ticket and a timer.
Retainable(s) ==
    /\ ~disposed
    /\ bound[s] \in Running /\ ~Exited(bound[s])
    /\ \A x \in Sessions \ {s} : bound[x] # bound[s]

RetainOnClose(s) ==
    /\ sock[s] = "lobby"
    /\ IF Retainable(s)
       THEN /\ ticket' = ticket + 1
            /\ grace' = WithoutGrace(grace, {bound[s]}) \cup
                        {[slot |-> bound[s], ticket |-> ticket', session |-> s,
                          process |-> proc[bound[s]]]}
            /\ detached' = detached \cup {bound[s]}
            /\ sock' = [sock EXCEPT ![s] = "closed"]
       ELSE /\ sock' = [sock EXCEPT ![s] = "afterGrace"]
            /\ UNCHANGED <<grace, detached, ticket>>
    /\ UNCHANGED <<game, facts, claim, bound, proc, children, expiring, peers, sockets, disposed>>

ReleaseOnClose(s) ==
    /\ sock[s] = "afterGrace"
    /\ CompleteGrace(s)
    /\ sock' = [sock EXCEPT ![s] = "closed"]
    /\ UNCHANGED <<game, facts, expiring, sockets, ticket, disposed>>

----------------------------------------------------------------------------
(* The two minutes pass: ExpireBrowserReconnectGrace                       *)

\* First locked section: the reservation must still be the current one.
StillHeld(g) == ~disposed /\ bound[g.session] = g.slot /\ proc[g.slot] = g.process

ExpiryStarts(g) ==
    /\ g \in grace \ expiring
    /\ IF StillHeld(g)
       THEN expiring' = expiring \cup {g} /\ UNCHANGED grace
       ELSE grace' = grace \ {g} /\ UNCHANGED expiring
    /\ UNCHANGED <<game, sock, facts, claim, bound, proc, detached, children, peers, sockets,
                   ticket, disposed>>

\* IsBrowserReconnectCurrentLocked
IsCurrentTicket(g) ==
    /\ bound[g.session] # NoSlot
    /\ \E r \in grace :
          /\ r.slot = bound[g.session]
          /\ r.session = g.session
          /\ r.ticket = g.ticket
          /\ r.process = proc[r.slot]

\* Mutant: the expiry compares the slot only, not the reservation.
ExpiryEndsBySlot(g) ==
    /\ g \in expiring
    /\ IF \E s \in Sessions : bound[s] = g.slot
       THEN \E s \in Sessions : bound[s] = g.slot /\ CompleteGrace(s)
       ELSE UNCHANGED <<table, children, peers>>
    /\ expiring' = expiring \ {g}
    /\ UNCHANGED <<game, sock, facts, sockets, ticket, disposed>>

\* CompleteGrace with the ticket; the finally clause then drops the reservation
\* if it is still there.
ExpiryEnds(g) ==
    /\ g \in expiring
    /\ IF IsCurrentTicket(g)
       THEN CompleteGrace(g.session)
       ELSE /\ grace' = grace \ {g}
            /\ UNCHANGED <<claim, bound, proc, detached, children, peers>>
    /\ expiring' = expiring \ {g}
    /\ UNCHANGED <<game, sock, facts, sockets, ticket, disposed>>

\* The main thread was unavailable: only the finally clause runs.
ExpiryThrows(g) ==
    /\ g \in expiring
    /\ grace' = grace \ {g}
    /\ expiring' = expiring \ {g}
    /\ UNCHANGED <<game, sock, facts, claim, bound, proc, detached, children, peers, sockets,
                   ticket, disposed>>

----------------------------------------------------------------------------
(* The eviction of a killed game's peer, by the release that owes it or by *)
(* the next join                                                           *)

TryBeginPeerCleanup(p) ==
    /\ p \in peer /\ ~p.inFlight
    /\ peer' = (peer \ {p}) \cup {[p EXCEPT !.inFlight = TRUE]}
    /\ evicting' = evicting \cup {[slot |-> p.slot, id |-> p.id]}
    /\ UNCHANGED <<game, sock, facts, table, children, expiring, peerTicket, sockets, ticket,
                   disposed>>

\* Mutant: an eviction settles whatever reservation its slot has.
OwedBySlot(e) == {p \in peer : p.slot = e.slot}
\* Only the reservation with the eviction's own ticket is touched.
Owed(e) == {p \in peer : p.slot = e.slot /\ p.id = e.id}

ConfirmPeerCleanup(e) ==
    /\ e \in evicting
    /\ evicting' = evicting \ {e}
    /\ peer' = peer \ Owed(e)
    /\ UNCHANGED <<game, sock, facts, table, children, expiring, peerTicket, sockets, ticket,
                   disposed>>

PeerCleanupFailed(e) ==
    /\ e \in evicting
    /\ evicting' = evicting \ {e}
    /\ peer' = (peer \ Owed(e)) \cup {[p EXCEPT !.inFlight = FALSE] : p \in Owed(e)}
    /\ UNCHANGED <<game, sock, facts, table, children, expiring, peerTicket, sockets, ticket,
                   disposed>>

----------------------------------------------------------------------------
(* Seats ended by the host                                                 *)

\* ReapSeat: the seat directory judged the slot up but not connected.
ReapSeat(q) ==
    /\ ~disposed /\ q \in Running
    /\ bound' = WithoutSessions(bound, {q})
    /\ claim' = WithoutClaims(claim, {q})
    /\ grace' = WithoutGrace(grace, {q})
    /\ detached' = detached \ {q}
    /\ \E stuck \in SUBSET {q} : MayStick({q}, stuck) /\ ShutdownSlots({q}, stuck)
    /\ UNCHANGED <<game, sock, facts, expiring, peers, sockets, ticket, disposed>>

\* ReapDetachedSlots: the game left both the run and the lobby.
ReapDetachedSlots ==
    /\ game = "menu" /\ detached # {}
    /\ \E stuck \in SUBSET detached :
          /\ MayStick(detached, stuck)
          /\ ShutdownSlots(detached, stuck)
          /\ bound' = WithoutSessions(bound, (detached \cap Running) \ stuck)
    /\ claim' = WithoutClaims(claim, detached)
    /\ grace' = WithoutGrace(grace, detached)
    /\ detached' = {}
    /\ UNCHANGED <<game, sock, facts, expiring, peers, sockets, ticket, disposed>>

\* CleanupFailedConnectionAsync's last locked section: the game has exited and
\* its peer was evicted.
CleanupCompletes(q) ==
    /\ ~disposed /\ q \in Running /\ Exited(q)
    /\ bound' = WithoutSessions(bound, {q})
    /\ claim' = WithoutClaims(claim, {q})
    /\ grace' = WithoutGrace(grace, {q})
    /\ detached' = detached \ {q}
    /\ proc' = [proc EXCEPT ![q] = NoProcess]
    /\ quar' = quar \ {q}
    /\ UNCHANGED <<game, sock, facts, alive, launched, expiring, peers, sockets, ticket, disposed>>

\* ... or it gives up: the kill failed, or the exited game's peer could not be evicted.
CleanupQuarantines(q) ==
    /\ ~disposed /\ q \in Running
    /\ quar' = quar \cup {q}
    /\ UNCHANGED <<game, sock, facts, table, alive, launched, expiring, peers, sockets, ticket,
                   disposed>>

\* EndHosting and Dispose stop every seat and clear the table.
StopEverySeat ==
    /\ \E stuck \in SUBSET Running : MayStick(Running, stuck) /\ ShutdownSlots(Running, stuck)
    /\ bound' = [s \in Sessions |-> NoSlot]
    /\ claim' = [n \in Names |-> NoSlot]
    /\ detached' = {}
    /\ peer' = {}
    /\ UNCHANGED <<evicting, peerTicket>>

EndHosting ==
    /\ game = "menu"
    /\ StopEverySeat
    /\ grace' = WithoutGrace(grace, Running)
    /\ UNCHANGED <<game, sock, facts, expiring, sockets, ticket, disposed>>

Dispose ==
    /\ ~disposed /\ disposed' = TRUE
    /\ StopEverySeat
    /\ grace' = {}
    /\ UNCHANGED <<game, sock, facts, expiring, sockets, ticket>>

----------------------------------------------------------------------------
Browser(s) ==
    \/ SocketOpens(s) \/ ReadJoinFacts(s) \/ Join(s)
    \/ SocketCloses(s) \/ ReadRunPresence(s)
    \/ DetachOnClose(s) \/ RetainOnClose(s) \/ ReleaseOnClose(s)

Timers == \E g \in grace \cup expiring : ExpiryStarts(g) \/ ExpiryEnds(g) \/ ExpiryThrows(g)

PeerCleanup ==
    \/ \E p \in peer : TryBeginPeerCleanup(p)
    \/ \E e \in evicting : ConfirmPeerCleanup(e) \/ PeerCleanupFailed(e)

Host ==
    \/ \E q \in Slots : ReapSeat(q) \/ CleanupCompletes(q) \/ CleanupQuarantines(q)
    \/ ReapDetachedSlots \/ EndHosting \/ Dispose

Next ==
    \/ GameMoves \/ ProcessExits
    \/ \E s \in Sessions : Browser(s)
    \/ Timers \/ PeerCleanup \/ Host

Spec == Init /\ [][Next]_vars

----------------------------------------------------------------------------
(* Properties                                                              *)

\* No two names hold the same slot: a returning player finds their own netId,
\* whichever of the three join paths re-pointed or stole a claim before.
ClaimsAreABijection ==
    \A m, n \in Names : m # n /\ claim[m] # NoSlot => claim[m] # claim[n]

\* A session in the table owns a slot that has a process, alone.  A binding left
\* on an empty slot would short-circuit the viewer's next join to a dead port.
BindingsOwnAProcess ==
    \A s \in Sessions : bound[s] # NoSlot =>
        /\ bound[s] \in Running
        /\ \A x \in Sessions \ {s} : bound[x] # bound[s]

\* A reservation is for the session that still holds the slot, whose socket has
\* closed, and for the very process the slot runs; the run-end reap can see it.
GraceIsForTheHolder ==
    \A g \in grace :
        /\ bound[g.session] = g.slot /\ proc[g.slot] = g.process
        /\ sock[g.session] = "closed"
        /\ g.slot \in detached

\* While a killed game's peer has not been evicted, no game runs on its netId:
\* neither a rejoin nor a newcomer can be kicked by that eviction.
PendingPeerKeepsSlotEmpty == \A p \in peer : p.slot \notin Running

\* Every game still running is in the table, one per slot: a kill that failed
\* never frees its slot for a second game with the same netId.
NoGameEscapesTheTable ==
    /\ alive \subseteq {proc[q] : q \in Slots}
    /\ \A q, r \in Running : q # r => proc[q] # proc[r]

\* What makes the properties above inductive: only an open socket joins, and a
\* process identity is used once.
JoinsAreOpen == \A s \in Sessions : facts[s] # "none" => sock[s] = "open"
IdsAreFresh ==
    /\ alive \subseteq 1..launched
    /\ \A q \in Slots : proc[q] <= launched

TableInv ==
    /\ JoinsAreOpen
    /\ IdsAreFresh
    /\ BindingsOwnAProcess
    /\ NoGameEscapesTheTable
    /\ GraceIsForTheHolder
    /\ PendingPeerKeepsSlotEmpty

\* The end of a browser's close, or of its grace, never stops the game that
\* another browser, still connected, holds.
DisconnectStep == (\E s \in Sessions : DetachOnClose(s) \/ ReleaseOnClose(s))
                  \/ (\E g \in expiring : ExpiryEnds(g))
ConnectedBrowserKeepsItsGame ==
    [][DisconnectStep => \A s \in Sessions :
          sock[s] = "open" /\ bound[s] # NoSlot =>
              proc'[bound[s]] = proc[bound[s]] /\ bound'[s] = bound[s]]_vars

\* During a run no disconnect, immediate or after its grace, stops a game: the
\* player may come back to the run for as long as it lasts.
RunGameOutlivesItsBrowser ==
    [][game = "run" /\ DisconnectStep => proc' = proc /\ alive' = alive]_vars

\* A netId's reservation ends with its own eviction, or with the whole table while
\* no eviction answers.
ReservationEndsWithItsEviction ==
    [][\A p \in peer :
          (\A r \in peer' : r.slot # p.slot \/ r.id # p.id) =>
              \/ [slot |-> p.slot, id |-> p.id] \in evicting \ evicting'
              \/ peer' = {} /\ evicting' = evicting]_vars

\* HeadlessClientManager.cs, at the mid-run gate: "keep a claim we did not create
\* - the player's seat stays theirs for the rejoin once the host reloads the save".
\* A join that the run refuses leaves every claim where it was.
JoinEnds(s) == facts[s] # "none" /\ facts'[s] = "none" /\ sock' = sock
RunRefusalKeepsClaims ==
    [][\A s \in Sessions : JoinEnds(s) /\ facts[s] = "run" /\ bound'[s] = NoSlot =>
          \A n \in Names : claim[n] # NoSlot => claim'[n] = claim[n]]_vars

\* HeadlessClientManager.cs, on ReapDetachedSlots: "so kept-alive headless from
\* departed browsers don't linger as phantom players into the next lobby".  Once
\* the menu's reap is done, a game that still runs has a session, or cannot be killed.
MenuReapLeavesNoPhantom ==
    [][ReapDetachedSlots => \A q \in Slots : proc'[q] # NoProcess =>
          q \in quar' \/ \E s \in Sessions : bound'[s] = q]_vars

=============================================================================
