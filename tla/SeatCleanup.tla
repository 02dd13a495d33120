---------------------------- MODULE SeatCleanup ----------------------------
(***************************************************************************)
(* The life of a seat's owned connection (HeadlessClientManager.           *)
(* Connections.cs and SharedRelay.cs): a join launches a game or shares    *)
(* one and waits for it, a monitor watches it once joined, and a failure   *)
(* ends in the slot's one cleanup task, which waits, kills, reads the      *)
(* logs, evicts the peer and frees the slot, or quarantines it.            *)
(*                                                                         *)
(* These tasks interleave with the host's own teardown, ShutdownSlotLocked *)
(* in SeatManager.  A game is named by its process generation.             *)
(***************************************************************************)
EXTENDS Naturals, FiniteSets

CONSTANTS
    Slots,          \* the seats
    Sessions,       \* browser sockets
    MaxGenerations  \* bound: games ever started

NoSlot == 0
NoGen == 0
Gens == 1..MaxGenerations

ASSUME SlotsAssumption == Slots \subseteq Nat \ {NoSlot}
ASSUME GenerationsAssumption == MaxGenerations \in Nat

VARIABLES
    gen,       \* _ownedConnections and _processBySlot: each slot's generation
    home,      \* OwnedConnection.Slot, by generation
    launched,  \* _processGeneration
    alive,     \* generations whose process has not exited
    peer,      \* the generation behind the network peer with each slot's netId
    failed,    \* generations whose Failure is set
    quar,      \* generations that are Quarantined
    joined,    \* generations with HasJoined and MonitorStarted
    mon,       \* generations whose monitor task runs
    task,      \* _connectionCleanup: each slot's cleanup task
    attempt,   \* _browserAttempts: the generation each session was given
    pc,        \* where each session's join or close stands
    at,        \* the slot its allocation chose
    on,        \* the connection its readiness wait holds
    waits,     \* the slots whose cleanup tasks it awaits
    todo       \* exited connections its join has still to stop

seats == <<gen, home, launched, alive, quar>>
watch == <<failed, joined, mon>>
browser == <<attempt, pc, at, on, waits, todo>>
vars == <<gen, home, launched, alive, peer, failed, quar, joined, mon, task,
          attempt, pc, at, on, waits, todo>>

Phases == {"none", "begin", "grace", "logs", "logsAfterFailedKill", "evict", "final", "faulted"}
NoTask == [gen |-> NoGen, phase |-> "none"]
JoinStates == {"idle", "gate", "exited", "bind", "waiting", "stopping", "leaving", "lost"}

TypeOK ==
    /\ gen \in [Slots -> Gens \cup {NoGen}]
    /\ home \in [Gens -> Slots \cup {NoSlot}]
    /\ launched \in 0..MaxGenerations
    /\ alive \subseteq Gens
    /\ peer \in [Slots -> Gens \cup {NoGen}]
    /\ failed \subseteq Gens /\ quar \subseteq Gens
    /\ joined \subseteq Gens /\ mon \subseteq Gens
    /\ task \in [Slots -> [gen : Gens \cup {NoGen}, phase : Phases]]
    /\ attempt \in [Sessions -> Gens \cup {NoGen}]
    /\ pc \in [Sessions -> JoinStates]
    /\ at \in [Sessions -> Slots \cup {NoSlot}]
    /\ on \in [Sessions -> Gens \cup {NoGen}]
    /\ waits \in [Sessions -> SUBSET Slots]
    /\ todo \in [Sessions -> SUBSET Gens]

Init ==
    /\ gen = [q \in Slots |-> NoGen] /\ peer = [q \in Slots |-> NoGen]
    /\ home = [g \in Gens |-> NoSlot] /\ launched = 0
    /\ alive = {} /\ failed = {} /\ quar = {} /\ joined = {} /\ mon = {}
    /\ task = [q \in Slots |-> NoTask]
    /\ attempt = [s \in Sessions |-> NoGen] /\ on = [s \in Sessions |-> NoGen]
    /\ pc = [s \in Sessions |-> "idle"] /\ at = [s \in Sessions |-> NoSlot]
    /\ waits = [s \in Sessions |-> {}] /\ todo = [s \in Sessions |-> {}]

----------------------------------------------------------------------------
(* Helpers                                                                 *)

\* Mutant: an empty slot counts as a connection.
OwnedOrEmpty == {gen[q] : q \in Slots}
Owned == {gen[q] : q \in Slots} \ {NoGen}
\* IsCurrent: the slot still has this very connection and process
Current(g) == g \in Owned
Exited(g) == g \notin alive
Busy == {q \in Slots : task[q].phase # "none"}
Faulted == {q \in Slots : task[q].phase = "faulted"}

\* Mutant: the attempts outlive their connection.
AttemptsKept(a, G) == a
\* ForgetConnectionLocked drops the attempts of the forgotten generations.
WithoutAttempts(a, G) == [s \in Sessions |-> IF a[s] \in G THEN NoGen ELSE a[s]]
WithoutGens(G) == [q \in Slots |-> IF gen[q] \in G THEN NoGen ELSE gen[q]]

\* StopFailedConnectionAsync: the slot's task if there is one, else a new one for
\* a connection that is still current.
Registered(g) ==
    IF home[g] \in Busy \/ ~Current(g) THEN task
    ELSE [task EXCEPT ![home[g]] = [gen |-> g, phase |-> "begin"]]
StopFailed(g) == task' = Registered(g)
Awaited(g) == {home[g]} \cap {q \in Slots : task'[q].phase # "none"}

\* Mutant: the quarantine is not recorded.
QuarantineForgotten(g) == quar' = quar
\* QuarantineLocked
Quarantine(g) == quar' = IF Current(g) THEN quar \cup {g} ELSE quar

Goes(s, state) == pc' = [pc EXCEPT ![s] = state]
\* The join is over: its locals go.
Answered(s) ==
    /\ Goes(s, "idle")
    /\ at' = [at EXCEPT ![s] = NoSlot] /\ on' = [on EXCEPT ![s] = NoGen]
    /\ waits' = [waits EXCEPT ![s] = {}] /\ todo' = [todo EXCEPT ![s] = {}]

\* The session stops connection g and waits for the slot's cleanup.
StopsAndAwaits(s, g) ==
    /\ StopFailed(g)
    /\ waits' = [waits EXCEPT ![s] = Awaited(g)]

----------------------------------------------------------------------------
(* The child game and its network peer                                     *)

ProcessExits ==
    /\ \E g \in alive : alive' = alive \ {g}
    /\ UNCHANGED <<gen, home, launched, quar, peer, watch, task, browser>>

ChildConnects(q) ==
    /\ gen[q] \in alive /\ peer[q] = NoGen
    /\ peer' = [peer EXCEPT ![q] = gen[q]]
    /\ UNCHANGED <<seats, watch, task, browser>>

\* OnChildStatus: an authenticated report of the current generation names a failure.
ChildReportsFailure(g) ==
    /\ Current(g) /\ g \in alive
    /\ failed' = failed \cup {g}
    /\ UNCHANGED <<seats, peer, joined, mon, task, browser>>

\* A peer without a process times out, or its seat's release or reap evicts it.
PeerLeaves(q) ==
    /\ peer[q] # NoGen /\ peer[q] \notin alive
    /\ peer' = [peer EXCEPT ![q] = NoGen]
    /\ UNCHANGED <<seats, watch, task, browser>>

\* ReportSeatRelayFailureAsync, terminal: only a joined game's route is known.
RelayFails(g) ==
    /\ Current(g) /\ g \in joined
    /\ failed' = failed \cup {g}
    /\ StopFailed(g)
    /\ UNCHANGED <<seats, peer, joined, mon, browser>>

----------------------------------------------------------------------------
(* EnsureHeadlessAsync                                                     *)

\* The join first waits for every cleanup under way, on any seat.
JoinStarts(s) ==
    /\ pc[s] = "idle"
    /\ Goes(s, "gate")
    /\ waits' = [waits EXCEPT ![s] = Busy]
    /\ UNCHANGED <<seats, peer, watch, task, attempt, at, on, todo>>

\* CleanupExitedConnectionsAsync: the connections whose process has exited ...
GatePasses(s) ==
    LET exited == {g \in Owned : Exited(g)}
    IN  /\ pc[s] = "gate" /\ waits[s] = {}
        /\ Goes(s, "exited")
        /\ failed' = failed \cup exited
        /\ todo' = [todo EXCEPT ![s] = exited]
        /\ UNCHANGED <<seats, peer, joined, mon, task, attempt, at, on, waits>>

\* ... are stopped one after the other.
StopExited(s) ==
    /\ pc[s] = "exited" /\ waits[s] = {}
    /\ \E g \in todo[s] :
          /\ StopsAndAwaits(s, g)
          /\ todo' = [todo EXCEPT ![s] = @ \ {g}]
    /\ UNCHANGED <<seats, peer, watch, attempt, pc, at, on>>

\* AllocateHeadless: dead slots are reaped, then the chosen slot's game is
\* shared, or one is launched, or the join is refused (see SeatManager).
Reaped == {g \in Owned : Exited(g) /\ g \notin quar}

ShareGame(s, q) ==
    /\ WithoutGens(Reaped)[q] # NoGen
    /\ gen' = WithoutGens(Reaped)
    /\ attempt' = WithoutAttempts(attempt, Reaped)
    /\ Goes(s, "bind") /\ at' = [at EXCEPT ![s] = q]
    /\ UNCHANGED <<home, launched, alive, quar, peer, watch, task, on, waits, todo>>

\* The peer an earlier game left on the netId may be evicted, or may fail to be.
LaunchGame(s, q) ==
    LET g == launched + 1
    IN  /\ WithoutGens(Reaped)[q] = NoGen
        /\ g \in Gens
        /\ launched' = g
        /\ gen' = [WithoutGens(Reaped) EXCEPT ![q] = g]
        /\ home' = [home EXCEPT ![g] = q]
        /\ alive' = alive \cup {g}
        /\ peer' \in {peer, [peer EXCEPT ![q] = NoGen]}
        /\ attempt' = [WithoutAttempts(attempt, Reaped) EXCEPT ![s] = g]
        /\ Goes(s, "bind") /\ at' = [at EXCEPT ![s] = q]
        /\ UNCHANGED <<quar, watch, task, on, waits, todo>>

\* A refusal after the connection was prepared also forgets the session's attempt.
JoinRefused(s) ==
    /\ gen' = WithoutGens(Reaped)
    /\ LET kept == WithoutAttempts(attempt, Reaped)
       IN  attempt' \in {kept, [kept EXCEPT ![s] = NoGen]}
    /\ Answered(s)
    /\ UNCHANGED <<home, launched, alive, quar, peer, watch, task>>

Allocate(s) ==
    /\ pc[s] = "exited" /\ waits[s] = {} /\ todo[s] = {}
    /\ JoinRefused(s) \/ \E q \in Slots : ShareGame(s, q) \/ LaunchGame(s, q)

\* The next locked section binds the session to whatever owns the slot by then.
Bind(s) ==
    /\ pc[s] = "bind"
    /\ LET g == gen[at[s]]
       IN  \/ /\ g = NoGen \/ g \in quar
              /\ Answered(s)
              /\ UNCHANGED <<failed, task, attempt>>
           \/ /\ g # NoGen /\ g \notin quar /\ Exited(g)
              /\ failed' = failed \cup {g}
              /\ StopsAndAwaits(s, g) /\ Goes(s, "stopping")
              /\ UNCHANGED <<attempt, at, on, todo>>
           \/ /\ g # NoGen /\ g \notin quar /\ ~Exited(g)
              /\ attempt' = [attempt EXCEPT ![s] = g]
              /\ on' = [on EXCEPT ![s] = g]
              /\ Goes(s, "waiting")
              /\ UNCHANGED <<failed, task, at, waits, todo>>
    /\ UNCHANGED <<seats, peer, joined, mon>>

----------------------------------------------------------------------------
(* WaitForSharedReadyAsync                                                 *)

WaitRetired(s) ==
    /\ pc[s] = "waiting" /\ ~Current(on[s])
    /\ Answered(s)
    /\ UNCHANGED <<seats, peer, watch, task, attempt>>

\* A failure, an exit or a quarantine ends the wait with a cleanup.  A quarantine
\* alone sets no Failure.
WaitFails(s) ==
    LET g == on[s]
    IN  /\ pc[s] = "waiting" /\ Current(g)
        /\ g \in failed \cup quar \/ Exited(g)
        /\ failed' = IF Exited(g) THEN failed \cup {g} ELSE failed
        /\ StopsAndAwaits(s, g) /\ Goes(s, "stopping")
        /\ UNCHANGED <<seats, peer, joined, mon, attempt, at, on, todo>>

\* The deadline, or a silent game: its classification is awaited, so it may have
\* been quarantined since the wait looked.  (One retired meanwhile is WaitRetired:
\* its failure has no reader.)
WaitExpires(s) ==
    /\ pc[s] = "waiting" /\ Current(on[s])
    /\ failed' = failed \cup {on[s]}
    /\ StopsAndAwaits(s, on[s]) /\ Goes(s, "stopping")
    /\ UNCHANGED <<seats, peer, joined, mon, attempt, at, on, todo>>

\* Membership, a live process and a ready relay; the first join starts the monitor.
\* Membership is of the netId: the peer there may still be an earlier game's.
WaitSucceeds(s) ==
    LET g == on[s]
    IN  /\ pc[s] = "waiting" /\ Current(g) /\ g \in alive /\ g \notin failed \cup quar
        /\ peer[home[g]] # NoGen
        /\ joined' = joined \cup {g}
        /\ mon' = IF g \in joined THEN mon ELSE mon \cup {g}
        /\ Answered(s)
        /\ UNCHANGED <<seats, peer, failed, task, attempt>>

StopAwaited(s) ==
    /\ pc[s] = "stopping" /\ waits[s] = {}
    /\ Answered(s)
    /\ UNCHANGED <<seats, peer, watch, task, attempt>>

\* Awaiting a cleanup that threw rethrows; the socket's close has nothing to catch it.
AwaitThrows(s) ==
    /\ waits[s] # {} /\ waits[s] \subseteq Faulted
    /\ IF pc[s] = "leaving"
       THEN Goes(s, "lost") /\ UNCHANGED <<at, on, waits, todo>>
       ELSE Answered(s)
    /\ UNCHANGED <<seats, peer, watch, task, attempt>>

\* The socket closes during a join: the token is seen at the cancellable waits.
JoinCancelled(s) ==
    /\ pc[s] = "waiting" \/ (pc[s] \in {"gate", "exited"} /\ waits[s] # {})
    /\ Answered(s)
    /\ UNCHANGED <<seats, peer, watch, task, attempt>>

----------------------------------------------------------------------------
(* The socket's close: FinishReportedFailureAsync, then BrowserDisconnect- *)
(* Seat                                                                    *)

\* Mutant: a healthy game is stopped with its browser.
BrowserClosesStoppingHealthy(s) ==
    /\ pc[s] = "idle" /\ attempt[s] # NoGen
    /\ failed' = IF Exited(attempt[s]) THEN failed \cup {attempt[s]} ELSE failed
    /\ StopsAndAwaits(s, attempt[s])
    /\ Goes(s, "leaving")
    /\ UNCHANGED <<seats, peer, joined, mon, attempt, at, on, todo>>

BrowserCloses(s) ==
    LET g == attempt[s]
    IN  /\ pc[s] = "idle" /\ g # NoGen
        /\ failed' = IF Exited(g) THEN failed \cup {g} ELSE failed
        /\ IF g \in failed' THEN StopsAndAwaits(s, g) ELSE UNCHANGED <<task, waits>>
        /\ Goes(s, "leaving")
        /\ UNCHANGED <<seats, peer, joined, mon, attempt, at, on, todo>>

----------------------------------------------------------------------------
(* ShutdownSlotLocked, for the host's and the browser's teardown           *)

\* Mutant: a quarantined slot is shut down like any other.
ShutDownQuarantined(S, stuck, kept) ==
    LET G == {gen[q] : q \in S \ stuck} \ {NoGen}
    IN  /\ \A q \in stuck : gen[q] \in alive
        /\ gen' = WithoutGens(G)
        /\ alive' = alive \ G
        /\ quar' = quar \cup {gen[q] : q \in stuck}
        /\ attempt' = WithoutAttempts(kept, G)
        /\ UNCHANGED <<home, launched>>

\* A quarantined slot is left alone; a live game that survives the kill is
\* quarantined.  kept is _browserAttempts as the caller leaves it.
ShutDown(S, stuck, kept) ==
    LET G == {gen[q] : q \in S \ stuck} \ {NoGen}
    IN  /\ G \cap quar = {}
        /\ \A q \in stuck : gen[q] \in alive \cup quar
        /\ gen' = WithoutGens(G)
        /\ alive' = alive \ G
        /\ quar' = quar \cup {gen[q] : q \in stuck}
        /\ attempt' = WithoutAttempts(kept, G)
        /\ UNCHANGED <<home, launched>>

\* The session's attempt goes; in the lobby its seat may be released with it.
BrowserGone(s) ==
    LET kept == [attempt EXCEPT ![s] = NoGen]
    IN  /\ pc[s] = "leaving" /\ waits[s] = {}
        /\ Answered(s)
        /\ \/ attempt' = kept /\ UNCHANGED seats
           \/ /\ attempt[s] # NoGen
              /\ \E stuck \in SUBSET {home[attempt[s]]} :
                    ShutDown({home[attempt[s]]}, stuck, kept)
        /\ UNCHANGED <<peer, watch, task>>

\* ReapSeat, and the menu's reap of a detached seat: attempts stay.
ReapSeat(q) ==
    /\ gen[q] # NoGen
    /\ \E stuck \in SUBSET {q} : ShutDown({q}, stuck, attempt)
    /\ UNCHANGED <<peer, watch, task, pc, at, on, waits, todo>>

EndHosting ==
    /\ \E stuck \in SUBSET {q \in Slots : gen[q] # NoGen} :
          ShutDown(Slots, stuck, [s \in Sessions |-> NoGen])
    /\ UNCHANGED <<peer, watch, task, pc, at, on, waits, todo>>

----------------------------------------------------------------------------
(* MonitorSharedConnectionAsync                                            *)

MonitorEnds(g) ==
    /\ g \in mon /\ ~Current(g)
    /\ mon' = mon \ {g}
    /\ UNCHANGED <<seats, peer, failed, joined, task, browser>>

\* Mutant: a lost heartbeat ends the monitor without naming a failure.
MonitorLosesStatusQuietly(g) ==
    /\ g \in mon /\ Current(g)
    /\ mon' = mon \ {g}
    /\ UNCHANGED <<seats, peer, failed, joined, task, browser>>

\* A report, an exit, or ten seconds without a heartbeat.
MonitorStops(g) ==
    /\ g \in mon /\ Current(g)
    /\ failed' = failed \cup {g}
    /\ StopFailed(g)
    /\ mon' = mon \ {g}
    /\ UNCHANGED <<seats, peer, joined, browser>>

----------------------------------------------------------------------------
(* CleanupFailedConnectionAsync                                            *)

Phase(q, phase) == task[q].phase = phase
Moves(q, phase) == task' = [task EXCEPT ![q].phase = phase]
\* The finally clause: the task leaves the table and its waiters go on.
Finishes(q) ==
    /\ task' = [task EXCEPT ![q] = NoTask]
    /\ waits' = [s \in Sessions |-> waits[s] \ {q}]

\* Reporting the failure to the attempts reads owned.Failure, before the try.
CleanupBegins(q) ==
    LET g == task[q].gen
        reports == Current(g) /\ \E s \in Sessions : attempt[s] = g
    IN  /\ Phase(q, "begin")
        /\ Moves(q, IF reports /\ g \notin failed THEN "faulted" ELSE "grace")
        /\ UNCHANGED <<seats, peer, watch, browser>>

\* The game exits by itself within five seconds, or another path retires it.
GraceEnds(q) ==
    /\ Phase(q, "grace")
    /\ ~Current(task[q].gen) \/ Exited(task[q].gen)
    /\ Moves(q, "logs")
    /\ UNCHANGED <<seats, peer, watch, browser>>

\* Mutant: nothing ends the wait for a game that hangs.
KillWaits(q) ==
    /\ Phase(q, "grace") /\ Exited(task[q].gen)
    /\ Moves(q, "logs")
    /\ UNCHANGED <<seats, peer, watch, browser>>

\* Five seconds pass: the game is killed, or outlives the kill by a second.
Kill(q) ==
    LET g == task[q].gen
    IN  /\ Phase(q, "grace") /\ Current(g) /\ ~Exited(g)
        /\ \/ alive' = alive \ {g} /\ Moves(q, "logs")
           \/ UNCHANGED alive /\ Moves(q, "logsAfterFailedKill")
        /\ UNCHANGED <<gen, home, launched, quar, peer, watch, browser>>

ReadLogs(q) ==
    /\ Phase(q, "logs") /\ Current(task[q].gen)
    /\ Moves(q, "evict")
    /\ UNCHANGED <<seats, peer, watch, browser>>

ReadLogsOfRetired(q) ==
    /\ Phase(q, "logs") /\ ~Current(task[q].gen)
    /\ Finishes(q)
    /\ UNCHANGED <<seats, peer, watch, attempt, pc, at, on, todo>>

QuarantineAfterKill(q) ==
    /\ Phase(q, "logsAfterFailedKill")
    /\ Quarantine(task[q].gen)
    /\ Finishes(q)
    /\ UNCHANGED <<gen, home, launched, alive, peer, watch, attempt, pc, at, on, todo>>

\* The eviction names the slot's netId, not the generation.
EvictStalePeer(q) ==
    /\ Phase(q, "evict")
    /\ peer' = [peer EXCEPT ![q] = NoGen]
    /\ Moves(q, "final")
    /\ UNCHANGED <<seats, watch, browser>>

EvictionFails(q) ==
    /\ Phase(q, "evict")
    /\ Quarantine(task[q].gen)
    /\ Finishes(q)
    /\ UNCHANGED <<gen, home, launched, alive, peer, watch, attempt, pc, at, on, todo>>

FreeSlot(q) ==
    LET G == {task[q].gen} \cap Owned
    IN  /\ Phase(q, "final")
        /\ quar' = quar \ G
        /\ gen' = WithoutGens(G)
        /\ attempt' = WithoutAttempts(attempt, G)
        /\ Finishes(q)
        /\ UNCHANGED <<home, launched, alive, peer, watch, pc, at, on, todo>>

----------------------------------------------------------------------------
Child ==
    \/ ProcessExits
    \/ \E q \in Slots : ChildConnects(q) \/ PeerLeaves(q)
    \/ \E g \in Gens : ChildReportsFailure(g) \/ RelayFails(g)

JoinStep(s) ==
    \/ GatePasses(s) \/ StopExited(s) \/ Allocate(s) \/ Bind(s)
    \/ WaitRetired(s) \/ WaitFails(s) \/ WaitExpires(s) \/ WaitSucceeds(s)
    \/ StopAwaited(s) \/ AwaitThrows(s) \/ BrowserGone(s)

Browser(s) == JoinStarts(s) \/ JoinStep(s) \/ JoinCancelled(s) \/ BrowserCloses(s)

Monitor(g) == MonitorEnds(g) \/ MonitorStops(g)

Cleanup(q) ==
    \/ CleanupBegins(q) \/ GraceEnds(q) \/ Kill(q)
    \/ ReadLogs(q) \/ ReadLogsOfRetired(q) \/ QuarantineAfterKill(q)
    \/ EvictStalePeer(q) \/ EvictionFails(q) \/ FreeSlot(q)

Host == EndHosting \/ \E q \in Slots : ReapSeat(q)

Next ==
    \/ Child \/ Host
    \/ \E s \in Sessions : Browser(s)
    \/ \E g \in Gens : Monitor(g)
    \/ \E q \in Slots : Cleanup(q)

Spec == Init /\ [][Next]_vars

\* Tasks on the thread pool go on, and timers fire: the join's 75 seconds, the
\* cleanup's five.
Fairness ==
    /\ \A s \in Sessions : WF_vars(JoinStep(s))
    /\ \A q \in Slots : WF_vars(Cleanup(q))

FairSpec == Spec /\ Fairness

----------------------------------------------------------------------------
(* Properties                                                              *)

\* A seat is given up only once its game has exited, and a quarantined seat only
\* once its peer is gone too, however joins, monitors, cleanups and teardown
\* interleave.
Ownership == INSTANCE SeatOwnership WITH owner <- gen, held <- quar, used <- launched
OwnershipIsKept == Ownership!Spec

\* No attempt outlives its connection: a failure report, a diagnostic or a close
\* never reaches the viewer of an earlier game on the slot.
AttemptsAreCurrent == \A s \in Sessions : attempt[s] # NoGen => Current(attempt[s])

\* A cleanup runs only for a game that failed or is quarantined; "a browser
\* failure must not stop a healthy process that still serves another browser".
CleanupHasACause == \A q \in Busy : task[q].gen \in failed \cup quar

\* A game some viewer was sent to is watched for as long as it owns its seat, or
\* its failure is on record for whoever comes next.
JoinedGameIsWatched == joined \cap Owned \subseteq mon \cup failed

\* A cleanup that ends leaves its game dead or quarantined, never running and
\* reusable.
CleanupEndsSafely ==
    [][\A q \in Slots : task[q].gen # NoGen /\ task'[q].gen = NoGen =>
          task[q].gen \notin alive' \/ task[q].gen \in quar']_vars

\* Every join and every close of a browser is answered: no wait for a cleanup, a
\* launch or readiness lasts for ever, whether the game exits, hangs or survives
\* the kill.
JoinIsAnswered(s) == pc[s] # "idle" ~> pc[s] \in {"idle", "lost"}

\* HeadlessClientManager.Connections.cs, to the player whose seat is quarantined:
\* "Wait for that process to exit, or restart the host before retrying."  A join
\* fails on an earlier cleanup only while a quarantined game still runs.
RetryAfterExitProceeds ==
    [][\A s \in Sessions : pc[s] = "gate" /\ AwaitThrows(s) =>
          \E g \in Owned \cap quar : ~Exited(g)]_vars

=============================================================================
