-------------------------- MODULE SeatCleanupProofs --------------------------
(***************************************************************************)
(* Theorems about the life of owned connections, for every set of seats    *)
(* and sockets and any number of games.                                    *)
(*                                                                         *)
(* The argument: a game is born on one slot and a task on a slot is about  *)
(* a game of that slot; a live game owns its slot, so whatever a task finds *)
(* retired is dead; and every teardown forgets games and attempts alike.   *)
(***************************************************************************)
EXTENDS SeatCleanup, TLAPS

Started == 1..launched

\* A slot's game was launched on that slot.
Homes == \A q \in Slots : gen[q] # NoGen => gen[q] \in Started /\ home[gen[q]] = q

\* A live game owns its slot.
LiveGamesOwn == alive \subseteq Owned

\* A task is about a failed or quarantined game of its own slot. The game is dead
\* once its logs are read, and its peer is gone at the end.
SoundTask(q) ==
    LET t == task[q]
    IN  \/ t = NoTask
        \/ /\ t.phase # "none" /\ t.gen \in Started /\ home[t.gen] = q
           /\ t.gen \in failed \cup quar
           /\ t.phase \in {"logs", "evict", "final"} => t.gen \notin alive
           /\ t.phase = "final" => peer[q] # t.gen
SoundTasks == \A q \in Slots : SoundTask(q)

\* What a join has chosen or has still to stop.
SoundJoins == \A s \in Sessions : todo[s] \subseteq failed /\ (pc[s] = "bind" => at[s] \in Slots)

IInv ==
    /\ TypeOK /\ Homes /\ LiveGamesOwn /\ SoundTasks /\ SoundJoins
    /\ joined \subseteq Started
    /\ AttemptsAreCurrent /\ JoinedGameIsWatched

\* TypeOK, by who changes what.
SeatTypes ==
    /\ gen \in [Slots -> Gens \cup {NoGen}] /\ home \in [Gens -> Slots \cup {NoSlot}]
    /\ launched \in 0..MaxGenerations /\ alive \subseteq Gens /\ quar \subseteq Gens
WatchTypes == failed \subseteq Gens /\ joined \subseteq Gens /\ mon \subseteq Gens
TaskTypes == task \in [Slots -> [gen : Gens \cup {NoGen}, phase : Phases]]
PeerTypes == peer \in [Slots -> Gens \cup {NoGen}]
AttemptTypes == attempt \in [Sessions -> Gens \cup {NoGen}]
JoinTypes ==
    /\ pc \in [Sessions -> JoinStates] /\ at \in [Sessions -> Slots \cup {NoSlot}]
    /\ on \in [Sessions -> Gens \cup {NoGen}]
    /\ waits \in [Sessions -> SUBSET Slots] /\ todo \in [Sessions -> SUBSET Gens]

LEMMA TypesTogether ==
    TypeOK <=> SeatTypes /\ WatchTypes /\ TaskTypes /\ PeerTypes /\ AttemptTypes /\ JoinTypes
BY DEF TypeOK, SeatTypes, WatchTypes, TaskTypes, PeerTypes, AttemptTypes, JoinTypes

LEMMA TypesTogetherAfter ==
    ASSUME SeatTypes', WatchTypes', TaskTypes', PeerTypes', AttemptTypes', JoinTypes'
    PROVE  TypeOK'
BY DEF TypeOK, SeatTypes, WatchTypes, TaskTypes, PeerTypes, AttemptTypes, JoinTypes

LEMMA InitInv == Init => IInv
<1> SUFFICES ASSUME Init PROVE IInv
  OBVIOUS
<1>1. SeatTypes /\ WatchTypes /\ PeerTypes /\ AttemptTypes
  BY GenerationsAssumption DEF Init, SeatTypes, WatchTypes, PeerTypes, AttemptTypes, Gens
<1>2. NoTask \in [gen : Gens \cup {NoGen}, phase : Phases]
  BY DEF NoTask, Phases
<1>3. TaskTypes /\ JoinTypes
  BY <1>2 DEF Init, TaskTypes, JoinTypes, JoinStates
<1>4. Homes /\ LiveGamesOwn /\ SoundTasks /\ SoundJoins
  BY DEF Init, Homes, LiveGamesOwn, SoundTasks, SoundTask, SoundJoins
<1>5. joined \subseteq Started /\ AttemptsAreCurrent /\ JoinedGameIsWatched
  BY DEF Init, AttemptsAreCurrent, JoinedGameIsWatched
<1> QED BY <1>1, <1>3, <1>4, <1>5, TypesTogether DEF IInv

----------------------------------------------------------------------------
(* What the parts of a step preserve.                                      *)

LEMMA NoGenIsNoGame ==
    /\ \A g \in Gens : g # NoGen
    /\ \A q \in Slots : q # NoSlot
BY SlotsAssumption DEF Gens, NoGen

LEMMA StartedAreGens == ASSUME SeatTypes PROVE Started \subseteq Gens
BY GenerationsAssumption DEF SeatTypes, Started, Gens

\* A game that owns a slot does so on its own slot.
LEMMA OwnedGame ==
    ASSUME SeatTypes, Homes, NEW g \in Owned
    PROVE  g \in Gens /\ g \in Started /\ home[g] \in Slots /\ gen[home[g]] = g
<1>1. PICK q \in Slots : g = gen[q] /\ gen[q] # NoGen
  BY DEF Owned
<1> QED BY <1>1 DEF SeatTypes, Homes

\* The seats are as they were, but for games that exit.
LEMMA SeatsStay ==
    ASSUME SeatTypes, Homes, LiveGamesOwn, UNCHANGED <<gen, home, launched>>, alive' \subseteq alive
    PROVE  Homes' /\ LiveGamesOwn' /\ Owned' = Owned /\ Started' = Started
BY DEF Homes, LiveGamesOwn, Owned, Started

\* A task that does not move stays sound.
LEMMA TaskStays ==
    ASSUME SeatTypes, NEW q \in Slots, SoundTask(q), task'[q] = task[q],
           home' = home, launched' = launched, alive' \subseteq alive,
           failed \subseteq failed', quar \subseteq quar',
           peer'[q] = peer[q] \/ peer'[q] = NoGen \/ peer'[q] \in alive'
    PROVE  SoundTask(q)'
BY NoGenIsNoGame, StartedAreGens DEF SoundTask, Started

LEMMA TasksStay ==
    ASSUME SeatTypes, SoundTasks, UNCHANGED <<task, home, launched, peer>>,
           alive' \subseteq alive, failed \subseteq failed', quar \subseteq quar'
    PROVE  SoundTasks'
BY TaskStays DEF SoundTasks

\* A stop leaves the tasks sound, if its game failed or is quarantined.
LEMMA StopKeeps ==
    ASSUME IInv, NEW g \in Gens, StopFailed(g), UNCHANGED <<gen, home, launched, alive, quar, peer>>,
           failed \subseteq failed', g \in failed' \cup quar
    PROVE  TaskTypes' /\ SoundTasks' /\ Awaited(g) \in SUBSET Slots
<1>1. SeatTypes /\ TaskTypes /\ Homes /\ SoundTasks
  BY TypesTogether DEF IInv
<1>2. Awaited(g) \in SUBSET Slots
  BY DEF Awaited
<1>3. CASE task' = task
  BY <1>1, <1>2, <1>3, TasksStay DEF TaskTypes
<1>4. CASE task' # task
  <2>1. home[g] \notin Busy /\ Current(g) /\ task' = [task EXCEPT ![home[g]] = [gen |-> g, phase |-> "begin"]]
    BY <1>4 DEF StopFailed, Registered
  <2>2. home[g] \in Slots /\ g \in Started
    BY <1>1, <2>1, OwnedGame DEF Current
  <2>3. TaskTypes'
    BY <1>1, <2>1, <2>2 DEF TaskTypes, Phases
  <2>4. ASSUME NEW q \in Slots PROVE SoundTask(q)'
    <3>1. CASE q = home[g]
      <4>1. task'[q] = [gen |-> g, phase |-> "begin"]
        BY <1>1, <2>1, <2>2, <3>1 DEF TaskTypes
      <4> QED BY <2>2, <3>1, <4>1 DEF SoundTask, Started
    <3>2. CASE q # home[g]
      BY <1>1, <2>1, <3>2, TaskStays DEF TaskTypes, SoundTasks
    <3> QED BY <3>1, <3>2
  <2> QED BY <1>2, <2>3, <2>4 DEF SoundTasks
<1> QED BY <1>3, <1>4

\* The task of one slot moves on, or ends.
LEMMA TaskMoves ==
    ASSUME IInv, NEW q \in Slots, NEW t \in [gen : Gens \cup {NoGen}, phase : Phases],
           task' = [task EXCEPT ![q] = t],
           home' = home, launched' = launched, alive' \subseteq alive, failed' = failed,
           \A r \in Slots \ {q} : peer'[r] = peer[r],
           quar \ {task[q].gen} \subseteq quar',
           task[q].phase # "none",
           t = NoTask \/ (quar \subseteq quar' /\ t.gen = task[q].gen /\ t.phase # "none"
                          /\ (t.phase \in {"logs", "evict", "final"} => t.gen \notin alive')
                          /\ (t.phase = "final" => peer'[q] = NoGen))
    PROVE  TaskTypes' /\ SoundTasks'
<1>1. SeatTypes /\ TaskTypes /\ SoundTasks
  BY TypesTogether DEF IInv
<1>2. TaskTypes'
  BY <1>1 DEF TaskTypes
<1>3. /\ task[q].gen \in Started /\ home[task[q].gen] = q /\ task[q].gen \in failed \cup quar
  BY <1>1 DEF SoundTasks, SoundTask, NoTask
<1>4. ASSUME NEW r \in Slots PROVE SoundTask(r)'
  <2>1. CASE r = q
    <3>1. task'[q] = t
      BY <1>1 DEF TaskTypes
    <3>2. CASE t = NoTask
      BY <2>1, <3>1, <3>2 DEF SoundTask
    <3>3. CASE t # NoTask
      BY <1>1, <1>3, <2>1, <3>1, <3>3, NoGenIsNoGame, StartedAreGens DEF SoundTask, Started
    <3> QED BY <3>2, <3>3
  <2>2. CASE r # q
    <3>1. task'[r] = task[r] /\ SoundTask(r) /\ peer'[r] = peer[r]
      BY <1>1, <2>2 DEF TaskTypes, SoundTasks
    <3>2. CASE task[r] = NoTask
      BY <3>1, <3>2 DEF SoundTask
    <3>3. CASE task[r] # NoTask
      <4>1. home[task[r].gen] = r
        BY <3>1, <3>3 DEF SoundTask
      <4>2. task[r].gen # task[q].gen
        BY <1>3, <2>2, <4>1
      <4> QED BY <3>1, <3>3, <4>2 DEF SoundTask, Started
    <3> QED BY <3>2, <3>3
  <2> QED BY <2>1, <2>2
<1> QED BY <1>2, <1>4 DEF SoundTasks

\* Games give up their slots, and the attempts for them go.
LEMMA ForgettingKeeps ==
    ASSUME IInv, NEW G \in SUBSET Gens, gen' = WithoutGens(G),
           UNCHANGED <<home, launched>>, alive' \subseteq alive, G \cap alive' = {},
           NEW kept \in [Sessions -> Gens \cup {NoGen}],
           \A s \in Sessions : kept[s] = attempt[s] \/ kept[s] = NoGen,
           attempt' = WithoutAttempts(kept, G)
    PROVE  /\ gen' \in [Slots -> Gens \cup {NoGen}] /\ AttemptTypes'
           /\ Homes' /\ LiveGamesOwn' /\ Owned' = Owned \ G /\ Started' = Started
           /\ AttemptsAreCurrent'
<1>1. SeatTypes /\ AttemptTypes /\ Homes
  BY TypesTogether DEF IInv
<1>2. gen' \in [Slots -> Gens \cup {NoGen}]
  BY <1>1 DEF WithoutGens, SeatTypes
<1>3. \A q \in Slots : gen'[q] = IF gen[q] \in G THEN NoGen ELSE gen[q]
  BY DEF WithoutGens
<1>4. AttemptTypes'
  BY DEF WithoutAttempts, AttemptTypes
<1>5. Homes' /\ Started' = Started
  BY <1>1, <1>3 DEF Homes, Started
<1>6. Owned' = Owned \ G
  BY <1>3, NoGenIsNoGame DEF Owned
<1>7. LiveGamesOwn'
  BY <1>6 DEF IInv, LiveGamesOwn
<1>8. AttemptsAreCurrent'
  <2> SUFFICES ASSUME NEW s \in Sessions, attempt'[s] # NoGen PROVE attempt'[s] \in Owned'
    BY DEF AttemptsAreCurrent, Current
  <2>1. kept[s] \notin G /\ attempt'[s] = kept[s]
    BY DEF WithoutAttempts
  <2>2. attempt[s] \in Owned /\ kept[s] = attempt[s]
    BY <2>1 DEF IInv, AttemptsAreCurrent, Current
  <2> QED BY <1>6, <2>1, <2>2
<1> QED BY <1>2, <1>4, <1>5, <1>6, <1>7, <1>8

\* A join or a close that is over leaves nothing behind.
LEMMA AnsweringKeeps ==
    ASSUME IInv, NEW s \in Sessions, Answered(s), failed' = failed
    PROVE  JoinTypes' /\ SoundJoins'
<1>1. JoinTypes /\ SoundJoins
  BY TypesTogether DEF IInv
<1>2. JoinTypes'
  BY <1>1 DEF Answered, Goes, JoinTypes, JoinStates
<1>3. SoundJoins'
  BY <1>1 DEF Answered, Goes, JoinTypes, SoundJoins
<1> QED BY <1>2, <1>3

\* The rest of the invariant holds where a step leaves seats and attempts alone.
LEMMA SameSeats ==
    ASSUME IInv, UNCHANGED <<gen, home, launched, attempt>>, alive' \subseteq alive,
           quar' \subseteq Gens, TaskTypes', PeerTypes', WatchTypes', JoinTypes', SoundTasks', SoundJoins',
           joined' \subseteq Started, JoinedGameIsWatched'
    PROVE  IInv'
<1>1. SeatTypes /\ AttemptTypes /\ Homes /\ LiveGamesOwn
  BY TypesTogether DEF IInv
<1>2. SeatTypes' /\ AttemptTypes'
  BY <1>1 DEF SeatTypes, AttemptTypes
<1>3. Homes' /\ LiveGamesOwn' /\ Owned' = Owned /\ Started' = Started
  BY <1>1, SeatsStay
<1>4. AttemptsAreCurrent'
  BY <1>3 DEF IInv, AttemptsAreCurrent, Current
<1>5. joined' \subseteq Started'
  BY <1>3
<1> QED BY <1>2, <1>3, <1>4, <1>5, TypesTogetherAfter DEF IInv

LEMMA JoinOnly ==
    ASSUME IInv, UNCHANGED <<seats, peer, watch, task, attempt>>, JoinTypes', SoundJoins'
    PROVE  IInv'
<1>1. TypeOK /\ SeatTypes /\ TaskTypes /\ PeerTypes /\ WatchTypes /\ SoundTasks
  BY TypesTogether DEF IInv
<1>2. TaskTypes' /\ PeerTypes' /\ WatchTypes' /\ quar' \subseteq Gens
  BY <1>1 DEF TaskTypes, PeerTypes, WatchTypes, SeatTypes, seats, watch
<1>3. SoundTasks'
  BY <1>1, TasksStay DEF seats, watch
<1>4. joined' \subseteq Started /\ JoinedGameIsWatched'
  BY DEF IInv, JoinedGameIsWatched, Owned, seats, watch
<1> QED BY <1>2, <1>3, <1>4, SameSeats DEF seats

\* A step of the child game, of its peer or of the monitor: no join moves.
LEMMA JoinsStay ==
    ASSUME IInv, UNCHANGED browser, failed \subseteq failed'
    PROVE  JoinTypes' /\ SoundJoins'
BY TypesTogether DEF IInv, JoinTypes, SoundJoins, browser

----------------------------------------------------------------------------
(* The steps.                                                              *)

LEMMA ChildKeeps == ASSUME IInv, Child PROVE IInv'
<1>1. /\ SeatTypes /\ TaskTypes /\ PeerTypes /\ WatchTypes /\ SoundTasks /\ Homes
      /\ joined \subseteq Started /\ JoinedGameIsWatched /\ JoinTypes
  BY TypesTogether DEF IInv
<1> USE DEF seats, watch
<1>2. CASE ProcessExits
  <2>1. alive' \subseteq alive /\ UNCHANGED <<gen, home, launched, quar, peer, failed, joined, mon, task, browser>>
    BY <1>2 DEF ProcessExits
  <2>2. TaskTypes' /\ PeerTypes' /\ WatchTypes' /\ quar' \subseteq Gens
    BY <1>1, <2>1 DEF TaskTypes, PeerTypes, WatchTypes, SeatTypes
  <2>3. SoundTasks'
    BY <1>1, <2>1, TasksStay
  <2>4. joined' \subseteq Started /\ JoinedGameIsWatched'
    BY <1>1, <2>1 DEF JoinedGameIsWatched, Owned
  <2>5. JoinTypes' /\ SoundJoins' /\ attempt' = attempt
    BY <2>1, JoinsStay DEF browser
  <2> QED BY <2>1, <2>2, <2>3, <2>4, <2>5, SameSeats
<1>3. ASSUME NEW q \in Slots, ChildConnects(q) \/ PeerLeaves(q) PROVE IInv'
  <2>1. /\ UNCHANGED <<gen, home, launched, alive, quar, failed, joined, mon, task, browser>>
        /\ \A r \in Slots : peer'[r] = peer[r] \/ peer'[r] = NoGen \/ peer'[r] \in alive'
        /\ PeerTypes'
    BY <1>1, <1>3 DEF ChildConnects, PeerLeaves, PeerTypes, SeatTypes
  <2>2. TaskTypes' /\ WatchTypes' /\ quar' \subseteq Gens /\ alive' \subseteq alive
    BY <1>1, <2>1 DEF TaskTypes, WatchTypes, SeatTypes
  <2>3. SoundTasks'
    BY <1>1, <2>1, TaskStays DEF SoundTasks
  <2>4. joined' \subseteq Started /\ JoinedGameIsWatched'
    BY <1>1, <2>1 DEF JoinedGameIsWatched, Owned
  <2>5. JoinTypes' /\ SoundJoins' /\ attempt' = attempt
    BY <2>1, JoinsStay DEF browser
  <2> QED BY <2>1, <2>2, <2>3, <2>4, <2>5, SameSeats
<1>4. ASSUME NEW g \in Gens, ChildReportsFailure(g) \/ RelayFails(g) PROVE IInv'
  <2>1. /\ failed' = failed \cup {g} /\ UNCHANGED <<gen, home, launched, alive, quar, peer, joined, mon, browser>>
        /\ (StopFailed(g) \/ task' = task)
    BY <1>4 DEF ChildReportsFailure, RelayFails
  <2>2. TaskTypes' /\ SoundTasks'
    <3>1. CASE StopFailed(g)
      BY <2>1, <3>1, StopKeeps
    <3>2. CASE task' = task
      BY <1>1, <2>1, <3>2, TasksStay DEF TaskTypes
    <3> QED BY <2>1, <3>1, <3>2
  <2>3. PeerTypes' /\ WatchTypes' /\ quar' \subseteq Gens /\ alive' \subseteq alive
    BY <1>1, <2>1 DEF PeerTypes, WatchTypes, SeatTypes
  <2>4. joined' \subseteq Started /\ JoinedGameIsWatched'
    BY <1>1, <2>1 DEF JoinedGameIsWatched, Owned
  <2>5. JoinTypes' /\ SoundJoins' /\ attempt' = attempt
    BY <2>1, JoinsStay DEF browser
  <2> QED BY <2>1, <2>2, <2>3, <2>4, <2>5, SameSeats
<1> QED BY <1>2, <1>3, <1>4 DEF Child

LEMMA MonitorKeeps == ASSUME IInv, NEW g \in Gens, Monitor(g) PROVE IInv'
<1>1. /\ SeatTypes /\ TaskTypes /\ PeerTypes /\ WatchTypes /\ SoundTasks /\ Homes
      /\ joined \subseteq Started /\ JoinedGameIsWatched
  BY TypesTogether DEF IInv
<1> USE DEF seats, watch
<1>2. CASE MonitorEnds(g)
  <2>1. /\ g \notin Owned /\ mon' = mon \ {g}
        /\ UNCHANGED <<gen, home, launched, alive, quar, peer, failed, joined, task, browser>>
    BY <1>2 DEF MonitorEnds, Current
  <2>2. TaskTypes' /\ PeerTypes' /\ WatchTypes' /\ quar' \subseteq Gens /\ alive' \subseteq alive
    BY <1>1, <2>1 DEF TaskTypes, PeerTypes, WatchTypes, SeatTypes
  <2>3. SoundTasks'
    BY <1>1, <2>1, TasksStay
  <2>4. joined' \subseteq Started /\ JoinedGameIsWatched'
    BY <1>1, <2>1 DEF JoinedGameIsWatched, Owned
  <2>5. JoinTypes' /\ SoundJoins' /\ attempt' = attempt
    BY <2>1, JoinsStay DEF browser
  <2> QED BY <2>1, <2>2, <2>3, <2>4, <2>5, SameSeats
<1>3. CASE MonitorStops(g)
  <2>1. /\ failed' = failed \cup {g} /\ StopFailed(g) /\ mon' = mon \ {g}
        /\ UNCHANGED <<gen, home, launched, alive, quar, peer, joined, browser>>
    BY <1>3 DEF MonitorStops
  <2>2. TaskTypes' /\ SoundTasks'
    BY <2>1, StopKeeps
  <2>3. PeerTypes' /\ WatchTypes' /\ quar' \subseteq Gens /\ alive' \subseteq alive
    BY <1>1, <2>1 DEF PeerTypes, WatchTypes, SeatTypes
  <2>4. joined' \subseteq Started /\ JoinedGameIsWatched'
    BY <1>1, <2>1 DEF JoinedGameIsWatched, Owned
  <2>5. JoinTypes' /\ SoundJoins' /\ attempt' = attempt
    BY <2>1, JoinsStay DEF browser
  <2> QED BY <2>1, <2>2, <2>3, <2>4, <2>5, SameSeats
<1> QED BY <1>2, <1>3 DEF Monitor

\* A failure is recorded, and a cleanup may start.
LEMMA FailingKeeps ==
    ASSUME IInv, UNCHANGED <<seats, peer, joined, mon, attempt>>, failed \subseteq failed', failed' \subseteq Gens,
           TaskTypes', SoundTasks', JoinTypes', SoundJoins'
    PROVE  IInv'
<1>1. SeatTypes /\ PeerTypes /\ WatchTypes /\ joined \subseteq Started /\ JoinedGameIsWatched
  BY TypesTogether DEF IInv
<1>2. PeerTypes' /\ WatchTypes' /\ quar' \subseteq Gens
  BY <1>1 DEF PeerTypes, WatchTypes, SeatTypes, seats
<1>3. joined' \subseteq Started /\ JoinedGameIsWatched'
  BY <1>1 DEF JoinedGameIsWatched, Owned, seats
<1> QED BY <1>2, <1>3, SameSeats DEF seats

\* The session goes on to some state of its join, awaiting some cleanups.
LEMMA GoingKeeps ==
    ASSUME IInv, NEW s \in Sessions, NEW state \in JoinStates \ {"bind"}, Goes(s, state),
           NEW W \in SUBSET Slots, waits' = waits \/ waits' = [waits EXCEPT ![s] = W],
           UNCHANGED <<at, on, todo>>, failed \subseteq failed'
    PROVE  JoinTypes' /\ SoundJoins'
<1>1. JoinTypes /\ SoundJoins
  BY TypesTogether DEF IInv
<1>2. JoinTypes'
  BY <1>1 DEF Goes, JoinTypes
<1>3. SoundJoins'
  BY <1>1 DEF Goes, JoinTypes, SoundJoins
<1> QED BY <1>2, <1>3

\* A connection that is stopped by its join, its wait or its close.
LEMMA StoppingKeeps ==
    ASSUME IInv, NEW s \in Sessions, NEW g \in Gens, NEW state \in JoinStates \ {"bind"},
           StopsAndAwaits(s, g), Goes(s, state),
           failed' = failed \/ failed' = failed \cup {g}, g \in failed' \cup quar,
           UNCHANGED <<seats, peer, joined, mon, attempt, at, on, todo>>
    PROVE  IInv'
<1>1. WatchTypes
  BY TypesTogether DEF IInv
<1>2. failed \subseteq failed' /\ failed' \subseteq Gens
  BY <1>1 DEF WatchTypes
<1>3. TaskTypes' /\ SoundTasks' /\ Awaited(g) \in SUBSET Slots
  BY <1>2, StopKeeps DEF StopsAndAwaits, seats
<1>4. JoinTypes' /\ SoundJoins'
  BY <1>2, <1>3, GoingKeeps DEF StopsAndAwaits
<1> QED BY <1>2, <1>3, <1>4, FailingKeeps

LEMMA StartingKeeps ==
    ASSUME IInv, NEW s \in Sessions, JoinStarts(s) \/ GatePasses(s) \/ StopExited(s)
    PROVE  IInv'
<1>1. /\ SeatTypes /\ TaskTypes /\ PeerTypes /\ WatchTypes /\ JoinTypes /\ SoundTasks /\ SoundJoins /\ Homes
  BY TypesTogether DEF IInv
<1>2. CASE JoinStarts(s)
  <2>1. Busy \in SUBSET Slots /\ "gate" \in JoinStates \ {"bind"}
    BY DEF Busy, JoinStates
  <2>2. JoinTypes' /\ SoundJoins'
    BY <1>2, <2>1, GoingKeeps DEF JoinStarts, watch
  <2> QED BY <1>2, <2>2, JoinOnly DEF JoinStarts
<1>3. CASE GatePasses(s)
  <2> DEFINE exited == {g \in Owned : Exited(g)}
  <2>1. /\ failed' = failed \cup exited /\ todo' = [todo EXCEPT ![s] = exited] /\ Goes(s, "exited")
        /\ UNCHANGED <<seats, peer, joined, mon, task, attempt, at, on, waits>>
    BY <1>3 DEF GatePasses
  <2>2. exited \in SUBSET Gens
    BY <1>1, OwnedGame
  <2> HIDE DEF exited
  <2>3. JoinTypes'
    BY <1>1, <2>1, <2>2 DEF JoinTypes, Goes, JoinStates
  <2>4. SoundJoins'
    BY <1>1, <2>1 DEF JoinTypes, Goes, SoundJoins
  <2>5. failed \subseteq failed' /\ failed' \subseteq Gens
    BY <1>1, <2>1, <2>2 DEF WatchTypes
  <2>6. TaskTypes' /\ SoundTasks'
    BY <1>1, <2>1, <2>5, TasksStay DEF TaskTypes, seats
  <2> QED BY <2>1, <2>3, <2>4, <2>5, <2>6, FailingKeeps
<1>4. CASE StopExited(s)
  <2>1. PICK g \in todo[s] : StopsAndAwaits(s, g) /\ todo' = [todo EXCEPT ![s] = @ \ {g}]
    BY <1>4 DEF StopExited
  <2>2. UNCHANGED <<seats, peer, watch, attempt, pc, at, on>>
    BY <1>4 DEF StopExited
  <2>3. g \in Gens /\ g \in failed /\ failed' = failed
    BY <1>1, <2>2 DEF JoinTypes, SoundJoins, watch
  <2>4. TaskTypes' /\ SoundTasks' /\ Awaited(g) \in SUBSET Slots
    BY <2>1, <2>2, <2>3, StopKeeps DEF StopsAndAwaits, seats
  <2>5. JoinTypes' /\ SoundJoins'
    BY <1>1, <2>1, <2>2, <2>3, <2>4 DEF JoinTypes, SoundJoins, StopsAndAwaits
  <2>6. failed' \subseteq Gens
    BY <1>1, <2>3 DEF WatchTypes
  <2> QED BY <2>2, <2>3, <2>4, <2>5, <2>6, FailingKeeps DEF watch
<1> QED BY <1>2, <1>3, <1>4

\* Bind and the wait for readiness.
LEMMA BindingKeeps == ASSUME IInv, NEW s \in Sessions, Bind(s) PROVE IInv'
<1>1. /\ SeatTypes /\ TaskTypes /\ PeerTypes /\ WatchTypes /\ AttemptTypes /\ JoinTypes /\ SoundTasks /\ SoundJoins
      /\ Homes /\ LiveGamesOwn /\ joined \subseteq Started /\ JoinedGameIsWatched /\ AttemptsAreCurrent
  BY TypesTogether DEF IInv
<1> DEFINE g == gen[at[s]]
<1>2. pc[s] = "bind" /\ UNCHANGED <<seats, peer, joined, mon>> /\ at[s] \in Slots
  BY <1>1 DEF Bind, SoundJoins
<1>3. CASE /\ g = NoGen \/ g \in quar
           /\ Answered(s) /\ UNCHANGED <<failed, task, attempt>>
  <2>1. JoinTypes' /\ SoundJoins'
    BY <1>3, AnsweringKeeps
  <2> QED BY <1>2, <1>3, <2>1, JoinOnly DEF watch
<1>4. CASE /\ g # NoGen /\ g \notin quar /\ Exited(g) /\ failed' = failed \cup {g}
           /\ StopsAndAwaits(s, g) /\ Goes(s, "stopping") /\ UNCHANGED <<attempt, at, on, todo>>
  <2>1. g \in Gens
    BY <1>1, <1>2, <1>4 DEF SeatTypes
  <2>2. "stopping" \in JoinStates \ {"bind"}
    BY DEF JoinStates
  <2> QED BY <1>2, <1>4, <2>1, <2>2, StoppingKeeps
<1>5. CASE /\ g # NoGen /\ g \notin quar /\ ~Exited(g)
           /\ attempt' = [attempt EXCEPT ![s] = g] /\ on' = [on EXCEPT ![s] = g]
           /\ Goes(s, "waiting") /\ UNCHANGED <<failed, task, at, waits, todo>>
  <2>1. g \in Gens /\ g \in Owned
    BY <1>1, <1>2, <1>5 DEF SeatTypes, Owned
  <2>2. JoinTypes'
    BY <1>1, <1>5, <2>1 DEF JoinTypes, Goes, JoinStates
  <2>3. SoundJoins'
    BY <1>1, <1>5 DEF JoinTypes, Goes, SoundJoins
  <2>4. SeatTypes' /\ TaskTypes' /\ PeerTypes' /\ WatchTypes' /\ JoinedGameIsWatched' /\ joined' \subseteq Started'
    BY <1>1, <1>2, <1>5 DEF SeatTypes, TaskTypes, PeerTypes, WatchTypes, JoinedGameIsWatched, Owned, Started, seats
  <2>5. SoundTasks' /\ Homes' /\ LiveGamesOwn' /\ Owned' = Owned
    BY <1>1, <1>2, <1>5, TasksStay, SeatsStay DEF seats
  <2>6. AttemptTypes' /\ AttemptsAreCurrent'
    BY <1>1, <1>5, <2>1, <2>5 DEF AttemptTypes, AttemptsAreCurrent, Current
  <2> QED BY <2>2, <2>3, <2>4, <2>5, <2>6, TypesTogetherAfter DEF IInv
<1> QED BY <1>3, <1>4, <1>5 DEF Bind

LEMMA WaitingKeeps ==
    ASSUME IInv, NEW s \in Sessions,
           WaitRetired(s) \/ WaitFails(s) \/ WaitExpires(s) \/ WaitSucceeds(s)
           \/ StopAwaited(s) \/ AwaitThrows(s) \/ JoinCancelled(s) \/ BrowserCloses(s)
    PROVE  IInv'
<1>1. /\ SeatTypes /\ TaskTypes /\ PeerTypes /\ WatchTypes /\ AttemptTypes /\ JoinTypes /\ SoundTasks /\ SoundJoins
      /\ Homes /\ joined \subseteq Started /\ JoinedGameIsWatched /\ AttemptsAreCurrent
  BY TypesTogether DEF IInv
<1>2. {"stopping", "leaving", "lost"} \subseteq JoinStates \ {"bind"}
  BY DEF JoinStates
<1>3. CASE Answered(s) /\ UNCHANGED <<seats, peer, watch, task, attempt>>
  <2>1. JoinTypes' /\ SoundJoins'
    BY <1>3, AnsweringKeeps DEF watch
  <2> QED BY <1>3, <2>1, JoinOnly
<1>4. CASE WaitRetired(s) \/ StopAwaited(s) \/ JoinCancelled(s)
  BY <1>3, <1>4 DEF WaitRetired, StopAwaited, JoinCancelled
<1>5. CASE AwaitThrows(s)
  <2>1. CASE pc[s] = "leaving"
    <3>1. Goes(s, "lost") /\ UNCHANGED <<seats, peer, watch, task, attempt, at, on, waits, todo>>
      BY <1>5, <2>1 DEF AwaitThrows
    <3>2. JoinTypes' /\ SoundJoins'
      BY <1>2, <3>1, GoingKeeps DEF watch
    <3> QED BY <3>1, <3>2, JoinOnly
  <2>2. CASE pc[s] # "leaving"
    BY <1>3, <1>5, <2>2 DEF AwaitThrows
  <2> QED BY <2>1, <2>2
<1>6. CASE WaitFails(s) \/ WaitExpires(s)
  <2>1. on[s] \in Owned
    BY <1>6 DEF WaitFails, WaitExpires, Current
  <2>2. on[s] \in Gens
    BY <1>1, <2>1, OwnedGame
  <2>3. /\ StopsAndAwaits(s, on[s]) /\ Goes(s, "stopping") /\ on[s] \in failed' \cup quar
        /\ failed' = failed \/ failed' = failed \cup {on[s]}
        /\ UNCHANGED <<seats, peer, joined, mon, attempt, at, on, todo>>
    BY <1>6 DEF WaitFails, WaitExpires
  <2> QED BY <1>2, <2>2, <2>3, StoppingKeeps
<1>7. CASE WaitSucceeds(s)
  <2> DEFINE g == on[s]
  <2>1. /\ g \in Owned /\ joined' = joined \cup {g} /\ mon' = (IF g \in joined THEN mon ELSE mon \cup {g})
        /\ Answered(s) /\ UNCHANGED <<seats, peer, failed, task, attempt>>
    BY <1>7 DEF WaitSucceeds, Current
  <2>2. g \in Gens /\ g \in Started
    BY <1>1, <2>1, OwnedGame
  <2>3. JoinTypes' /\ SoundJoins'
    BY <2>1, AnsweringKeeps
  <2>4. TaskTypes' /\ PeerTypes' /\ WatchTypes' /\ quar' \subseteq Gens /\ alive' \subseteq alive
    BY <1>1, <2>1, <2>2 DEF TaskTypes, PeerTypes, WatchTypes, SeatTypes, seats
  <2>5. SoundTasks'
    BY <1>1, <2>1, TasksStay DEF seats
  <2>6. joined' \subseteq Started /\ JoinedGameIsWatched'
    BY <1>1, <2>1, <2>2 DEF JoinedGameIsWatched, Owned, seats
  <2> QED BY <2>1, <2>3, <2>4, <2>5, <2>6, SameSeats DEF seats
<1>8. CASE BrowserCloses(s)
  <2> DEFINE g == attempt[s]
  <2>1. g # NoGen /\ g \in Gens
    BY <1>1, <1>8 DEF BrowserCloses, AttemptTypes
  <2>2. /\ failed' = (IF Exited(g) THEN failed \cup {g} ELSE failed) /\ Goes(s, "leaving")
        /\ (IF g \in failed' THEN StopsAndAwaits(s, g) ELSE UNCHANGED <<task, waits>>)
        /\ UNCHANGED <<seats, peer, joined, mon, attempt, at, on, todo>>
    BY <1>8 DEF BrowserCloses
  <2>3. CASE g \in failed'
    BY <1>2, <2>1, <2>2, <2>3, StoppingKeeps
  <2>4. CASE g \notin failed'
    <3>1. failed' = failed /\ UNCHANGED <<task, waits>>
      BY <2>2, <2>4
    <3>2. JoinTypes' /\ SoundJoins'
      BY <1>2, <2>2, <3>1, GoingKeeps
    <3> QED BY <2>2, <3>1, <3>2, JoinOnly DEF watch
  <2> QED BY <2>3, <2>4
<1> QED BY <1>4, <1>5, <1>6, <1>7, <1>8

\* Games and attempts go, and nothing else changes but the one join.
LEMMA ForgottenKeeps ==
    ASSUME IInv, NEW G \in SUBSET Gens, gen' = WithoutGens(G),
           UNCHANGED <<home, launched, peer, watch, task>>, alive' \subseteq alive, G \cap alive' = {},
           quar \subseteq quar', quar' \subseteq Gens,
           NEW kept \in [Sessions -> Gens \cup {NoGen}],
           \A s \in Sessions : kept[s] = attempt[s] \/ kept[s] = NoGen,
           attempt' = WithoutAttempts(kept, G),
           JoinTypes', SoundJoins'
    PROVE  IInv'
<1>1. /\ SeatTypes /\ TaskTypes /\ PeerTypes /\ WatchTypes /\ SoundTasks
      /\ joined \subseteq Started /\ JoinedGameIsWatched
  BY TypesTogether DEF IInv
<1>2. /\ gen' \in [Slots -> Gens \cup {NoGen}] /\ AttemptTypes'
      /\ Homes' /\ LiveGamesOwn' /\ Owned' = Owned \ G /\ Started' = Started
      /\ AttemptsAreCurrent'
  BY ForgettingKeeps
<1>3. SeatTypes' /\ TaskTypes' /\ PeerTypes' /\ WatchTypes'
  BY <1>1, <1>2 DEF SeatTypes, TaskTypes, PeerTypes, WatchTypes, watch
<1>4. SoundTasks'
  BY <1>1, TasksStay DEF watch
<1>5. joined' \subseteq Started' /\ JoinedGameIsWatched'
  BY <1>1, <1>2 DEF JoinedGameIsWatched, watch
<1> QED BY <1>2, <1>3, <1>4, <1>5, TypesTogetherAfter DEF IInv

LEMMA AllocatingKeeps == ASSUME IInv, NEW s \in Sessions, Allocate(s) PROVE IInv'
<1>1. /\ SeatTypes /\ TaskTypes /\ PeerTypes /\ WatchTypes /\ AttemptTypes /\ JoinTypes /\ SoundTasks /\ SoundJoins
      /\ Homes /\ LiveGamesOwn /\ joined \subseteq Started /\ JoinedGameIsWatched /\ AttemptsAreCurrent
  BY TypesTogether DEF IInv
<1>2. Reaped \in SUBSET Gens /\ Reaped \cap alive = {}
  BY <1>1, OwnedGame DEF Reaped, Exited
<1>3. attempt \in [Sessions -> Gens \cup {NoGen}]
  BY <1>1 DEF AttemptTypes
<1>4. CASE JoinRefused(s)
  <2>1. /\ gen' = WithoutGens(Reaped) /\ Answered(s)
        /\ UNCHANGED <<home, launched, alive, quar, peer, watch, task>>
    BY <1>4 DEF JoinRefused
  <2> DEFINE gone == [attempt EXCEPT ![s] = NoGen]
  <2>2. /\ gone \in [Sessions -> Gens \cup {NoGen}]
        /\ \A t \in Sessions : gone[t] = attempt[t] \/ gone[t] = NoGen
    BY <1>3
  <2>3. WithoutAttempts(gone, Reaped) = [WithoutAttempts(attempt, Reaped) EXCEPT ![s] = NoGen]
    BY <1>3 DEF WithoutAttempts
  <2>4. attempt' = WithoutAttempts(attempt, Reaped) \/ attempt' = WithoutAttempts(gone, Reaped)
    BY <1>4, <2>3 DEF JoinRefused
  <2>5. JoinTypes' /\ SoundJoins'
    BY <2>1, AnsweringKeeps DEF watch
  <2>6. quar \subseteq quar' /\ quar' \subseteq Gens
    BY <1>1, <2>1 DEF SeatTypes
  <2> HIDE DEF gone
  <2> QED BY <1>2, <1>3, <2>1, <2>2, <2>4, <2>5, <2>6, ForgottenKeeps
<1>5. ASSUME Goes(s, "bind"), NEW q \in Slots, at' = [at EXCEPT ![s] = q], UNCHANGED <<watch, on, waits, todo>>
      PROVE  JoinTypes' /\ SoundJoins'
  <2>1. JoinTypes'
    BY <1>1, <1>5 DEF JoinTypes, Goes, JoinStates
  <2>2. SoundJoins'
    BY <1>1, <1>5 DEF JoinTypes, Goes, SoundJoins, watch
  <2> QED BY <2>1, <2>2
<1>6. ASSUME NEW q \in Slots, ShareGame(s, q) PROVE IInv'
  <2>1. /\ gen' = WithoutGens(Reaped) /\ attempt' = WithoutAttempts(attempt, Reaped)
        /\ UNCHANGED <<home, launched, alive, quar, peer, watch, task>>
    BY <1>6 DEF ShareGame
  <2>2. JoinTypes' /\ SoundJoins'
    BY <1>5, <1>6 DEF ShareGame
  <2>3. quar \subseteq quar' /\ quar' \subseteq Gens
    BY <1>1, <2>1 DEF SeatTypes
  <2> QED BY <1>2, <1>3, <2>1, <2>2, <2>3, ForgottenKeeps
<1>7. ASSUME NEW q \in Slots, LaunchGame(s, q) PROVE IInv'
  <2> DEFINE g == launched + 1
  <2>1. /\ WithoutGens(Reaped)[q] = NoGen /\ g \in Gens /\ launched' = g
        /\ gen' = [WithoutGens(Reaped) EXCEPT ![q] = g] /\ home' = [home EXCEPT ![g] = q]
        /\ alive' = alive \cup {g} /\ peer' \in {peer, [peer EXCEPT ![q] = NoGen]}
        /\ attempt' = [WithoutAttempts(attempt, Reaped) EXCEPT ![s] = g]
        /\ UNCHANGED <<quar, failed, joined, mon, task>>
    BY <1>7 DEF LaunchGame, watch
  <2>2. JoinTypes' /\ SoundJoins'
    BY <1>5, <1>7 DEF LaunchGame
  <2>3. launched \in Nat /\ g \notin Started /\ Started' = Started \cup {g} /\ g # NoGen
    BY <1>1, <2>1, GenerationsAssumption, NoGenIsNoGame DEF SeatTypes, Started
  <2> HIDE DEF g
  <2>4. \A r \in Slots : gen'[r] = IF r = q THEN g ELSE IF gen[r] \in Reaped THEN NoGen ELSE gen[r]
    BY <2>1 DEF WithoutGens
  <2>5. gen' \in [Slots -> Gens \cup {NoGen}]
    BY <1>1, <2>1 DEF WithoutGens, SeatTypes
  <2>6. SeatTypes'
    BY <1>1, <2>1, <2>5 DEF SeatTypes, Gens
  <2>7. TaskTypes' /\ PeerTypes' /\ WatchTypes'
    BY <1>1, <2>1 DEF TaskTypes, PeerTypes, WatchTypes
  <2>8. Owned' = (Owned \ Reaped) \cup {g}
    <3>1. gen[q] = NoGen \/ gen[q] \in Reaped
      BY <2>1 DEF WithoutGens
    <3>2. \A r \in Slots : gen'[r] # NoGen => gen'[r] \in (Owned \ Reaped) \cup {g}
      BY <2>4 DEF Owned
    <3>3. \A x \in Owned \ Reaped : \E r \in Slots : gen'[r] = x
      BY <2>4, <3>1, <1>2 DEF Owned
    <3>4. gen'[q] = g
      BY <2>4
    <3> QED BY <2>3, <3>2, <3>3, <3>4 DEF Owned
  <2>9. AttemptTypes' /\ AttemptsAreCurrent'
    <3>1. AttemptTypes'
      BY <1>3, <2>1 DEF AttemptTypes, WithoutAttempts
    <3>2. ASSUME NEW t \in Sessions, attempt'[t] # NoGen PROVE attempt'[t] \in Owned'
      <4>1. CASE t = s
        BY <1>3, <2>1, <2>8, <4>1 DEF WithoutAttempts
      <4>2. CASE t # s
        <5>1. attempt'[t] = attempt[t] /\ attempt[t] \notin Reaped
          BY <1>3, <2>1, <3>2, <4>2 DEF WithoutAttempts
        <5> QED BY <1>1, <2>8, <3>2, <5>1 DEF AttemptsAreCurrent, Current
      <4> QED BY <4>1, <4>2
    <3> QED BY <3>1, <3>2 DEF AttemptsAreCurrent, Current
  <2>10. Homes'
    <3> SUFFICES ASSUME NEW r \in Slots, gen'[r] # NoGen PROVE gen'[r] \in Started' /\ home'[gen'[r]] = r
      BY DEF Homes
    <3>1. CASE r = q
      BY <1>1, <2>1, <2>3, <2>4, <3>1 DEF SeatTypes
    <3>2. CASE r # q
      <4>1. gen'[r] = gen[r] /\ gen[r] \in Started /\ home[gen[r]] = r /\ gen[r] \in Gens
        BY <1>1, <2>4, <3>2 DEF Homes, SeatTypes
      <4> QED BY <1>1, <2>1, <2>3, <4>1 DEF SeatTypes
    <3> QED BY <3>1, <3>2
  <2>11. LiveGamesOwn'
    BY <1>1, <1>2, <2>1, <2>8 DEF LiveGamesOwn
  <2>12. ASSUME NEW r \in Slots PROVE SoundTask(r)'
    <3>1. SoundTask(r) /\ task'[r] = task[r]
      BY <1>1, <2>1 DEF SoundTasks
    <3>2. CASE task[r] = NoTask
      BY <3>1, <3>2 DEF SoundTask
    <3>3. CASE task[r] # NoTask
      <4>1. task[r].gen \in Started /\ task[r].gen # g /\ task[r].gen \in Gens
        BY <1>1, <2>3, <3>1, <3>3, StartedAreGens DEF SoundTask
      <4>2. home'[task[r].gen] = home[task[r].gen]
        BY <1>1, <2>1, <4>1 DEF SeatTypes
      <4>3. peer'[r] = peer[r] \/ peer'[r] = NoGen
        BY <1>1, <2>1 DEF PeerTypes
      <4> QED BY <2>1, <2>3, <3>1, <3>3, <4>1, <4>2, <4>3, NoGenIsNoGame DEF SoundTask
    <3> QED BY <3>2, <3>3
  <2>13. joined' \subseteq Started' /\ JoinedGameIsWatched'
    BY <1>1, <2>1, <2>3, <2>8 DEF JoinedGameIsWatched
  <2> QED BY <2>2, <2>6, <2>7, <2>9, <2>10, <2>11, <2>12, <2>13, TypesTogetherAfter DEF IInv, SoundTasks
<1> QED BY <1>4, <1>6, <1>7 DEF Allocate

LEMMA ShuttingDownKeeps ==
    ASSUME IInv, NEW S, NEW stuck \in SUBSET Slots, S \subseteq Slots,
           NEW kept \in [Sessions -> Gens \cup {NoGen}],
           \A s \in Sessions : kept[s] = attempt[s] \/ kept[s] = NoGen,
           ShutDown(S, stuck, kept), UNCHANGED <<peer, watch, task>>, JoinTypes', SoundJoins'
    PROVE  IInv'
<1> DEFINE G == {gen[q] : q \in S \ stuck} \ {NoGen}
<1>1. SeatTypes
  BY TypesTogether DEF IInv
<1>2. /\ gen' = WithoutGens(G) /\ alive' = alive \ G /\ quar' = quar \cup {gen[q] : q \in stuck}
      /\ attempt' = WithoutAttempts(kept, G) /\ UNCHANGED <<home, launched>>
      /\ \A q \in stuck : gen[q] \in alive \cup quar
  BY DEF ShutDown
<1>3. G \in SUBSET Gens
  BY <1>1 DEF SeatTypes
<1>4. quar \subseteq quar' /\ quar' \subseteq Gens
  BY <1>1, <1>2 DEF SeatTypes
<1> HIDE DEF G
<1> QED BY <1>2, <1>3, <1>4, ForgottenKeeps

LEMMA TeardownKeeps ==
    ASSUME IInv, Host \/ \E s \in Sessions : BrowserGone(s)
    PROVE  IInv'
<1>1. SeatTypes /\ AttemptTypes /\ Homes /\ AttemptsAreCurrent
  BY TypesTogether DEF IInv
<1>2. attempt \in [Sessions -> Gens \cup {NoGen}]
  BY <1>1 DEF AttemptTypes
<1>3. CASE EndHosting
  <2> DEFINE none == [s \in Sessions |-> NoGen]
  <2>1. PICK stuck \in SUBSET {q \in Slots : gen[q] # NoGen} : ShutDown(Slots, stuck, none)
    BY <1>3 DEF EndHosting
  <2>2. UNCHANGED <<peer, watch, task, pc, at, on, waits, todo>>
    BY <1>3 DEF EndHosting
  <2>3. UNCHANGED <<pc, at, on, waits, todo, failed>>
    BY <2>2 DEF watch
  <2>4. JoinTypes' /\ SoundJoins'
    BY <2>3, TypesTogether DEF IInv, JoinTypes, SoundJoins
  <2>5. none \in [Sessions -> Gens \cup {NoGen}] /\ \A s \in Sessions : none[s] = NoGen
    OBVIOUS
  <2> HIDE DEF none
  <2> QED BY <2>1, <2>2, <2>4, <2>5, ShuttingDownKeeps
<1>4. ASSUME NEW q \in Slots, ReapSeat(q) PROVE IInv'
  <2>1. PICK stuck \in SUBSET {q} : ShutDown({q}, stuck, attempt)
    BY <1>4 DEF ReapSeat
  <2>2. UNCHANGED <<peer, watch, task, pc, at, on, waits, todo>>
    BY <1>4 DEF ReapSeat
  <2>3. UNCHANGED <<pc, at, on, waits, todo, failed>>
    BY <2>2 DEF watch
  <2>4. JoinTypes' /\ SoundJoins'
    BY <2>3, TypesTogether DEF IInv, JoinTypes, SoundJoins
  <2> QED BY <1>2, <2>1, <2>2, <2>4, ShuttingDownKeeps
<1>5. ASSUME NEW s \in Sessions, BrowserGone(s) PROVE IInv'
  <2> DEFINE kept == [attempt EXCEPT ![s] = NoGen]
  <2>1. Answered(s) /\ UNCHANGED <<peer, watch, task>>
    BY <1>5 DEF BrowserGone
  <2>2. JoinTypes' /\ SoundJoins'
    BY <2>1, AnsweringKeeps DEF watch
  <2>3. /\ kept \in [Sessions -> Gens \cup {NoGen}]
        /\ \A t \in Sessions : kept[t] = attempt[t] \/ kept[t] = NoGen
    BY <1>2
  <2>4. CASE attempt' = kept /\ UNCHANGED seats
    <3>1. kept = WithoutAttempts(kept, {})
      BY <2>3 DEF WithoutAttempts
    <3>2. gen' = WithoutGens({})
      BY <1>1, <2>4 DEF WithoutGens, SeatTypes, seats
    <3>3. {} \in SUBSET Gens /\ quar \subseteq quar' /\ quar' \subseteq Gens
      BY <1>1, <2>4 DEF SeatTypes, seats
    <3> HIDE DEF kept
    <3> QED BY <2>1, <2>2, <2>3, <2>4, <3>1, <3>2, <3>3, ForgottenKeeps DEF seats
  <2>5. CASE /\ attempt[s] # NoGen
             /\ \E stuck \in SUBSET {home[attempt[s]]} : ShutDown({home[attempt[s]]}, stuck, kept)
    <3>1. PICK stuck \in SUBSET {home[attempt[s]]} : ShutDown({home[attempt[s]]}, stuck, kept)
      BY <2>5
    <3>2. attempt[s] \in Owned
      BY <1>1, <2>5 DEF AttemptsAreCurrent, Current
    <3>3. home[attempt[s]] \in Slots
      BY <1>1, <3>2, OwnedGame
    <3> HIDE DEF kept
    <3> QED BY <2>1, <2>2, <2>3, <3>1, <3>3, ShuttingDownKeeps
  <2> QED BY <1>5, <2>4, <2>5 DEF BrowserGone
<1> QED BY <1>3, <1>4, <1>5 DEF Host

LEMMA CleaningKeeps == ASSUME IInv, NEW q \in Slots, Cleanup(q) PROVE IInv'
<1>1. /\ SeatTypes /\ TaskTypes /\ PeerTypes /\ WatchTypes /\ AttemptTypes /\ JoinTypes /\ SoundTasks /\ SoundJoins
      /\ Homes /\ LiveGamesOwn /\ joined \subseteq Started /\ JoinedGameIsWatched
  BY TypesTogether DEF IInv
<1>2. /\ task[q] \in [gen : Gens \cup {NoGen}, phase : Phases] /\ task[q].phase # "none"
      /\ task[q].gen \in Gens /\ SoundTask(q)
      /\ task[q].phase \in {"logs", "evict", "final"} => task[q].gen \notin alive
  <2>1. task[q].phase # "none"
    BY DEF Cleanup, CleanupBegins, GraceEnds, Kill, ReadLogs, ReadLogsOfRetired, QuarantineAfterKill,
           EvictStalePeer, EvictionFails, FreeSlot, Phase
  <2> QED BY <1>1, <2>1, StartedAreGens DEF TaskTypes, SoundTasks, SoundTask, NoTask
<1>3. ASSUME NEW phase \in Phases \ {"none"}
      PROVE  /\ [task[q] EXCEPT !.phase = phase] \in [gen : Gens \cup {NoGen}, phase : Phases]
             /\ [task[q] EXCEPT !.phase = phase].gen = task[q].gen
             /\ [task[q] EXCEPT !.phase = phase].phase = phase
  BY <1>2
<1>4. NoTask \in [gen : Gens \cup {NoGen}, phase : Phases]
  BY DEF NoTask, Phases
<1>5. {"grace", "faulted", "logs", "logsAfterFailedKill", "evict", "final"} \subseteq Phases \ {"none"}
  BY DEF Phases
\* The task goes on; its game may have died, its peer may have been removed.
<1>6. ASSUME NEW phase \in Phases \ {"none"}, Moves(q, phase), alive' \subseteq alive,
             UNCHANGED <<gen, home, launched, quar, watch, browser>>,
             phase \in {"logs", "evict", "final"} => task[q].gen \notin alive',
             peer' = peer \/ peer' = [peer EXCEPT ![q] = NoGen],
             phase = "final" => peer' = [peer EXCEPT ![q] = NoGen]
      PROVE  IInv'
  <2>1. PeerTypes' /\ \A r \in Slots \ {q} : peer'[r] = peer[r]
    BY <1>1, <1>6 DEF PeerTypes
  <2>2. phase = "final" => peer'[q] = NoGen
    BY <1>1, <1>6 DEF PeerTypes
  <2>3. PICK t : t = [task[q] EXCEPT !.phase = phase]
    OBVIOUS
  <2>4. /\ t \in [gen : Gens \cup {NoGen}, phase : Phases] /\ t.gen = task[q].gen /\ t.phase = phase
        /\ task' = [task EXCEPT ![q] = t]
    BY <1>1, <1>3, <1>6, <2>3 DEF Moves, TaskTypes
  <2>5. TaskTypes' /\ SoundTasks'
    BY <1>2, <1>6, <2>1, <2>2, <2>4, TaskMoves DEF watch
  <2>6. WatchTypes' /\ JoinTypes' /\ SoundJoins' /\ quar' \subseteq Gens /\ attempt' = attempt
    BY <1>1, <1>6 DEF WatchTypes, JoinTypes, SoundJoins, SeatTypes, watch, browser
  <2>7. joined' \subseteq Started /\ JoinedGameIsWatched'
    BY <1>1, <1>6 DEF JoinedGameIsWatched, Owned, watch
  <2> QED BY <1>6, <2>1, <2>5, <2>6, <2>7, SameSeats
\* The task ends, and its game may be quarantined.
<1>7. ASSUME Finishes(q), UNCHANGED <<gen, home, launched, alive, peer, watch, attempt, pc, at, on, todo>>,
             quar' = quar \/ quar' = quar \cup {task[q].gen}
      PROVE  IInv'
  <2>1. task' = [task EXCEPT ![q] = NoTask] /\ waits' = [s \in Sessions |-> waits[s] \ {q}]
    BY <1>7 DEF Finishes
  <2>2. TaskTypes' /\ SoundTasks'
    BY <1>2, <1>4, <1>7, <2>1, TaskMoves DEF watch
  <2>3. WatchTypes' /\ PeerTypes' /\ JoinTypes' /\ SoundJoins' /\ quar' \subseteq Gens
    BY <1>1, <1>2, <1>7, <2>1 DEF WatchTypes, PeerTypes, JoinTypes, SoundJoins, SeatTypes, watch
  <2>4. joined' \subseteq Started /\ JoinedGameIsWatched'
    BY <1>1, <1>7 DEF JoinedGameIsWatched, Owned, watch
  <2> QED BY <1>7, <2>2, <2>3, <2>4, SameSeats
<1>8. CASE CleanupBegins(q)
  <2>1. PICK phase \in {"grace", "faulted"} : Moves(q, phase)
    BY <1>8 DEF CleanupBegins
  <2> QED BY <1>5, <1>6, <1>8, <2>1 DEF CleanupBegins, seats
<1>9. CASE GraceEnds(q)
  <2>1. task[q].gen \notin alive
    BY <1>1, <1>9 DEF GraceEnds, Current, Exited, LiveGamesOwn
  <2> QED BY <1>5, <1>6, <1>9, <2>1 DEF GraceEnds, seats
<1>10. CASE Kill(q)
  <2>1. UNCHANGED <<gen, home, launched, quar, peer, watch, browser>>
    BY <1>10 DEF Kill
  <2>2. CASE alive' = alive \ {task[q].gen} /\ Moves(q, "logs")
    BY <1>5, <1>6, <2>1, <2>2
  <2>3. CASE UNCHANGED alive /\ Moves(q, "logsAfterFailedKill")
    BY <1>5, <1>6, <2>1, <2>3
  <2> QED BY <1>10, <2>2, <2>3 DEF Kill
<1>11. CASE ReadLogs(q)
  BY <1>2, <1>5, <1>6, <1>11 DEF ReadLogs, Phase, seats
<1>12. CASE ReadLogsOfRetired(q)
  BY <1>7, <1>12 DEF ReadLogsOfRetired, seats
<1>13. CASE QuarantineAfterKill(q) \/ EvictionFails(q)
  <2>1. Quarantine(task[q].gen) /\ Finishes(q)
        /\ UNCHANGED <<gen, home, launched, alive, peer, watch, attempt, pc, at, on, todo>>
    BY <1>13 DEF QuarantineAfterKill, EvictionFails
  <2> QED BY <1>7, <2>1 DEF Quarantine
<1>14. CASE EvictStalePeer(q)
  BY <1>2, <1>5, <1>6, <1>14 DEF EvictStalePeer, Phase, seats
<1>15. CASE FreeSlot(q)
  <2> DEFINE G == {task[q].gen} \cap Owned
  <2>1. /\ quar' = quar \ G /\ gen' = WithoutGens(G) /\ attempt' = WithoutAttempts(attempt, G)
        /\ Finishes(q) /\ UNCHANGED <<home, launched, alive, peer, watch, pc, at, on, todo>>
        /\ task[q].phase = "final"
    BY <1>15 DEF FreeSlot, Phase
  <2>2. G \in SUBSET Gens /\ G \cap alive' = {}
    BY <1>2, <2>1
  <2>3. attempt \in [Sessions -> Gens \cup {NoGen}]
    BY <1>1 DEF AttemptTypes
  <2>4. quar \ {task[q].gen} \subseteq quar'
    BY <2>1
  <2> HIDE DEF G
  <2>5. /\ gen' \in [Slots -> Gens \cup {NoGen}] /\ AttemptTypes'
        /\ Homes' /\ LiveGamesOwn' /\ Owned' = Owned \ G /\ Started' = Started
        /\ AttemptsAreCurrent'
    BY <2>1, <2>2, <2>3, ForgettingKeeps
  <2>6. task' = [task EXCEPT ![q] = NoTask] /\ waits' = [s \in Sessions |-> waits[s] \ {q}]
    BY <2>1 DEF Finishes
  <2>7. TaskTypes' /\ SoundTasks'
    BY <1>2, <1>4, <2>1, <2>4, <2>6, TaskMoves DEF watch
  <2>8. SeatTypes' /\ WatchTypes' /\ PeerTypes' /\ JoinTypes' /\ SoundJoins'
    BY <1>1, <2>1, <2>5, <2>6 DEF WatchTypes, PeerTypes, JoinTypes, SoundJoins, SeatTypes, watch
  <2>9. joined' \subseteq Started' /\ JoinedGameIsWatched'
    BY <1>1, <2>1, <2>5 DEF JoinedGameIsWatched, watch
  <2> QED BY <2>5, <2>7, <2>8, <2>9, TypesTogetherAfter DEF IInv
<1> QED BY <1>8, <1>9, <1>10, <1>11, <1>12, <1>13, <1>14, <1>15 DEF Cleanup

LEMMA NextInv == ASSUME IInv, [Next]_vars PROVE IInv'
<1>1. CASE UNCHANGED vars
  <2>1. UNCHANGED <<seats, peer, watch, task, attempt>> /\ JoinTypes' /\ SoundJoins'
    BY <1>1, TypesTogether DEF vars, seats, watch, IInv, JoinTypes, SoundJoins
  <2> QED BY <2>1, JoinOnly
<1>2. ASSUME NEW s \in Sessions, Browser(s) PROVE IInv'
  BY <1>2, StartingKeeps, AllocatingKeeps, BindingKeeps, WaitingKeeps, TeardownKeeps DEF Browser, JoinStep
<1>3. CASE Next
  BY <1>2, <1>3, ChildKeeps, TeardownKeeps, MonitorKeeps, CleaningKeeps DEF Next
<1> QED BY <1>1, <1>3

----------------------------------------------------------------------------
(* The theorems.                                                           *)

\* However joins, monitors, cleanups and teardown interleave, the invariant holds.
THEOREM Invariant == Spec => []IInv
BY InitInv, NextInv, PTL DEF Spec

\* The tables keep their types.
THEOREM TypeCorrect == Spec => []TypeOK
BY Invariant, PTL DEF IInv

\* _browserAttempts never names a connection that gave up its slot
\* (ForgetConnectionLocked).
THEOREM AttemptsStayCurrent == Spec => []AttemptsAreCurrent
BY Invariant, PTL DEF IInv

\* CleanupFailedConnectionAsync never runs for a healthy game.
THEOREM CleanupsHaveCauses == Spec => []CleanupHasACause
<1>1. IInv => CleanupHasACause
  BY DEF IInv, CleanupHasACause, SoundTasks, SoundTask, Busy, NoTask
<1> QED BY <1>1, Invariant, PTL

\* A game a viewer was sent to is watched by its monitor or has failed
\* (MonitorSharedConnectionAsync).
THEOREM JoinedGamesAreWatched == Spec => []JoinedGameIsWatched
BY Invariant, PTL DEF IInv

\* A cleanup that ends leaves its game dead, or quarantined.
THEOREM CleanupsEndSafely == Spec => CleanupEndsSafely
<1>1. IInv /\ [Next]_vars =>
        [\A q \in Slots : task[q].gen # NoGen /\ task'[q].gen = NoGen =>
            task[q].gen \notin alive' \/ task[q].gen \in quar']_vars
  <2> SUFFICES ASSUME IInv, Next, NEW q \in Slots, task[q].gen # NoGen, task'[q].gen = NoGen
               PROVE  task[q].gen \notin alive' \/ task[q].gen \in quar'
    OBVIOUS
  <2>1. SeatTypes /\ TaskTypes /\ Homes /\ LiveGamesOwn /\ SoundTask(q)
    BY TypesTogether DEF IInv, SoundTasks
  <2>2. task' # task
    OBVIOUS
  <2>3. ASSUME NEW g \in Gens, StopFailed(g) PROVE FALSE
    <3>1. task' = [task EXCEPT ![home[g]] = [gen |-> g, phase |-> "begin"]]
      BY <2>2, <2>3 DEF StopFailed, Registered
    <3> QED BY <2>1, <2>3, <3>1, NoGenIsNoGame DEF TaskTypes
  <2>4. ASSUME NEW r \in Slots, NEW phase, Moves(r, phase) PROVE FALSE
    BY <2>1, <2>4 DEF Moves, TaskTypes
  <2>5. ASSUME NEW r \in Slots, Finishes(r) PROVE r = q
    BY <2>1, <2>5 DEF Finishes, TaskTypes
  <2>6. CASE ReadLogsOfRetired(q)
    BY <2>1, <2>6 DEF ReadLogsOfRetired, LiveGamesOwn, Current, seats
  <2>7. CASE QuarantineAfterKill(q)
    BY <2>1, <2>7 DEF QuarantineAfterKill, Quarantine, LiveGamesOwn, Current
  <2>8. CASE EvictionFails(q)
    BY <2>1, <2>8 DEF EvictionFails, Quarantine, LiveGamesOwn, Current
  <2>9. CASE FreeSlot(q)
    BY <2>1, <2>9 DEF FreeSlot, SoundTask, Phase, NoTask
  <2>10. ASSUME NEW r \in Slots, Cleanup(r) PROVE task[q].gen \notin alive' \/ task[q].gen \in quar'
    BY <2>4, <2>5, <2>6, <2>7, <2>8, <2>9, <2>10
       DEF Cleanup, CleanupBegins, GraceEnds, Kill, ReadLogs, ReadLogsOfRetired, QuarantineAfterKill,
           EvictStalePeer, EvictionFails, FreeSlot
  <2>11. ASSUME NEW s \in Sessions, Browser(s) PROVE FALSE
    <3>1. \A g \in Gens : ~StopFailed(g)
      BY <2>3
    <3>2. JoinTypes /\ AttemptTypes
      BY TypesTogether DEF IInv
    <3>3. CASE StopExited(s)
      BY <3>1, <3>2, <3>3 DEF StopExited, StopsAndAwaits, JoinTypes
    <3>4. CASE Bind(s)
      <4>1. at[s] \in Slots
        BY <3>4 DEF Bind, IInv, SoundJoins
      <4>2. gen[at[s]] # NoGen => gen[at[s]] \in Gens
        BY <2>1, <4>1 DEF SeatTypes
      <4> QED BY <2>2, <3>1, <3>4, <4>2 DEF Bind, StopsAndAwaits
    <3>5. CASE WaitFails(s) \/ WaitExpires(s)
      <4>1. on[s] \in Owned
        BY <3>5 DEF WaitFails, WaitExpires, Current
      <4>2. on[s] \in Gens
        BY <2>1, <4>1, OwnedGame
      <4> QED BY <3>1, <3>5, <4>2 DEF WaitFails, WaitExpires, StopsAndAwaits
    <3>6. CASE BrowserCloses(s)
      <4>1. attempt[s] \in Gens
        BY <3>2, <3>6 DEF BrowserCloses, AttemptTypes
      <4> QED BY <2>2, <3>1, <3>6, <4>1 DEF BrowserCloses, StopsAndAwaits
    <3>7. CASE \/ JoinStarts(s) \/ GatePasses(s) \/ Allocate(s) \/ WaitRetired(s) \/ WaitSucceeds(s)
               \/ StopAwaited(s) \/ AwaitThrows(s) \/ JoinCancelled(s) \/ BrowserGone(s)
      BY <2>2, <3>7 DEF JoinStarts, GatePasses, Allocate, JoinRefused, ShareGame, LaunchGame, WaitRetired,
                        WaitSucceeds, StopAwaited, AwaitThrows, JoinCancelled, BrowserGone
    <3> QED BY <2>11, <3>3, <3>4, <3>5, <3>6, <3>7 DEF Browser, JoinStep
  <2>12. CASE Child \/ Host \/ \E g \in Gens : Monitor(g)
    BY <2>2, <2>3, <2>12 DEF Child, ProcessExits, ChildConnects, PeerLeaves, ChildReportsFailure, RelayFails,
                             Host, EndHosting, ReapSeat, Monitor, MonitorEnds, MonitorStops
  <2> QED BY <2>10, <2>11, <2>12 DEF Next
<1> QED BY <1>1, Invariant, PTL DEF Spec, CleanupEndsSafely

----------------------------------------------------------------------------
(* The refinement: the tasks implement the ownership of seats.             *)

LEMMA GivesUp ==
    ASSUME NEW G \in SUBSET Gens, G \cap (alive \cup quar) = {}, gen' = WithoutGens(G),
           UNCHANGED <<alive, quar, peer, launched>>
    PROVE  Ownership!GiveUp
<1> DEFINE S == {q \in Slots : gen[q] \in G}
<1>1. Ownership!Idle(S)
  BY NoGenIsNoGame DEF Ownership!Idle, Ownership!NoGen, NoGen
<1>2. gen' = Ownership!Without(S)
  BY DEF WithoutGens, Ownership!Without, Ownership!NoGen, NoGen
<1> QED BY <1>1, <1>2 DEF Ownership!GiveUp

LEMMA ShutsDown ==
    ASSUME IInv, NEW S, NEW stuck \in SUBSET Slots, S \subseteq Slots, NEW kept, ShutDown(S, stuck, kept),
           peer' = peer
    PROVE  Ownership!Stop
<1> DEFINE G == {gen[q] : q \in S \ stuck} \ {NoGen}
           O == {q \in S \ stuck : gen[q] # NoGen}
<1>1. SeatTypes /\ Homes
  BY TypesTogether DEF IInv
<1>2. /\ gen' = WithoutGens(G) /\ alive' = alive \ G /\ quar' = quar \cup {gen[q] : q \in stuck}
      /\ launched' = launched /\ G \cap quar = {} /\ \A q \in stuck : gen[q] \in alive \cup quar
  BY DEF ShutDown
<1>3. \A q \in stuck : gen[q] # NoGen
  BY <1>1, <1>2, NoGenIsNoGame DEF SeatTypes
<1>4. \A q \in Slots : gen[q] \in G <=> q \in O
  BY <1>1 DEF Homes
<1>5. gen' = Ownership!Without(O)
  BY <1>2, <1>4 DEF WithoutGens, Ownership!Without, Ownership!NoGen, NoGen
<1>6. alive' = alive \ {gen[q] : q \in O}
  BY <1>2
<1>7. quar' = quar \cup {gen[q] : q \in stuck \ O}
  BY <1>2
<1>8. \A q \in O : gen[q] \notin quar
  BY <1>2
<1>9. /\ O \in SUBSET {q \in Slots : gen[q] # Ownership!NoGen}
      /\ stuck \in SUBSET {q \in Slots : gen[q] # Ownership!NoGen}
  BY <1>3 DEF Ownership!NoGen, NoGen
<1> HIDE DEF G, O
<1> QED BY <1>2, <1>5, <1>6, <1>7, <1>8, <1>9 DEF Ownership!Stop

LEMMA Quarantines ==
    ASSUME IInv, NEW g, Quarantine(g), UNCHANGED <<gen, alive, peer, launched>>
    PROVE  Ownership!Stop \/ quar' = quar
<1>1. CASE ~Current(g)
  BY <1>1 DEF Quarantine
<1>2. CASE Current(g)
  <2>1. PICK q \in Slots : gen[q] = g /\ gen[q] # NoGen
    BY <1>2 DEF Current, Owned
  <2>2. quar' = quar \cup {gen[r] : r \in {q} \ {}}
    BY <1>2, <2>1 DEF Quarantine
  <2>3. gen' = Ownership!Without({})
    BY TypesTogether DEF IInv, SeatTypes, Ownership!Without
  <2>4. /\ {} \in SUBSET {r \in Slots : gen[r] # Ownership!NoGen}
        /\ {q} \in SUBSET {r \in Slots : gen[r] # Ownership!NoGen}
        /\ alive' = alive \ {gen[r] : r \in {}}
        /\ \A r \in {} : gen[r] \notin quar
    BY <2>1 DEF Ownership!NoGen, NoGen
  <2>5. UNCHANGED <<peer, launched>>
    OBVIOUS
  <2> QED BY <2>2, <2>3, <2>4, <2>5 DEF Ownership!Stop
<1> QED BY <1>1, <1>2

\* A step of the abstract ownership, or none.
OwnershipStep == Ownership!Next \/ UNCHANGED <<gen, alive, quar, peer, launched>>

LEMMA StepImplements ==
    ASSUME IInv, Next
    PROVE  OwnershipStep
<1>1. SeatTypes /\ PeerTypes /\ Homes /\ LiveGamesOwn /\ AttemptsAreCurrent /\ AttemptTypes
  BY TypesTogether DEF IInv
<1> USE DEF seats
<1>2. Ownership!GiveUp \/ Ownership!Stop \/ Ownership!Exit \/ Ownership!Peers => OwnershipStep
  BY DEF OwnershipStep, Ownership!Next
<1>3. ASSUME NEW q \in Slots, Ownership!Start(q) \/ Ownership!Clean(q) PROVE OwnershipStep
  BY <1>3 DEF OwnershipStep, Ownership!Next
<1>4. ASSUME UNCHANGED <<gen, alive, quar, peer, launched>> PROVE OwnershipStep
  BY <1>4 DEF OwnershipStep
<1>5. ASSUME NEW q \in Slots, UNCHANGED <<gen, alive, quar, launched>>,
             peer' = [peer EXCEPT ![q] = NoGen]
      PROVE  Ownership!Peers
  BY <1>5 DEF Ownership!Peers, Ownership!NoGen, NoGen
<1>6. CASE Child
  <2>1. CASE ProcessExits
    BY <1>2, <2>1 DEF ProcessExits, Ownership!Exit
  <2>2. ASSUME NEW q \in Slots, ChildConnects(q) PROVE OwnershipStep
    <3>1. /\ peer[q] = Ownership!NoGen /\ gen[q] \in alive /\ peer' = [peer EXCEPT ![q] = gen[q]]
          /\ UNCHANGED <<gen, alive, quar, launched>>
      BY <2>2 DEF ChildConnects, Ownership!NoGen, NoGen
    <3> QED BY <1>2, <3>1 DEF Ownership!Peers
  <2>3. ASSUME NEW q \in Slots, PeerLeaves(q) PROVE OwnershipStep
    BY <1>2, <1>5, <2>3 DEF PeerLeaves
  <2>4. ASSUME NEW g \in Gens, ChildReportsFailure(g) \/ RelayFails(g) PROVE OwnershipStep
    BY <1>4, <2>4 DEF ChildReportsFailure, RelayFails
  <2> QED BY <1>6, <2>1, <2>2, <2>3, <2>4 DEF Child
<1>7. ASSUME NEW s \in Sessions, Allocate(s) PROVE OwnershipStep
  <2>1. Reaped \in SUBSET Gens /\ Reaped \cap (alive \cup quar) = {}
    BY <1>1, OwnedGame DEF Reaped, Exited
  <2>2. CASE JoinRefused(s)
    <3>1. Ownership!GiveUp
      BY <2>1, <2>2, GivesUp DEF JoinRefused
    <3> QED BY <1>2, <3>1
  <2>3. ASSUME NEW q \in Slots, ShareGame(s, q) PROVE OwnershipStep
    <3>1. Ownership!GiveUp
      BY <2>1, <2>3, GivesUp DEF ShareGame
    <3> QED BY <1>2, <3>1
  <2>4. ASSUME NEW q \in Slots, LaunchGame(s, q) PROVE OwnershipStep
    <3> DEFINE S == {r \in Slots : gen[r] \in Reaped}
    <3>1. /\ WithoutGens(Reaped)[q] = NoGen /\ launched + 1 \in Gens /\ launched' = launched + 1
          /\ gen' = [WithoutGens(Reaped) EXCEPT ![q] = launched + 1]
          /\ alive' = alive \cup {launched + 1} /\ peer' \in {peer, [peer EXCEPT ![q] = NoGen]} /\ quar' = quar
      BY <2>4 DEF LaunchGame
    <3>2. Ownership!Idle(S)
      BY <2>1, NoGenIsNoGame DEF Ownership!Idle, Ownership!NoGen, NoGen
    <3>3. WithoutGens(Reaped) = Ownership!Without(S)
      BY DEF WithoutGens, Ownership!Without, Ownership!NoGen, NoGen
    <3>4. launched < MaxGenerations
      BY <1>1, <3>1, GenerationsAssumption DEF SeatTypes, Gens
    <3> HIDE DEF S
    <3>5. S \in SUBSET Slots
      BY DEF S
    <3>6. /\ Ownership!Without(S)[q] = Ownership!NoGen
          /\ gen' = [Ownership!Without(S) EXCEPT ![q] = launched'] /\ alive' = alive \cup {launched'}
          /\ (peer' = peer \/ peer' = [peer EXCEPT ![q] = Ownership!NoGen])
      BY <3>1, <3>3 DEF Ownership!NoGen, NoGen
    <3>7. Ownership!Start(q)
      BY <3>1, <3>2, <3>4, <3>5, <3>6 DEF Ownership!Start
    <3> QED BY <1>3, <3>7
  <2> QED BY <1>7, <2>2, <2>3, <2>4 DEF Allocate
<1>8. ASSUME NEW s \in Sessions, BrowserGone(s) PROVE OwnershipStep
  <2>1. CASE UNCHANGED seats
    BY <1>4, <1>8, <2>1 DEF BrowserGone
  <2>2. CASE ~UNCHANGED seats
    <3> DEFINE kept == [attempt EXCEPT ![s] = NoGen]
    <3>1. /\ attempt[s] # NoGen /\ peer' = peer
          /\ \E stuck \in SUBSET {home[attempt[s]]} : ShutDown({home[attempt[s]]}, stuck, kept)
      BY <1>8, <2>2 DEF BrowserGone
    <3>2. PICK stuck \in SUBSET {home[attempt[s]]} : ShutDown({home[attempt[s]]}, stuck, kept)
      BY <3>1
    <3>3. home[attempt[s]] \in Slots
      BY <1>1, <3>1, OwnedGame DEF AttemptsAreCurrent, Current
    <3> HIDE DEF kept
    <3>4. Ownership!Stop
      BY <3>1, <3>2, <3>3, ShutsDown
    <3> QED BY <1>2, <3>4
  <2> QED BY <2>1, <2>2
<1>9. CASE Host
  <2>1. CASE EndHosting
    <3> DEFINE none == [s \in Sessions |-> NoGen]
    <3>1. PICK stuck \in SUBSET {q \in Slots : gen[q] # NoGen} : ShutDown(Slots, stuck, none)
      BY <2>1 DEF EndHosting
    <3>2. peer' = peer
      BY <2>1 DEF EndHosting
    <3> HIDE DEF none
    <3>3. Ownership!Stop
      BY <3>1, <3>2, ShutsDown
    <3> QED BY <1>2, <3>3
  <2>2. ASSUME NEW q \in Slots, ReapSeat(q) PROVE OwnershipStep
    <3>1. PICK stuck \in SUBSET {q} : ShutDown({q}, stuck, attempt)
      BY <2>2 DEF ReapSeat
    <3>2. peer' = peer
      BY <2>2 DEF ReapSeat
    <3>3. Ownership!Stop
      BY <3>1, <3>2, ShutsDown
    <3> QED BY <1>2, <3>3
  <2> QED BY <1>9, <2>1, <2>2 DEF Host
<1>10. ASSUME NEW s \in Sessions, Browser(s), ~Allocate(s), ~BrowserGone(s) PROVE OwnershipStep
  <2>1. UNCHANGED <<gen, alive, quar, peer, launched>>
    BY <1>10 DEF Browser, JoinStep, JoinStarts, GatePasses, StopExited, Bind, WaitRetired, WaitFails,
                 WaitExpires, WaitSucceeds, StopAwaited, AwaitThrows, JoinCancelled, BrowserCloses
  <2> QED BY <1>4, <2>1
<1>11. ASSUME NEW g \in Gens, Monitor(g) PROVE OwnershipStep
  BY <1>4, <1>11 DEF Monitor, MonitorEnds, MonitorStops
<1>12. ASSUME NEW q \in Slots, Cleanup(q) PROVE OwnershipStep
  <2>1. CASE CleanupBegins(q) \/ GraceEnds(q) \/ ReadLogs(q) \/ ReadLogsOfRetired(q)
    BY <1>4, <2>1 DEF CleanupBegins, GraceEnds, ReadLogs, ReadLogsOfRetired
  <2>2. CASE Kill(q)
    <3>1. task[q].gen \in alive /\ UNCHANGED <<gen, quar, peer, launched>>
      BY <2>2 DEF Kill, Exited
    <3>2. CASE alive' = alive
      BY <1>4, <3>1, <3>2
    <3>3. CASE alive' = alive \ {task[q].gen}
      BY <1>2, <3>1, <3>3 DEF Ownership!Exit
    <3> QED BY <2>2, <3>2, <3>3 DEF Kill
  <2>3. CASE QuarantineAfterKill(q) \/ EvictionFails(q)
    <3>1. PICK g : g = task[q].gen
      OBVIOUS
    <3>2. Quarantine(g) /\ UNCHANGED <<gen, alive, peer, launched>>
      BY <2>3, <3>1 DEF QuarantineAfterKill, EvictionFails
    <3> QED BY <1>2, <1>4, <3>2, Quarantines
  <2>4. CASE EvictStalePeer(q)
    BY <1>2, <1>5, <2>4 DEF EvictStalePeer
  <2>5. CASE FreeSlot(q)
    <3>1. PICK g : g = task[q].gen
      OBVIOUS
    <3>2. /\ quar' = quar \ ({g} \cap Owned) /\ gen' = WithoutGens({g} \cap Owned)
          /\ UNCHANGED <<alive, peer, launched>> /\ task[q].phase = "final"
      BY <2>5, <3>1 DEF FreeSlot, Phase
    <3>3. CASE g \notin Owned
      <4>1. {g} \cap Owned = {}
        BY <3>3
      <4>2. gen' = gen /\ quar' = quar
        BY <1>1, <3>2, <4>1 DEF WithoutGens, SeatTypes
      <4> QED BY <1>4, <3>2, <4>2
    <3>4. CASE g \in Owned
      <4>1. {g} \cap Owned = {g}
        BY <3>4
      <4>2. g \in Gens /\ home[g] = q /\ gen[q] = g /\ g \notin alive /\ peer[q] # g
        <5>1. SoundTask(q)
          BY DEF IInv, SoundTasks
        <5>2. home[g] = q /\ g \notin alive /\ peer[q] # g
          BY <3>1, <3>2, <5>1 DEF SoundTask, NoTask
        <5> QED BY <1>1, <3>4, <5>2, OwnedGame
      <4>3. \A r \in Slots : gen[r] = g <=> r = q
        BY <1>1, <4>2, NoGenIsNoGame DEF Homes
      <4>4. gen' = Ownership!Without({q})
        BY <3>2, <4>1, <4>3 DEF WithoutGens, Ownership!Without, Ownership!NoGen, NoGen
      <4>5. Ownership!Clean(q)
        BY <3>2, <4>1, <4>2, <4>4, NoGenIsNoGame DEF Ownership!Clean, Ownership!NoGen, NoGen
      <4> QED BY <1>3, <4>5
    <3> QED BY <3>3, <3>4
  <2> QED BY <1>12, <2>1, <2>2, <2>3, <2>4, <2>5 DEF Cleanup
<1> QED BY <1>6, <1>7, <1>8, <1>9, <1>10, <1>11, <1>12 DEF Next

\* A seat is given up only once its game has exited, and a quarantined one only
\* once its peer is gone too.
THEOREM OwnershipKept == Spec => OwnershipIsKept
<1>1. Init => Ownership!Init
  BY DEF Init, Ownership!Init, Ownership!NoGen, NoGen
<1>2. IInv /\ [Next]_vars => [Ownership!Next]_(Ownership!vars)
  <2> SUFFICES ASSUME IInv, [Next]_vars PROVE [Ownership!Next]_(Ownership!vars)
    OBVIOUS
  <2>1. CASE UNCHANGED vars
    BY <2>1 DEF vars, Ownership!vars
  <2>2. CASE Next
    BY <2>2, StepImplements DEF OwnershipStep, Ownership!vars
  <2> QED BY <2>1, <2>2
<1> QED BY <1>1, <1>2, Invariant, PTL DEF Spec, OwnershipIsKept, Ownership!Spec
=============================================================================
