---------------------------- MODULE SceneStream ----------------------------
(* The scene stream of one viewer, both ends: the host connection's scene   *)
(* pump (CouchCoopWebSocketConnection, SceneDeltaCoalescer) and the         *)
(* browser's MirrorClient with the retained tree it applies deltas to.      *)
(*                                                                          *)
(* The host coalesces what the game changes into one pending update, spends *)
(* a single credit on each frame it sends and waits for the viewer to       *)
(* acknowledge the rendering; the viewer may shut and reopen the stream at  *)
(* any time, and the host's access monitor may withdraw it.                 *)
EXTENDS Integers, Sequences, FiniteSets, SequencesExt

CONSTANTS Nodes,       \* the scene's nodes
          Start,       \* those the scene has when the viewer connects
          MaxEdits,    \* bound: how often the game changes the scene
          MaxTurns     \* bound: how often the viewer flips the watch gate or the
                       \* host's access monitor changes its verdict

ASSUME BoundsAssumption ==
  /\ Start \subseteq Nodes /\ IsFiniteSet(Start)
  /\ MaxEdits \in Nat /\ MaxTurns \in Nat

Bit == {0, 1}
Omitted == 2   \* a field that an upsert leaves out

(* A node is its static block, its sticky part (intent frames, stroke) and  *)
(* what every upsert carries.                                               *)
Blank == [stat |-> Omitted, stick |-> Omitted, vol |-> Omitted]
Gone == Blank      \* of a tree: no such node
NotSent == Blank   \* of a frame: no upsert of the node
NoOrder == <<"none">>

VARIABLES
  scene,      \* the observer's retained map: Nodes -> Content or Gone
  order,      \* the draw order of the live nodes
  monitor,    \* HostBrowserAccessMonitor: [gen, reset, allowed]
  host,       \* the connection's watch and stream fields
  coal,       \* the coalescer: [full, up, rm, ord, last, pending]
  pump,       \* DrainSceneAsync: [pc, frame]
  refresh,    \* RefreshHostAccessAsync: who holds the gate and how far it is
  waiting,    \* refreshes at the gate: the monitor's tasks, the receive loop
  down, up,   \* the two directions of the socket
  client,     \* MirrorClient: gate, access, ledger; missed is history: a frame
              \* was dropped since the last full one
  tree,       \* state.nodes of the viewer
  drawn,      \* state.orderedIds of the viewer
  budget      \* [edits, turns] left of the bounds

vars == <<scene, order, monitor, host, coal, pump, refresh, waiting,
          down, up, client, tree, drawn, budget>>

NoPending == [full |-> FALSE, up |-> {}, stat |-> {}, stick |-> {}, rm |-> {},
              ord |-> NoOrder]
Reset == [pend |-> NoPending, last |-> NoOrder, pending |-> FALSE]
NoFrame == [gen |-> 0, epoch |-> 0, msg |-> [type |-> "nothing"]]
Idle == [pc |-> "idle", frame |-> NoFrame]
NoRefresh == [pc |-> "none", by |-> "none", gen |-> 0, epoch |-> 0, frame |-> NoFrame]

Allowed(g) == host.requested /\ monitor.allowed /\ monitor.gen = g
AllowsWork(g, e) == e = host.epoch /\ Allowed(g)
WantsSceneStream == host.streaming /\ AllowsWork(host.streamGen, host.streamEpoch)

Present == {n \in Nodes : scene[n] # Gone}

Init ==
  /\ scene = [n \in Nodes |-> IF n \in Start THEN [stat |-> 0, stick |-> 0, vol |-> 0] ELSE Gone]
  /\ order = SetToSeq(Present)
  /\ monitor = [gen |-> 1, reset |-> 0, allowed |-> TRUE]
  /\ \E on \in BOOLEAN :
       /\ host = [requested |-> on, epoch |-> 1, streaming |-> FALSE, ready |-> FALSE,
                  credit |-> TRUE, streamGen |-> 0, streamEpoch |-> 0]
       /\ client = [open |-> FALSE, watching |-> on, hostWatching |-> on,
                    access |-> [gen |-> 0, reset |-> 0, allowed |-> FALSE],
                    awaiting |-> TRUE, sceneGen |-> 0, owed |-> FALSE, missed |-> FALSE]
  /\ coal = Reset
  /\ pump = Idle
  /\ refresh = [NoRefresh EXCEPT !.pc = "start", !.by = "loop"]
  /\ waiting = [tasks |-> 0, loop |-> FALSE]
  /\ down = <<[type |-> "access", access |-> monitor]>>
  /\ up = <<>>
  /\ tree = [n \in Nodes |-> Gone]
  /\ drawn = <<>>
  /\ budget = [edits |-> MaxEdits, turns |-> MaxTurns]

-----------------------------------------------------------------------------
(* The coalescer *)

(* What the producer says of one node: removed, described in full, with a   *)
(* fresh sticky part, or only moved.                                        *)
Kinds == {"removed", "static", "sticky", "volatile"}

(* Mutant: an upsert of the window forgets what an earlier one needed. *)
FoldLatestWins(c, n, kind, ord) ==
  LET p == c.pend IN
  [c EXCEPT
    !.pending = TRUE,
    !.pend = IF kind = "removed"
             THEN [p EXCEPT !.up = @ \ {n}, !.stat = @ \ {n}, !.stick = @ \ {n},
                            !.rm = IF p.full THEN @ ELSE @ \cup {n}, !.ord = ord]
             ELSE [p EXCEPT !.up = @ \cup {n}, !.rm = @ \ {n},
                            !.stat = (@ \ {n}) \cup (IF kind = "static" THEN {n} ELSE {}),
                            !.stick = @ \cup (IF kind \in {"static", "sticky"} THEN {n} ELSE {}),
                            !.ord = IF ord = NoOrder THEN @ ELSE ord]]

Fold(c, n, kind, ord) ==
  LET p == c.pend IN
  [c EXCEPT
    !.pending = TRUE,
    !.pend = IF kind = "removed"
             THEN [p EXCEPT !.up = @ \ {n}, !.stat = @ \ {n}, !.stick = @ \ {n},
                            !.rm = IF p.full THEN @ ELSE @ \cup {n}, !.ord = ord]
             ELSE [p EXCEPT !.up = @ \cup {n}, !.rm = @ \ {n},
                            !.stat = @ \cup (IF kind = "static" THEN {n} ELSE {}),
                            !.stick = @ \cup (IF kind \in {"static", "sticky"} THEN {n} ELSE {}),
                            !.ord = IF ord = NoOrder THEN @ ELSE ord]]

(* The lean form of a node's current content. *)
Project(n, p) ==
  [stat |-> IF n \in p.stat THEN scene[n].stat ELSE Omitted,
   stick |-> IF n \in p.stick THEN scene[n].stick ELSE Omitted,
   vol |-> scene[n].vol]

Keyframe == [type |-> "scene", gen |-> host.streamGen, full |-> TRUE, nodes |-> scene, rm |-> {},
             ord |-> [kind |-> "array", base |-> <<>>, new |-> order]]

(* The frame Take makes of the pending ids; nodes it does not upsert are    *)
(* NotSent.  A structural change is a patch against the order last sent.       *)
Frame(c) ==
  LET p == c.pend IN
  IF p.full THEN Keyframe
  ELSE [type |-> "scene", gen |-> host.streamGen, full |-> FALSE,
        nodes |-> [n \in Nodes |-> IF n \in p.up /\ scene[n] # Gone THEN Project(n, p) ELSE NotSent],
        rm |-> p.rm,
        ord |-> CASE p.ord = NoOrder -> [kind |-> "none", base |-> <<>>, new |-> <<>>]
                  [] p.ord # NoOrder /\ c.last = NoOrder -> [kind |-> "array", base |-> <<>>, new |-> p.ord]
                  [] OTHER -> [kind |-> "patch", base |-> c.last, new |-> p.ord]]

Taken(c) ==
  [pend |-> NoPending, pending |-> c.pending,
   last |-> IF c.pend.full THEN order ELSE IF c.pend.ord = NoOrder THEN c.last ELSE c.pend.ord]

-----------------------------------------------------------------------------
(* The game *)

(* QueueSceneDelta, on the game's thread: a shut gate accumulates nothing;  *)
(* a lost acknowledgement is written off after half a second.               *)
QueueSceneDelta(n, kind, ord) ==
  IF ~WantsSceneStream THEN UNCHANGED <<coal, host, pump>>
  ELSE \E heal \in BOOLEAN :
    LET credit == host.credit \/ heal IN
    /\ coal' = Fold(coal, n, kind, ord)
    /\ host' = [host EXCEPT !.credit = credit]
    /\ pump' = IF host.ready /\ pump.pc = "idle" /\ credit
               THEN [pump EXCEPT !.pc = "take"] ELSE pump

Edit(n) ==
  /\ budget.edits > 0
  /\ budget' = [budget EXCEPT !.edits = @ - 1]
  /\ \/ /\ scene[n] = Gone
        /\ \E s \in Bit, front \in BOOLEAN :
             /\ scene' = [scene EXCEPT ![n] = [stat |-> s, stick |-> s, vol |-> 0]]
             /\ order' = IF front THEN <<n>> \o order ELSE Append(order, n)
             /\ QueueSceneDelta(n, "static", order')
     \/ /\ scene[n] # Gone
        /\ scene' = [scene EXCEPT ![n] = Gone]
        /\ \E i \in DOMAIN order : order[i] = n /\ order' = RemoveAt(order, i)
        /\ QueueSceneDelta(n, "removed", order')
     \/ /\ scene[n] # Gone
        /\ scene' = [scene EXCEPT ![n].vol = 1 - @]
        /\ UNCHANGED order
        /\ QueueSceneDelta(n, "volatile", NoOrder)
     \/ /\ scene[n] # Gone
        /\ scene' = [scene EXCEPT ![n].stick = 1 - @]
        /\ UNCHANGED order
        /\ QueueSceneDelta(n, "sticky", NoOrder)
  /\ UNCHANGED <<monitor, refresh, waiting, down, up, client, tree, drawn>>

TakesTurn == budget.turns > 0 /\ budget' = [budget EXCEPT !.turns = @ - 1]


AccessChanges ==
  /\ TakesTurn
  /\ \E allowed, hard \in BOOLEAN :
       /\ monitor.allowed => ~allowed
       /\ monitor' = [gen |-> monitor.gen + 1, allowed |-> allowed,
                      reset |-> monitor.reset + IF ~allowed /\ hard THEN 1 ELSE 0]
  /\ waiting' = IF host.requested THEN [waiting EXCEPT !.tasks = @ + 1] ELSE waiting
  /\ UNCHANGED <<scene, order, host, coal, pump, refresh, down, up, client, tree, drawn>>

-----------------------------------------------------------------------------
(* The pump *)

DrainTake ==
  /\ pump.pc = "take"
  /\ IF ~WantsSceneStream \/ ~host.ready \/ ~coal.pending \/ ~host.credit
     THEN pump' = Idle /\ UNCHANGED <<coal, host>>
     ELSE LET f == Frame(coal)
              empty == ~f.full /\ f.rm = {} /\ f.ord.kind = "none"
                       /\ \A n \in Nodes : f.nodes[n] = NotSent
          IN /\ coal' = [Taken(coal) EXCEPT !.pending = FALSE]
             /\ IF empty THEN UNCHANGED <<pump, host>>
                ELSE /\ pump' = [pc |-> "send",
                                 frame |-> [gen |-> host.streamGen, epoch |-> host.streamEpoch, msg |-> f]]
                     /\ host' = [host EXCEPT !.credit = FALSE]
  /\ UNCHANGED <<scene, order, monitor, refresh, waiting, down, up, client, tree, drawn, budget>>

(* Mutant: the frame is checked against the gate only. *)
MaySendUnfenced(g, e) == host.streaming

(* The last check is under the send gate: a retired frame does not leave.   *)
MaySend(g, e) ==
  /\ WantsSceneStream
  /\ g = host.streamGen
  /\ e = host.streamEpoch

SendScene(frame) ==
  down' = IF MaySend(frame.gen, frame.epoch)
          THEN Append(down, frame.msg)
          ELSE down

DrainSend ==
  /\ pump.pc = "send"
  /\ SendScene(pump.frame)
  /\ pump' = [pc |-> "take", frame |-> NoFrame]
  /\ UNCHANGED <<scene, order, monitor, host, coal, refresh, waiting, up, client, tree, drawn, budget>>

-----------------------------------------------------------------------------
(* RefreshHostAccessAsync: one at a time behind the transition gate.        *)

RefreshStarts ==
  /\ refresh.pc = "none"
  /\ \/ /\ waiting.tasks > 0
        /\ waiting' = [waiting EXCEPT !.tasks = @ - 1]
        /\ refresh' = [NoRefresh EXCEPT !.pc = "start", !.by = "task"]
     \/ /\ waiting.loop
        /\ waiting' = [waiting EXCEPT !.loop = FALSE]
        /\ refresh' = [NoRefresh EXCEPT !.pc = "start", !.by = "loop"]
  /\ UNCHANGED <<scene, order, monitor, host, coal, pump, down, up, client, tree, drawn, budget>>

StreamOff == [host EXCEPT !.streaming = FALSE, !.ready = FALSE]

RefreshReads ==
  /\ refresh.pc = "start"
  /\ refresh' = [refresh EXCEPT !.pc = "tell", !.gen = monitor.gen, !.epoch = host.epoch]
  /\ IF /\ host.streaming
        /\ \/ ~monitor.allowed
           \/ host.streamGen # monitor.gen
           \/ host.streamEpoch # host.epoch
           \/ ~host.requested
     THEN host' = StreamOff /\ coal' = Reset
     ELSE UNCHANGED <<host, coal>>
  /\ UNCHANGED <<scene, order, monitor, pump, waiting, down, up, client, tree, drawn, budget>>

RefreshTells ==
  /\ refresh.pc = "tell"
  /\ down' = Append(down, [type |-> "access", access |-> monitor])
  /\ refresh' = [refresh EXCEPT !.pc = IF Allowed(refresh.gen) THEN "on" ELSE "end"]
  /\ UNCHANGED <<scene, order, monitor, host, coal, pump, waiting, up, client, tree, drawn, budget>>

RefreshTurnsOn ==
  /\ refresh.pc = "on"
  /\ IF AllowsWork(refresh.gen, refresh.epoch) /\ ~host.streaming
     THEN /\ coal' = Reset
          /\ host' = [host EXCEPT !.credit = TRUE, !.ready = FALSE, !.streaming = TRUE,
                                  !.streamGen = refresh.gen, !.streamEpoch = refresh.epoch]
          /\ refresh' = [refresh EXCEPT !.pc = "build"]
     ELSE refresh' = [refresh EXCEPT !.pc = "end"] /\ UNCHANGED <<coal, host>>
  /\ UNCHANGED <<scene, order, monitor, pump, waiting, down, up, client, tree, drawn, budget>>

BuildKeyframe ==
  /\ refresh.pc = "build"
  /\ refresh' = [refresh EXCEPT !.pc = "keyframe",
                   !.frame = [gen |-> refresh.gen, epoch |-> refresh.epoch, msg |-> Keyframe]]
  /\ UNCHANGED <<scene, order, monitor, host, coal, pump, waiting, down, up, client, tree, drawn, budget>>

SendSceneKeyframe ==
  /\ refresh.pc = "keyframe"
  /\ SendScene(refresh.frame)
  /\ refresh' = [refresh EXCEPT !.pc = "release", !.frame = NoFrame]
  /\ UNCHANGED <<scene, order, monitor, host, coal, pump, waiting, up, client, tree, drawn, budget>>

EnableScenePump ==
  /\ refresh.pc = "release"
  /\ IF host.streaming
     THEN /\ host' = [host EXCEPT !.ready = TRUE]
          /\ pump' = IF coal.pending /\ pump.pc = "idle" /\ host.credit
                     THEN [pump EXCEPT !.pc = "take"] ELSE pump
     ELSE UNCHANGED <<host, pump>>
  /\ refresh' = [refresh EXCEPT !.pc = "end"]
  /\ UNCHANGED <<scene, order, monitor, coal, waiting, down, up, client, tree, drawn, budget>>

RefreshEnds ==
  /\ refresh.pc = "end"
  /\ refresh' = NoRefresh
  /\ UNCHANGED <<scene, order, monitor, host, coal, pump, waiting, down, up, client, tree, drawn, budget>>

(* The receive loop: it awaits the refresh a watch message starts, and so   *)
(* takes no other message meanwhile.                                        *)
Receiving == ~waiting.loop /\ refresh.by # "loop" /\ up # <<>>

ReceiveWatch ==
  /\ Receiving
  /\ Head(up).type = "watch"
  /\ up' = Tail(up)
  /\ host' = IF host.requested # Head(up).on
             THEN [host EXCEPT !.requested = Head(up).on, !.epoch = @ + 1] ELSE host
  /\ waiting' = [waiting EXCEPT !.loop = TRUE]
  /\ UNCHANGED <<scene, order, monitor, coal, pump, refresh, down, client, tree, drawn, budget>>

GrantSceneCredit ==
  /\ Receiving
  /\ Head(up).type = "scene-ack"
  /\ up' = Tail(up)
  /\ host' = [host EXCEPT !.credit = TRUE]
  /\ pump' = IF host.ready /\ coal.pending /\ pump.pc = "idle"
             THEN [pump EXCEPT !.pc = "take"] ELSE pump
  /\ UNCHANGED <<scene, order, monitor, coal, refresh, waiting, down, client, tree, drawn, budget>>

-----------------------------------------------------------------------------
(* The viewer *)

FlushWatch(c) ==
  IF ~c.open \/ c.hostWatching = c.watching
  THEN client' = c /\ UNCHANGED up
  ELSE /\ client' = [c EXCEPT !.hostWatching = c.watching]
       /\ up' = Append(up, [type |-> "watch", on |-> c.watching])

SocketOpens ==
  /\ ~client.open
  /\ FlushWatch([client EXCEPT !.open = TRUE])
  /\ UNCHANGED <<scene, order, monitor, host, coal, pump, refresh, waiting, down, tree, drawn, budget>>

(* Mutant: the flip keeps the old tree as the base of what comes next. *)
SendWatchKeepingTree ==
  /\ TakesTurn
  /\ FlushWatch([client EXCEPT !.watching = ~@, !.sceneGen = 0, !.owed = FALSE])
  /\ UNCHANGED <<scene, order, monitor, host, coal, pump, refresh, waiting, down, tree, drawn>>

(* sendWatch: the retained tree is an old scene's from here on. *)
SendWatch ==
  /\ TakesTurn
  /\ FlushWatch([client EXCEPT !.watching = ~@, !.awaiting = TRUE, !.sceneGen = 0, !.owed = FALSE])
  /\ UNCHANGED <<scene, order, monitor, host, coal, pump, refresh, waiting, down, tree, drawn>>

UpdateHostAccess(a) ==
  LET changed == a.gen # client.access.gen
      clear == a.reset # client.access.reset
  IN IF a.gen < client.access.gen THEN UNCHANGED <<client, tree, drawn>>
     ELSE /\ client' = [client EXCEPT !.access = a,
                 !.awaiting = @ \/ changed \/ clear \/ ~a.allowed,
                 !.sceneGen = IF changed \/ clear \/ ~a.allowed THEN 0 ELSE @,
                 !.owed = @ /\ ~(changed \/ clear \/ ~a.allowed)]
          /\ IF clear THEN tree' = [n \in Nodes |-> Gone] /\ drawn' = <<>>
             ELSE UNCHANGED <<tree, drawn>>

HostAccessArrives ==
  /\ client.open
  /\ down # <<>>
  /\ Head(down).type = "access"
  /\ down' = Tail(down)
  /\ UpdateHostAccess(Head(down).access)
  /\ UNCHANGED <<scene, order, monitor, host, coal, pump, refresh, waiting, up, budget>>

MergeNode(old, u) ==
  IF u.stat # Omitted \/ old = Gone THEN u
  ELSE [stat |-> old.stat, stick |-> IF u.stick = Omitted THEN old.stick ELSE u.stick, vol |-> u.vol]

(* A patch names what changed against its base; on another order it gives   *)
(* an order that is neither.                                                *)
ApplyOrderPatch(ord) ==
  CASE ord.kind = "none" -> drawn
    [] ord.kind = "array" -> ord.new
    [] ord.kind = "patch" -> IF drawn = ord.base THEN ord.new ELSE <<"scrambled">>

ApplySceneDelta(d) ==
  LET base == IF d.full THEN [n \in Nodes |-> Gone] ELSE tree IN
  /\ tree' = [n \in Nodes |->
       CASE d.nodes[n] # NotSent ->
              MergeNode(IF n \in d.rm THEN Gone ELSE base[n], d.nodes[n])
         [] OTHER -> IF n \in d.rm THEN Gone ELSE base[n]]
  /\ drawn' = ApplyOrderPatch(d.ord)

(* After a gap only a full scene starts the tree again. *)
Applies(d) == client.watching /\ client.access.allowed /\ (client.awaiting => d.full)

SceneDeltaArrives ==
  /\ client.open
  /\ down # <<>>
  /\ Head(down).type = "scene"
  /\ down' = Tail(down)
  /\ IF Applies(Head(down))
     THEN /\ client' = [client EXCEPT !.awaiting = FALSE, !.sceneGen = client.access.gen,
                                     !.owed = TRUE, !.missed = @ /\ ~Head(down).full]
          /\ ApplySceneDelta(Head(down))
     ELSE client' = [client EXCEPT !.missed = TRUE] /\ UNCHANGED <<tree, drawn>>
  /\ UNCHANGED <<scene, order, monitor, host, coal, pump, refresh, waiting, up, budget>>

(* A rendered frame pays for every delta applied since the last payment.    *)
SendSceneAck ==
  /\ client.open
  /\ client.access.allowed
  /\ client.owed /\ client.watching
  /\ client' = [client EXCEPT !.owed = FALSE]
  /\ up' = Append(up, [type |-> "scene-ack"])
  /\ UNCHANGED <<scene, order, monitor, host, coal, pump, refresh, waiting, down, tree, drawn, budget>>

System ==
  \/ DrainTake \/ DrainSend
  \/ RefreshStarts \/ RefreshReads \/ RefreshTells \/ RefreshTurnsOn
  \/ BuildKeyframe \/ SendSceneKeyframe \/ EnableScenePump \/ RefreshEnds
  \/ ReceiveWatch \/ GrantSceneCredit
  \/ SocketOpens \/ HostAccessArrives \/ SceneDeltaArrives \/ SendSceneAck

Next == (\E n \in Nodes : Edit(n)) \/ AccessChanges \/ SendWatch \/ System

Spec == Init /\ [][Next]_vars
LiveSpec == Spec /\ WF_vars(System)
-----------------------------------------------------------------------------
(* Properties *)

(* The types; a viewer never holds a node that lacks its static part.       *)
TypeOK ==
  /\ scene \in [Nodes -> [stat : Bit, stick : Bit, vol : Bit] \cup {Gone}]
  /\ ToSet(order) = Present /\ Len(order) = Cardinality(Present)
  /\ tree \in [Nodes -> [stat : Bit, stick : Bit, vol : Bit] \cup {Gone}]
  /\ client.open \in BOOLEAN /\ client.watching \in BOOLEAN
  /\ host.credit \in BOOLEAN /\ host.streamGen \in 0..(MaxTurns + 1)
  /\ pump.pc \in {"idle", "take", "send"}
  /\ refresh.by \in {"none", "loop", "task"}

(* No frame made under one access generation is applied under another: a    *)
(* protected screen's scene never reaches a tree the viewer may draw.       *)
AppliedSceneIsCurrent ==
  [][SceneDeltaArrives /\ Applies(Head(down))
       => Head(down).gen = client.access.gen]_vars

(* An incremental frame is never applied across a gap: whatever the viewer  *)
(* dropped while its gate was shut, a full scene comes before the next      *)
(* increment.                                                               *)
NoIncrementAcrossAGap ==
  [][SceneDeltaArrives /\ Applies(Head(down)) /\ client.missed => Head(down).full]_vars


=============================================================================
