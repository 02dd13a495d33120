------------------------- MODULE SceneStreamProofs -------------------------
(***************************************************************************)
(* Theorems about SceneStream, for any nodes and bounds: a frame is applied *)
(* only under the access generation it was made for, and never across a    *)
(* gap; and the types of both ends, of which the viewer's tree is the hard *)
(* one, since an update may leave out what the viewer is taken to have.    *)
(***************************************************************************)
EXTENDS SceneStream, SequenceTheorems, FunctionTheorems, FiniteSetTheorems, TLAPS

-----------------------------------------------------------------------------
(* Sequences                                                               *)

\* A sequence is one over its own elements, whatever they are.
IsQueue(s) == s \in Seq(ToSet(s))

LEMMA SequencesAreQueues ==
    ASSUME NEW S, NEW s \in Seq(S)
    PROVE  IsQueue(s)
<1>1. Len(s) \in Nat /\ s \in [1..Len(s) -> S] /\ DOMAIN s = 1..Len(s)
  BY LenProperties
<1>2. \A i \in 1..Len(s) : s[i] \in ToSet(s)
  BY <1>1 DEF ToSet
<1>3. s \in [1..Len(s) -> ToSet(s)]
  BY <1>1, <1>2
<1> QED BY <1>1, <1>3, SeqDef DEF IsQueue

\* What is appended comes last, and the rest stays where it is.
LEMMA Longer ==
    ASSUME NEW s, IsQueue(s), NEW m
    PROVE  /\ IsQueue(Append(s, m))
           /\ Len(s) \in Nat /\ Len(Append(s, m)) = Len(s) + 1
           /\ \A i \in 1..Len(s) : Append(s, m)[i] = s[i]
           /\ Append(s, m)[Len(s) + 1] = m
<1> DEFINE S == ToSet(s) \cup {m}
<1> DEFINE t == Append(s, m)
<1>1. s \in Seq(S)
  BY DEF IsQueue
<1> HIDE DEF S
<1>2. m \in S
  BY DEF S
<1>3. t \in Seq(S) /\ Len(t) = Len(s) + 1 /\ Len(s) \in Nat
  BY <1>1, <1>2
<1>4. \A i \in 1..Len(s) : t[i] = s[i]
  BY <1>1, <1>2
<1>5. t[Len(s) + 1] = m
  BY <1>1, <1>2
<1>6. IsQueue(t)
  BY <1>3, SequencesAreQueues
<1> QED BY <1>3, <1>4, <1>5, <1>6

LEMMA Shorter ==
    ASSUME NEW s, IsQueue(s), s # <<>>
    PROVE  /\ IsQueue(Tail(s))
           /\ Len(s) \in Nat /\ Len(s) >= 1 /\ Len(Tail(s)) = Len(s) - 1
           /\ \A i \in 1..Len(Tail(s)) : Tail(s)[i] = s[i + 1]
           /\ Head(s) = s[1]
<1> DEFINE S == ToSet(s)
<1>1. s \in Seq(S)
  BY DEF IsQueue
<1> HIDE DEF S
<1>2. Tail(s) \in Seq(S) /\ Len(s) \in Nat /\ Len(s) >= 1 /\ Len(Tail(s)) = Len(s) - 1
  BY <1>1
<1>3. \A i \in 1..Len(Tail(s)) : Tail(s)[i] = s[i + 1]
  BY <1>1
<1>4. Head(s) = s[1]
  BY <1>1
<1>5. IsQueue(Tail(s))
  BY <1>2, SequencesAreQueues
<1> QED BY <1>2, <1>3, <1>4, <1>5

-----------------------------------------------------------------------------
(* What is on its way to the viewer: c is the access generation it has      *)
(* applied, m the monitor's.                                               *)

IsAccess(x) == x.type = "access"

\* The viewer has been told of generation g or a later one.
Told(d, c, g) == c >= g \/ \E i \in 1..Len(d) : IsAccess(d[i]) /\ d[i].access.gen >= g

\* When the frame at i arrives, the viewer's generation will be the frame's own.
BehindItsAccess(d, c, i) ==
    /\ c <= d[i].gen
    /\ \A j \in 1..(i - 1) : IsAccess(d[j]) => d[j].access.gen <= d[i].gen
    /\ c = d[i].gen \/ \E j \in 1..(i - 1) : IsAccess(d[j]) /\ d[j].access.gen = d[i].gen

Fits(d, c, m) ==
    /\ IsQueue(d)
    /\ c \in Nat /\ m \in Nat /\ c <= m
    /\ \A i \in 1..Len(d) : d[i].type \in {"access", "scene"}
    /\ \A i \in 1..Len(d) : IsAccess(d[i]) => d[i].access.gen \in Nat /\ d[i].access.gen <= m
    /\ \A i \in 1..Len(d) : ~IsAccess(d[i]) => d[i].gen \in Nat /\ BehindItsAccess(d, c, i)

\* A verdict is sent: it is the monitor's own.
LEMMA AccessSent ==
    ASSUME NEW d, NEW c, NEW m, Fits(d, c, m), NEW x, IsAccess(x), x.access.gen = m
    PROVE  Fits(Append(d, x), c, m) /\ Told(Append(d, x), c, m)
<1> DEFINE e == Append(d, x)
<1>1. /\ IsQueue(e) /\ Len(d) \in Nat /\ Len(e) = Len(d) + 1
      /\ \A i \in 1..Len(d) : e[i] = d[i]
      /\ e[Len(d) + 1] = x
  BY Longer DEF Fits
<1> HIDE DEF e
<1>2. Fits(e, c, m)
  <2>1. \A i \in 1..Len(e) : i \in 1..Len(d) \/ i = Len(d) + 1
    BY <1>1
  <2>2. /\ \A i \in 1..Len(e) : e[i].type \in {"access", "scene"}
        /\ \A i \in 1..Len(e) : IsAccess(e[i]) => e[i].access.gen \in Nat /\ e[i].access.gen <= m
    BY <1>1, <2>1 DEF Fits, IsAccess
  <2>3. ASSUME NEW i \in 1..Len(e), ~IsAccess(e[i]) PROVE e[i].gen \in Nat /\ BehindItsAccess(e, c, i)
    <3>1. i \in 1..Len(d) /\ e[i] = d[i] /\ \A j \in 1..(i - 1) : j \in 1..Len(d) /\ e[j] = d[j]
      BY <1>1, <2>1, <2>3
    <3> QED BY <2>3, <3>1 DEF Fits, BehindItsAccess
  <2> QED BY <1>1, <2>2, <2>3 DEF Fits
<1>3. Told(e, c, m)
  BY <1>1 DEF Told, Fits
<1> QED BY <1>2, <1>3 DEF e

\* A frame is sent: it is of the monitor's generation, of which the viewer was told.
LEMMA FrameSent ==
    ASSUME NEW d, NEW c, NEW m, Fits(d, c, m), Told(d, c, m), NEW x, x.type = "scene", x.gen = m
    PROVE  Fits(Append(d, x), c, m)
<1> DEFINE e == Append(d, x)
<1>1. /\ IsQueue(e) /\ Len(d) \in Nat /\ Len(e) = Len(d) + 1
      /\ \A i \in 1..Len(d) : e[i] = d[i]
      /\ e[Len(d) + 1] = x
  BY Longer DEF Fits
<1> HIDE DEF e
<1>2. \A i \in 1..Len(e) : i \in 1..Len(d) \/ i = Len(d) + 1
  BY <1>1
<1>3. /\ \A i \in 1..Len(e) : e[i].type \in {"access", "scene"}
      /\ \A i \in 1..Len(e) : IsAccess(e[i]) => e[i].access.gen \in Nat /\ e[i].access.gen <= m
  BY <1>1, <1>2 DEF Fits, IsAccess
<1>4. ASSUME NEW i \in 1..Len(d), ~IsAccess(e[i]) PROVE e[i].gen \in Nat /\ BehindItsAccess(e, c, i)
  <2>1. e[i] = d[i] /\ \A j \in 1..(i - 1) : j \in 1..Len(d) /\ e[j] = d[j]
    BY <1>1
  <2> QED BY <1>4, <2>1 DEF Fits, BehindItsAccess
<1>5. e[Len(d) + 1].gen \in Nat /\ BehindItsAccess(e, c, Len(d) + 1)
  <2>1. e[Len(d) + 1].gen = m /\ c \in Nat /\ m \in Nat /\ c <= m
    BY <1>1 DEF Fits
  <2>2. \A j \in 1..Len(d) : e[j] = d[j] /\ (IsAccess(d[j]) => d[j].access.gen \in Nat /\ d[j].access.gen <= m)
    BY <1>1 DEF Fits
  <2>3. c = m \/ \E j \in 1..Len(d) : IsAccess(d[j]) /\ d[j].access.gen = m
    BY <2>1, <2>2 DEF Told
  <2>4. Len(d) + 1 - 1 = Len(d)
    BY <1>1
  <2> QED BY <2>1, <2>2, <2>3, <2>4 DEF BehindItsAccess
<1>6. Fits(e, c, m)
  BY <1>1, <1>2, <1>3, <1>4, <1>5 DEF Fits
<1> QED BY <1>6 DEF e

\* The head is taken off: a verdict is applied unless the viewer has a later one.
LEMMA HeadTaken ==
    ASSUME NEW d, NEW c, NEW m, Fits(d, c, m), d # <<>>, NEW k,
           IF IsAccess(Head(d)) /\ Head(d).access.gen >= c THEN k = Head(d).access.gen ELSE k = c
    PROVE  /\ Fits(Tail(d), k, m)
           /\ \A g \in Nat : Told(d, c, g) => Told(Tail(d), k, g)
           /\ ~IsAccess(Head(d)) => Head(d).gen = c
<1> DEFINE e == Tail(d)
<1>1. /\ IsQueue(e) /\ Len(d) \in Nat /\ Len(d) >= 1 /\ Len(e) = Len(d) - 1
      /\ \A i \in 1..Len(e) : e[i] = d[i + 1]
      /\ Head(d) = d[1] /\ 1 \in 1..Len(d)
  BY Shorter DEF Fits
<1> HIDE DEF e
<1>2. /\ c \in Nat /\ m \in Nat /\ k \in Nat /\ c <= k /\ k <= m
      /\ IsAccess(d[1]) => d[1].access.gen \in Nat /\ d[1].access.gen <= k /\ (k = c \/ k = d[1].access.gen)
      /\ ~IsAccess(d[1]) => k = c
  <2>1. c \in Nat /\ m \in Nat /\ c <= m
    BY DEF Fits
  <2>2. IsAccess(d[1]) => d[1].access.gen \in Nat /\ d[1].access.gen <= m
    BY <1>1 DEF Fits
  <2>3. IF IsAccess(d[1]) /\ d[1].access.gen >= c THEN k = d[1].access.gen ELSE k = c
    BY <1>1
  <2> QED BY <2>1, <2>2, <2>3
<1>3. /\ \A i \in 1..Len(e) : e[i].type \in {"access", "scene"}
      /\ \A i \in 1..Len(e) : IsAccess(e[i]) => e[i].access.gen \in Nat /\ e[i].access.gen <= m
  <2>1. \A i \in 1..Len(e) : i + 1 \in 1..Len(d) /\ e[i] = d[i + 1]
    BY <1>1
  <2> QED BY <2>1 DEF Fits
<1>4. ASSUME NEW i \in 1..Len(e), ~IsAccess(e[i]) PROVE e[i].gen \in Nat /\ BehindItsAccess(e, k, i)
  <2>1. i + 1 \in 1..Len(d) /\ e[i] = d[i + 1]
    BY <1>1
  <2>2. d[i + 1].gen \in Nat /\ BehindItsAccess(d, c, i + 1)
    BY <1>4, <2>1 DEF Fits
  <2>3. /\ c <= d[i + 1].gen
        /\ \A j \in 1..i : IsAccess(d[j]) => d[j].access.gen <= d[i + 1].gen
        /\ c = d[i + 1].gen \/ \E j \in 1..i : IsAccess(d[j]) /\ d[j].access.gen = d[i + 1].gen
    <3>1. i + 1 - 1 = i
      OBVIOUS
    <3> QED BY <2>2, <3>1 DEF BehindItsAccess
  <2>4. 1 \in 1..i /\ \A j \in 1..(i - 1) : j + 1 \in 1..i /\ j \in 1..Len(e) /\ e[j] = d[j + 1]
    BY <1>1
  <2>5. k <= d[i + 1].gen
    BY <1>2, <2>2, <2>3, <2>4
  <2>6. \A j \in 1..(i - 1) : IsAccess(e[j]) => e[j].access.gen <= e[i].gen
    BY <2>1, <2>3, <2>4
  <2>7. k = e[i].gen \/ \E j \in 1..(i - 1) : IsAccess(e[j]) /\ e[j].access.gen = e[i].gen
    <3>1. CASE c = d[i + 1].gen
      BY <1>2, <2>1, <2>2, <2>5, <3>1
    <3>2. CASE \E j \in 1..i : IsAccess(d[j]) /\ d[j].access.gen = d[i + 1].gen
      <4>1. PICK j \in 1..i : IsAccess(d[j]) /\ d[j].access.gen = d[i + 1].gen
        BY <3>2
      <4>2. CASE j = 1
        BY <1>2, <2>1, <2>2, <2>5, <4>1, <4>2
      <4>3. CASE j # 1
        <5>1. j - 1 \in 1..(i - 1) /\ j - 1 + 1 = j
          BY <4>3
        <5> QED BY <2>1, <2>4, <4>1, <5>1
      <4> QED BY <4>2, <4>3
    <3> QED BY <2>3, <3>1, <3>2
  <2> QED BY <2>1, <2>2, <2>5, <2>6, <2>7 DEF BehindItsAccess
<1>5. Fits(e, k, m)
  BY <1>1, <1>2, <1>3, <1>4 DEF Fits
<1>6. ASSUME NEW g \in Nat, Told(d, c, g) PROVE Told(e, k, g)
  <2>1. CASE c >= g
    BY <1>2, <2>1 DEF Told
  <2>2. CASE \E i \in 1..Len(d) : IsAccess(d[i]) /\ d[i].access.gen >= g
    <3>1. PICK i \in 1..Len(d) : IsAccess(d[i]) /\ d[i].access.gen >= g
      BY <2>2
    <3>2. CASE i = 1
      BY <1>2, <3>1, <3>2 DEF Told
    <3>3. CASE i # 1
      <4>1. i - 1 \in 1..Len(e) /\ i - 1 + 1 = i
        BY <1>1, <3>3
      <4>2. e[i - 1] = d[i]
        BY <1>1, <4>1
      <4> QED BY <3>1, <4>1, <4>2 DEF Told
    <3> QED BY <3>2, <3>3
  <2> QED BY <1>6, <2>1, <2>2 DEF Told
<1>7. ~IsAccess(d[1]) => d[1].gen = c
  BY <1>1 DEF Fits, BehindItsAccess
<1> QED BY <1>1, <1>5, <1>6, <1>7 DEF e

-----------------------------------------------------------------------------
(* The invariant                                                           *)

Shapes ==
    /\ DOMAIN client = {"open", "watching", "hostWatching", "access", "awaiting", "sceneGen", "owed", "missed"}
    /\ DOMAIN host = {"requested", "epoch", "streaming", "ready", "credit", "streamGen", "streamEpoch"}
    /\ DOMAIN refresh = {"pc", "by", "gen", "epoch", "frame"}
    /\ DOMAIN pump = {"pc", "frame"}
    /\ monitor.gen \in Nat /\ refresh.gen \in Nat /\ host.streamGen \in Nat

\* A viewer that drops frames waits for a full one.
GapsAreKnown == ~client.watching \/ ~client.access.allowed \/ client.missed => client.awaiting

\* A frame that waits to be sent is labelled with its own generation.
Labelled(x) == x.msg.type = "scene" /\ x.msg.gen = x.gen
FramesAreLabelled ==
    /\ pump.pc = "send" => Labelled(pump.frame)
    /\ refresh.pc = "build" => host.streamGen = refresh.gen
    /\ refresh.pc = "keyframe" => Labelled(refresh.frame)

\* The stream is on only after the viewer was told of its generation.
StreamIsTold ==
    /\ host.streaming => Told(down, client.access.gen, host.streamGen)
    /\ refresh.pc = "on" => Told(down, client.access.gen, refresh.gen)

IInv ==
    /\ Shapes /\ GapsAreKnown /\ FramesAreLabelled /\ StreamIsTold
    /\ Fits(down, client.access.gen, monitor.gen)

LEMMA ToldStays ==
    ASSUME NEW d, IsQueue(d), NEW c, NEW g, Told(d, c, g), NEW x
    PROVE  Told(Append(d, x), c, g)
<1> DEFINE e == Append(d, x)
<1>1. Len(d) \in Nat /\ Len(e) = Len(d) + 1 /\ \A i \in 1..Len(d) : e[i] = d[i]
  BY Longer
<1> HIDE DEF e
<1>2. Told(e, c, g)
  BY <1>1 DEF Told
<1> QED BY <1>2 DEF e

\* A frame that may be sent is of the monitor's generation.
LEMMA SceneSent ==
    ASSUME IInv, NEW f, Labelled(f), SendScene(f)
    PROVE  /\ Fits(down', client.access.gen, monitor.gen)
           /\ \A g \in Nat : Told(down, client.access.gen, g) => Told(down', client.access.gen, g)
<1>1. CASE MaySend(f.gen, f.epoch)
  <2>1. f.msg.type = "scene" /\ f.msg.gen = monitor.gen /\ Told(down, client.access.gen, monitor.gen)
    BY <1>1 DEF IInv, Labelled, StreamIsTold, MaySend, WantsSceneStream, AllowsWork, Allowed
  <2>2. down' = Append(down, f.msg)
    BY <1>1 DEF SendScene
  <2>3. PICK c, m, x : c = client.access.gen /\ m = monitor.gen /\ x = f.msg
    OBVIOUS
  <2>4. Fits(down, c, m) /\ Told(down, c, m) /\ x.type = "scene" /\ x.gen = m
    BY <2>1, <2>3 DEF IInv
  <2>5. Fits(Append(down, x), c, m)
    BY <2>4, FrameSent
  <2>6. \A g \in Nat : Told(down, c, g) => Told(Append(down, x), c, g)
    BY <2>4, ToldStays DEF Fits
  <2> QED BY <2>2, <2>3, <2>5, <2>6
<1>2. CASE ~MaySend(f.gen, f.epoch)
  BY <1>2 DEF SendScene, IInv
<1> QED BY <1>1, <1>2

LEMMA InitHolds == Init => IInv
<1> SUFFICES ASSUME Init PROVE IInv
  OBVIOUS
<1>1. Shapes /\ GapsAreKnown /\ FramesAreLabelled /\ StreamIsTold
  BY DEF Init, Shapes, GapsAreKnown, FramesAreLabelled, StreamIsTold, Idle, NoRefresh
<1>2. PICK x : x = [type |-> "access", access |-> monitor]
  OBVIOUS
<1>3. down = <<x>> /\ IsAccess(x) /\ x.access.gen = 1 /\ x.type = "access"
  <2>1. x.type = "access" /\ x.access = monitor
    BY <1>2
  <2>2. down = <<x>> /\ monitor.gen = 1
    BY <1>2 DEF Init
  <2> QED BY <2>1, <2>2 DEF IsAccess
<1>4. IsQueue(down)
  <2>1. <<x>> \in Seq({x})
    OBVIOUS
  <2> QED BY <1>3, <2>1, SequencesAreQueues
<1>5. Len(down) = 1 /\ down[1] = x
  BY <1>3
<1>6. client.access.gen = 0 /\ monitor.gen = 1
  BY DEF Init
<1>7. Fits(down, client.access.gen, monitor.gen)
  BY <1>3, <1>4, <1>5, <1>6 DEF Fits
<1> QED BY <1>1, <1>7 DEF IInv

LEMMA ShapesHold ==
    ASSUME IInv, Next
    PROVE  Shapes'
<1> USE DEF IInv
<1>1. ASSUME NEW n \in Nodes, Edit(n) PROVE Shapes'
  <2>1. UNCHANGED <<monitor, refresh, client>>
    BY <1>1 DEF Edit
  <2>2. ASSUME NEW kind, NEW ord, QueueSceneDelta(n, kind, ord)
        PROVE  DOMAIN host' = DOMAIN host /\ host'.streamGen = host.streamGen /\ DOMAIN pump' = DOMAIN pump
    BY <2>2 DEF QueueSceneDelta, Shapes
  <2>3. DOMAIN host' = DOMAIN host /\ host'.streamGen = host.streamGen /\ DOMAIN pump' = DOMAIN pump
    <3>1. PICK o : o = order'
      OBVIOUS
    <3> QED BY <1>1, <2>2, <3>1 DEF Edit
  <2> QED BY <2>1, <2>3 DEF Shapes
<1>2. CASE AccessChanges
  BY <1>2 DEF AccessChanges, Shapes
<1>3. CASE SendWatch
  BY <1>3 DEF SendWatch, FlushWatch, Shapes
<1>4. CASE DrainTake \/ DrainSend
  BY <1>4 DEF DrainTake, DrainSend, Shapes, Idle
<1>5. CASE RefreshStarts \/ RefreshReads \/ RefreshTells \/ RefreshEnds
  <2>1. DOMAIN NoRefresh = {"pc", "by", "gen", "epoch", "frame"} /\ NoRefresh.gen = 0
    BY DEF NoRefresh
  <2>2. CASE RefreshStarts
    <3>1. PICK r : r = NoRefresh
      OBVIOUS
    <3>2. \E w \in {"task", "loop"} : refresh' = [r EXCEPT !.pc = "start", !.by = w]
      BY <2>2, <3>1 DEF RefreshStarts
    <3>3. DOMAIN refresh' = DOMAIN r /\ refresh'.gen = r.gen
      BY <2>1, <3>1, <3>2
    <3> QED BY <2>1, <2>2, <3>1, <3>3 DEF RefreshStarts, Shapes
  <2>3. CASE RefreshReads
    BY <2>3 DEF RefreshReads, StreamOff, Shapes
  <2>4. CASE RefreshTells
    BY <2>4 DEF RefreshTells, Shapes
  <2>5. CASE RefreshEnds
    BY <2>1, <2>5 DEF RefreshEnds, Shapes
  <2> QED BY <1>5, <2>2, <2>3, <2>4, <2>5
<1>6. CASE RefreshTurnsOn \/ BuildKeyframe \/ SendSceneKeyframe \/ EnableScenePump
  BY <1>6 DEF RefreshTurnsOn, BuildKeyframe, SendSceneKeyframe, EnableScenePump, Shapes
<1>7. CASE ReceiveWatch \/ GrantSceneCredit
  BY <1>7 DEF ReceiveWatch, GrantSceneCredit, Shapes
<1>8. CASE SocketOpens
  BY <1>8 DEF SocketOpens, FlushWatch, Shapes
<1>9. CASE HostAccessArrives
  BY <1>9 DEF HostAccessArrives, UpdateHostAccess, Shapes
<1>10. CASE SceneDeltaArrives \/ SendSceneAck
  BY <1>10 DEF SceneDeltaArrives, SendSceneAck, Shapes
<1> QED BY <1>1, <1>2, <1>3, <1>4, <1>5, <1>6, <1>7, <1>8, <1>9, <1>10 DEF Next, System

LEMMA GapsHold ==
    ASSUME IInv, Next
    PROVE  GapsAreKnown'
<1>1. CASE UNCHANGED client
  BY <1>1 DEF IInv, GapsAreKnown
<1>2. CASE SendWatch
  BY <1>2 DEF SendWatch, FlushWatch, IInv, Shapes, GapsAreKnown
<1>3. CASE SocketOpens
  BY <1>3 DEF SocketOpens, FlushWatch, IInv, Shapes, GapsAreKnown
<1>4. CASE HostAccessArrives
  <2>1. PICK a : a = Head(down).access
    OBVIOUS
  <2>2. CASE a.gen < client.access.gen
    BY <1>1, <1>4, <2>1, <2>2 DEF HostAccessArrives, UpdateHostAccess
  <2>3. CASE ~(a.gen < client.access.gen)
    <3>1. PICK changed, clear : changed = (a.gen # client.access.gen) /\ clear = (a.reset # client.access.reset)
      OBVIOUS
    <3>2. /\ client'.access = a /\ client'.watching = client.watching /\ client'.missed = client.missed
          /\ client'.awaiting = (client.awaiting \/ changed \/ clear \/ ~a.allowed)
      <4>1. DOMAIN client = {"open", "watching", "hostWatching", "access", "awaiting", "sceneGen", "owed", "missed"}
        BY DEF IInv, Shapes
      <4> QED BY <1>4, <2>1, <2>3, <3>1, <4>1 DEF HostAccessArrives, UpdateHostAccess
    <3> QED BY <3>2 DEF IInv, GapsAreKnown
  <2> QED BY <2>2, <2>3
<1>5. CASE SceneDeltaArrives
  <2>1. CASE Applies(Head(down))
    BY <1>5, <2>1 DEF SceneDeltaArrives, Applies, IInv, Shapes, GapsAreKnown
  <2>2. CASE ~Applies(Head(down))
    BY <1>5, <2>2 DEF SceneDeltaArrives, Applies, IInv, Shapes, GapsAreKnown
  <2> QED BY <2>1, <2>2
<1>6. CASE SendSceneAck
  BY <1>6 DEF SendSceneAck, IInv, Shapes, GapsAreKnown
<1>7. ASSUME NEW n \in Nodes, Edit(n) PROVE UNCHANGED client
  BY <1>7 DEF Edit
<1>8. CASE AccessChanges
  BY <1>1, <1>8 DEF AccessChanges
<1>9. ASSUME System, ~SocketOpens, ~HostAccessArrives, ~SceneDeltaArrives, ~SendSceneAck
      PROVE  UNCHANGED client
  BY <1>9 DEF System, DrainTake, DrainSend, RefreshStarts, RefreshReads, RefreshTells, RefreshTurnsOn, BuildKeyframe,
              SendSceneKeyframe, EnableScenePump, RefreshEnds, ReceiveWatch, GrantSceneCredit
<1> QED BY <1>1, <1>2, <1>3, <1>4, <1>5, <1>6, <1>7, <1>8, <1>9 DEF Next

LEMMA KeyframeIsLabelled ==
    ASSUME NEW x, NEW e, x = [gen |-> host.streamGen, epoch |-> e, msg |-> Keyframe]
    PROVE  Labelled(x)
BY DEF Labelled, Keyframe

\* A change of the scene touches neither the frames under way nor the stream's
\* generation.
LEMMA EditKeepsTheFrames ==
    ASSUME IInv, NEW n \in Nodes, Edit(n)
    PROVE  /\ UNCHANGED <<monitor, refresh, down, client>>
           /\ host'.streamGen = host.streamGen /\ host'.streaming = host.streaming
           /\ pump' = pump \/ pump'.pc = "take"
<1>1. UNCHANGED <<monitor, refresh, down, client>>
  BY DEF Edit
<1>2. ASSUME NEW kind, NEW ord, QueueSceneDelta(n, kind, ord)
      PROVE  /\ host'.streamGen = host.streamGen /\ host'.streaming = host.streaming
             /\ pump' = pump \/ pump'.pc = "take"
  BY <1>2 DEF QueueSceneDelta, IInv, Shapes
<1>3. PICK o : o = order'
  OBVIOUS
<1> QED BY <1>1, <1>2, <1>3 DEF Edit

LEMMA FramesHold ==
    ASSUME IInv, Next
    PROVE  FramesAreLabelled'
<1> USE DEF IInv
<1>1. ASSUME NEW n \in Nodes, Edit(n) PROVE FramesAreLabelled'
  BY <1>1, EditKeepsTheFrames DEF FramesAreLabelled, Labelled
<1>2. CASE UNCHANGED <<pump, refresh, host>>
  BY <1>2 DEF FramesAreLabelled, Labelled
<1>3. CASE AccessChanges \/ SendWatch
  BY <1>2, <1>3 DEF AccessChanges, SendWatch
<1>4. CASE DrainTake
  <2>1. UNCHANGED refresh /\ host'.streamGen = host.streamGen
    BY <1>4 DEF DrainTake, Shapes
  <2>2. pump' = pump \/ pump' = Idle \/ (pump'.pc = "send" /\ Labelled(pump'.frame))
    <3>1. PICK f : f = Frame(coal)
      OBVIOUS
    <3>2. f.type = "scene" /\ f.gen = host.streamGen
      BY <3>1 DEF Frame, Keyframe
    <3>3. \/ pump' = pump \/ pump' = Idle
          \/ pump' = [pc |-> "send", frame |-> [gen |-> host.streamGen, epoch |-> host.streamEpoch, msg |-> f]]
      BY <1>4, <3>1 DEF DrainTake
    <3> QED BY <3>2, <3>3 DEF Labelled
  <2> QED BY <1>4, <2>1, <2>2 DEF DrainTake, Idle, FramesAreLabelled, Labelled
<1>5. CASE DrainSend
  BY <1>5 DEF DrainSend, FramesAreLabelled, Labelled
<1>6. CASE RefreshStarts
  <2>1. DOMAIN NoRefresh = {"pc", "by", "gen", "epoch", "frame"}
    BY DEF NoRefresh
  <2>2. PICK r : r = NoRefresh
    OBVIOUS
  <2>3. \E w \in {"task", "loop"} : refresh' = [r EXCEPT !.pc = "start", !.by = w]
    BY <1>6, <2>2 DEF RefreshStarts
  <2>4. refresh'.pc = "start"
    BY <2>1, <2>2, <2>3
  <2> QED BY <1>6, <2>4 DEF RefreshStarts, FramesAreLabelled, Labelled
<1>7. CASE RefreshReads
  <2>1. refresh'.pc = "tell" /\ UNCHANGED pump
    BY <1>7 DEF RefreshReads, Shapes
  <2> QED BY <2>1 DEF FramesAreLabelled, Labelled
<1>8. CASE RefreshTells
  <2>1. refresh'.pc \in {"on", "end"} /\ UNCHANGED pump
    BY <1>8 DEF RefreshTells, Shapes
  <2> QED BY <2>1 DEF FramesAreLabelled, Labelled
<1>9. CASE RefreshTurnsOn
  <2>1. /\ UNCHANGED pump
        /\ refresh'.pc = "end" \/ (refresh'.pc = "build" /\ host'.streamGen = refresh'.gen)
    BY <1>9 DEF RefreshTurnsOn, Shapes
  <2> QED BY <2>1 DEF FramesAreLabelled, Labelled
<1>10. CASE BuildKeyframe
  <2>1. PICK x : x = [gen |-> host.streamGen, epoch |-> refresh.epoch, msg |-> Keyframe]
    OBVIOUS
  <2>2. Labelled(x)
    BY <2>1, KeyframeIsLabelled
  <2>3. UNCHANGED pump /\ refresh'.pc = "keyframe" /\ refresh'.frame = x
    BY <1>10, <2>1 DEF BuildKeyframe, FramesAreLabelled, Shapes
  <2> QED BY <2>2, <2>3 DEF FramesAreLabelled, Labelled
<1>11. CASE SendSceneKeyframe
  <2>1. UNCHANGED pump /\ refresh'.pc = "release"
    BY <1>11 DEF SendSceneKeyframe, Shapes
  <2> QED BY <2>1 DEF FramesAreLabelled, Labelled
<1>12. CASE EnableScenePump
  <2>1. refresh'.pc = "end" /\ (pump' = pump \/ pump'.pc = "take")
    BY <1>12 DEF EnableScenePump, Shapes
  <2> QED BY <2>1 DEF FramesAreLabelled, Labelled
<1>13. CASE RefreshEnds
  <2>1. refresh'.pc = "none" /\ UNCHANGED pump
    BY <1>13 DEF RefreshEnds, NoRefresh
  <2> QED BY <2>1 DEF FramesAreLabelled, Labelled
<1>14. CASE ReceiveWatch
  <2>1. UNCHANGED <<pump, refresh>> /\ host'.streamGen = host.streamGen
    BY <1>14 DEF ReceiveWatch, Shapes
  <2> QED BY <2>1 DEF FramesAreLabelled, Labelled
<1>15. CASE GrantSceneCredit
  <2>1. UNCHANGED refresh /\ host'.streamGen = host.streamGen /\ (pump' = pump \/ pump'.pc = "take")
    BY <1>15 DEF GrantSceneCredit, Shapes
  <2> QED BY <2>1 DEF FramesAreLabelled, Labelled
<1>16. CASE SocketOpens \/ HostAccessArrives \/ SceneDeltaArrives \/ SendSceneAck
  BY <1>2, <1>16 DEF SocketOpens, HostAccessArrives, SceneDeltaArrives, SendSceneAck
<1> QED BY <1>1, <1>3, <1>4, <1>5, <1>6, <1>7, <1>8, <1>9, <1>10, <1>11, <1>12, <1>13, <1>14, <1>15, <1>16 DEF Next, System

\* The queue and what it tells.
QueueIsTold == Fits(down, client.access.gen, monitor.gen) /\ StreamIsTold

LEMMA QueueHolds ==
    ASSUME IInv, Next
    PROVE  QueueIsTold'
<1>1. ASSUME UNCHANGED <<monitor, down>>, client'.access = client.access,
             host'.streaming => host.streaming /\ host'.streamGen = host.streamGen,
             refresh'.pc = "on" => refresh.pc = "on" /\ refresh'.gen = refresh.gen
      PROVE  QueueIsTold'
  BY <1>1 DEF IInv, StreamIsTold, QueueIsTold
<1>2. ASSUME NEW n \in Nodes, Edit(n) PROVE QueueIsTold'
  BY <1>1, <1>2, EditKeepsTheFrames
<1>3. CASE AccessChanges
  <2>1. UNCHANGED <<down, client, host, refresh>> /\ monitor'.gen = monitor.gen + 1
    BY <1>3 DEF AccessChanges
  <2>2. Fits(down, client.access.gen, monitor.gen + 1)
    BY DEF IInv, Fits
  <2> QED BY <2>1, <2>2 DEF IInv, StreamIsTold, QueueIsTold
<1>4. CASE SendWatch \/ SocketOpens \/ SendSceneAck
  <2>1. client'.access = client.access
    BY <1>4 DEF SendWatch, SocketOpens, SendSceneAck, FlushWatch, IInv, Shapes
  <2> QED BY <1>1, <1>4, <2>1 DEF SendWatch, SocketOpens, SendSceneAck
<1>5. CASE DrainTake
  <2>1. host'.streaming = host.streaming /\ host'.streamGen = host.streamGen
    BY <1>5 DEF DrainTake, IInv, Shapes
  <2> QED BY <1>1, <1>5, <2>1 DEF DrainTake
<1>6. ASSUME NEW f, Labelled(f), SendScene(f), UNCHANGED <<monitor, client, host>>, refresh'.pc # "on" \/ refresh' = refresh
      PROVE  QueueIsTold'
  <2>1. /\ Fits(down', client.access.gen, monitor.gen)
        /\ \A g \in Nat : Told(down, client.access.gen, g) => Told(down', client.access.gen, g)
    BY <1>6, SceneSent
  <2>2. host.streamGen \in Nat /\ refresh.gen \in Nat
    BY DEF IInv, Shapes
  <2> QED BY <1>6, <2>1, <2>2 DEF IInv, StreamIsTold, QueueIsTold
<1>7. CASE DrainSend
  <2>1. PICK f : f = pump.frame
    OBVIOUS
  <2>2. Labelled(f) /\ SendScene(f) /\ UNCHANGED <<monitor, client, host, refresh>>
    BY <1>7, <2>1 DEF DrainSend, IInv, FramesAreLabelled
  <2> QED BY <1>6, <2>2
<1>8. CASE SendSceneKeyframe
  <2>1. PICK f : f = refresh.frame
    OBVIOUS
  <2>2. Labelled(f) /\ SendScene(f) /\ UNCHANGED <<monitor, client, host>> /\ refresh'.pc = "release"
    BY <1>8, <2>1 DEF SendSceneKeyframe, IInv, FramesAreLabelled, Shapes
  <2> QED BY <1>6, <2>2
<1>9. CASE RefreshStarts
  <2>1. DOMAIN NoRefresh = {"pc", "by", "gen", "epoch", "frame"}
    BY DEF NoRefresh
  <2>2. PICK r : r = NoRefresh
    OBVIOUS
  <2>3. \E w \in {"task", "loop"} : refresh' = [r EXCEPT !.pc = "start", !.by = w]
    BY <1>9, <2>2 DEF RefreshStarts
  <2>4. refresh'.pc = "start"
    BY <2>1, <2>2, <2>3
  <2> QED BY <1>1, <1>9, <2>4 DEF RefreshStarts
<1>10. CASE RefreshReads
  <2>1. refresh'.pc = "tell" /\ (host' = host \/ host'.streaming = FALSE)
    BY <1>10 DEF RefreshReads, StreamOff, IInv, Shapes
  <2> QED BY <1>1, <1>10, <2>1 DEF RefreshReads
<1>11. CASE RefreshTells
  <2>1. PICK c, m, x : c = client.access.gen /\ m = monitor.gen /\ x = [type |-> "access", access |-> monitor]
    OBVIOUS
  <2>2. x.type = "access" /\ x.access = monitor
    BY <2>1
  <2>3. Fits(down, c, m) /\ IsAccess(x) /\ x.access.gen = m
    BY <2>1, <2>2 DEF IInv, IsAccess
  <2>4. Fits(Append(down, x), c, m) /\ Told(Append(down, x), c, m)
    BY <2>3, AccessSent
  <2>5. \A g \in Nat : Told(down, c, g) => Told(Append(down, x), c, g)
    BY <2>3, ToldStays DEF Fits
  <2>6. down' = Append(down, x) /\ UNCHANGED <<host, client, monitor>>
    BY <1>11, <2>1 DEF RefreshTells
  <2>7. refresh'.pc = "on" => refresh'.gen = m
    BY <1>11, <2>1 DEF RefreshTells, IInv, Shapes, Allowed
  <2>8. host.streamGen \in Nat
    BY DEF IInv, Shapes
  <2>9. host.streaming => Told(down', c, host.streamGen)
    BY <2>1, <2>5, <2>6, <2>8 DEF IInv, StreamIsTold
  <2> QED BY <2>1, <2>4, <2>6, <2>7, <2>9 DEF QueueIsTold, StreamIsTold
<1>12. CASE RefreshTurnsOn
  <2>1. UNCHANGED <<monitor, down, client>> /\ refresh'.pc # "on"
    BY <1>12 DEF RefreshTurnsOn, IInv, Shapes
  <2>2. host' = host \/ host'.streamGen = refresh.gen
    BY <1>12 DEF RefreshTurnsOn, IInv, Shapes
  <2>3. refresh.pc = "on"
    BY <1>12 DEF RefreshTurnsOn
  <2> QED BY <2>1, <2>2, <2>3 DEF IInv, StreamIsTold, QueueIsTold
<1>13. CASE BuildKeyframe \/ RefreshEnds
  <2>1. NoRefresh.pc = "none"
    BY DEF NoRefresh
  <2>2. refresh'.pc # "on"
    BY <1>13, <2>1 DEF BuildKeyframe, RefreshEnds, IInv, Shapes
  <2> QED BY <1>1, <1>13, <2>2 DEF BuildKeyframe, RefreshEnds
<1>14. CASE EnableScenePump
  <2>1. refresh'.pc # "on" /\ host'.streaming = host.streaming /\ host'.streamGen = host.streamGen
    BY <1>14 DEF EnableScenePump, IInv, Shapes
  <2> QED BY <1>1, <1>14, <2>1 DEF EnableScenePump
<1>15. CASE ReceiveWatch \/ GrantSceneCredit
  <2>1. host'.streaming = host.streaming /\ host'.streamGen = host.streamGen
    BY <1>15 DEF ReceiveWatch, GrantSceneCredit, IInv, Shapes
  <2> QED BY <1>1, <1>15, <2>1 DEF ReceiveWatch, GrantSceneCredit
<1>16. ASSUME down # <<>>, down' = Tail(down), UNCHANGED <<monitor, host, refresh>>,
              IF IsAccess(Head(down)) /\ Head(down).access.gen >= client.access.gen
              THEN client'.access.gen = Head(down).access.gen ELSE client'.access.gen = client.access.gen
       PROVE  QueueIsTold'
  <2>1. PICK c, m, k : c = client.access.gen /\ m = monitor.gen /\ k = client'.access.gen
    OBVIOUS
  <2>2. Fits(down, c, m)
    BY <2>1 DEF IInv
  <2>3. Fits(Tail(down), k, m) /\ \A g \in Nat : Told(down, c, g) => Told(Tail(down), k, g)
    BY <1>16, <2>1, <2>2, HeadTaken
  <2>4. host.streamGen \in Nat /\ refresh.gen \in Nat
    BY DEF IInv, Shapes
  <2> QED BY <1>16, <2>1, <2>3, <2>4 DEF IInv, StreamIsTold, QueueIsTold
<1>17. CASE HostAccessArrives
  <2>1. PICK a : a = Head(down).access
    OBVIOUS
  <2>2. /\ down # <<>> /\ down' = Tail(down) /\ UNCHANGED <<monitor, host, refresh>> /\ IsAccess(Head(down))
        /\ UpdateHostAccess(a)
    BY <1>17, <2>1 DEF HostAccessArrives, IsAccess
  <2>3. a.gen \in Nat /\ client.access.gen \in Nat
    <3>1. PICK c, m : c = client.access.gen /\ m = monitor.gen
      OBVIOUS
    <3>2. Fits(down, c, m)
      BY <3>1 DEF IInv
    <3>3. Head(down) = down[1] /\ 1 \in 1..Len(down)
      BY <2>2, <3>2, Shorter DEF Fits
    <3> QED BY <2>1, <2>2, <3>1, <3>2, <3>3 DEF Fits
  <2>4. IF a.gen >= client.access.gen THEN client'.access.gen = a.gen ELSE client'.access.gen = client.access.gen
    <3>1. CASE a.gen < client.access.gen
      BY <2>2, <2>3, <3>1 DEF UpdateHostAccess
    <3>2. CASE ~(a.gen < client.access.gen)
      <4>1. PICK x, y, z : client' = [client EXCEPT !.access = a, !.awaiting = x, !.sceneGen = y, !.owed = z]
        <5>1. PICK changed, clear : changed = (a.gen # client.access.gen) /\ clear = (a.reset # client.access.reset)
          OBVIOUS
        <5>2. client' = [client EXCEPT !.access = a,
                           !.awaiting = client.awaiting \/ changed \/ clear \/ ~a.allowed,
                           !.sceneGen = IF changed \/ clear \/ ~a.allowed THEN 0 ELSE client.sceneGen,
                           !.owed = client.owed /\ ~(changed \/ clear \/ ~a.allowed)]
          BY <2>2, <3>2, <5>1, Zenon DEF UpdateHostAccess
        <5> QED BY <5>2, Zenon
      <4>2. client'.access = a
        BY <4>1 DEF IInv, Shapes
      <4> QED BY <2>3, <3>2, <4>2
    <3> QED BY <3>1, <3>2
  <2> QED BY <1>16, <2>1, <2>2, <2>4
<1>18. CASE SceneDeltaArrives
  <2>1. down # <<>> /\ down' = Tail(down) /\ UNCHANGED <<monitor, host, refresh>> /\ ~IsAccess(Head(down))
    BY <1>18 DEF SceneDeltaArrives, IsAccess
  <2>2. client'.access = client.access
    BY <1>18 DEF SceneDeltaArrives, IInv, Shapes
  <2> QED BY <1>16, <2>1, <2>2
<1> QED BY <1>2, <1>3, <1>4, <1>5, <1>7, <1>8, <1>9, <1>10, <1>11, <1>12, <1>13, <1>14, <1>15, <1>17, <1>18 DEF Next, System

\* What the two theorems rest on.
THEOREM Invariant == Spec => []IInv
<1>1. Init => IInv
  BY InitHolds
<1>2. IInv /\ [Next]_vars => IInv'
  <2> SUFFICES ASSUME IInv, [Next]_vars PROVE IInv'
    OBVIOUS
  <2>1. CASE Next
    BY <2>1, ShapesHold, GapsHold, FramesHold, QueueHolds DEF QueueIsTold, IInv
  <2>2. CASE UNCHANGED vars
    BY <2>2 DEF vars, IInv, Shapes, GapsAreKnown, FramesAreLabelled, Labelled, StreamIsTold
  <2> QED BY <2>1, <2>2
<1> QED BY <1>1, <1>2, PTL DEF Spec

\* No frame made under one access generation is applied under another.
THEOREM FramesAreOfTheirAccess == Spec => AppliedSceneIsCurrent
<1>1. IInv /\ SceneDeltaArrives /\ Applies(Head(down)) => Head(down).gen = client.access.gen
  <2> SUFFICES ASSUME IInv, SceneDeltaArrives PROVE Head(down).gen = client.access.gen
    OBVIOUS
  <2>1. PICK c, m : c = client.access.gen /\ m = monitor.gen
    OBVIOUS
  <2>2. Fits(down, c, m) /\ down # <<>> /\ ~IsAccess(Head(down))
    BY <2>1 DEF IInv, SceneDeltaArrives, IsAccess
  <2> QED BY <2>1, <2>2, HeadTaken
<1>2. IInv /\ [Next]_vars =>
        [SceneDeltaArrives /\ Applies(Head(down)) => Head(down).gen = client.access.gen]_vars
  BY <1>1
<1> QED BY <1>2, Invariant, PTL DEF Spec, AppliedSceneIsCurrent

\* An incremental frame is never applied across a gap.
THEOREM GapsEndWithAFullScene == Spec => NoIncrementAcrossAGap
<1>1. IInv /\ SceneDeltaArrives /\ Applies(Head(down)) /\ client.missed => Head(down).full
  BY DEF IInv, GapsAreKnown, Applies
<1>2. IInv /\ [Next]_vars =>
        [SceneDeltaArrives /\ Applies(Head(down)) /\ client.missed => Head(down).full]_vars
  BY <1>1
<1> QED BY <1>2, Invariant, PTL DEF Spec, NoIncrementAcrossAGap

-----------------------------------------------------------------------------
(* What the viewer's tree will hold: the frames on their way, in order.     *)
(* An increment may leave out what is static of a node, and then the tree   *)
(* must have the node by the time the frame is applied.                     *)

Content == [stat : Bit, stick : Bit, vol : Bit]
Moved == [stat : {Omitted}, stick : Bit \cup {Omitted}, vol : Bit]

Upserts(f, n) == f.nodes[n] # NotSent
Lean(f, n) == Upserts(f, n) /\ f.nodes[n].stat = Omitted
Supplies(f, n) == Upserts(f, n) /\ f.nodes[n].stat # Omitted
Drops(f, n) == ~Upserts(f, n) /\ (f.full \/ n \in f.rm)

WellMade(f) ==
    /\ f.type = "scene" /\ f.full \in BOOLEAN
    /\ \A n \in Nodes : Upserts(f, n) => n \notin f.rm
    /\ \A n \in Nodes : \/ f.nodes[n] = NotSent \/ f.nodes[n] \in Content
                        \/ ~f.full /\ f.nodes[n] \in Moved

\* The same of any message.
Full(x) == x.type = "scene" /\ x.full
Gives(x, n) == x.type = "scene" /\ Supplies(x, n)
Removes(x, n) == x.type = "scene" /\ Drops(x, n)

\* When message i of d arrives, node n is in the tree of a viewer that applies
\* it: has says whether the tree has n now, awaiting whether the viewer skips
\* what comes before the next full scene.
Carried(d, i, n, awaiting, has) ==
    \/ awaiting /\ \A j \in 1..(i - 1) : ~Full(d[j])
    \/ has /\ \A j \in 1..(i - 1) : ~Removes(d[j], n)
    \/ \E j \in 1..(i - 1) : Gives(d[j], n) /\ \A k \in (j + 1)..(i - 1) : ~Removes(d[k], n)

AtTheEnd(d, n, awaiting, has) == Carried(d, Len(d) + 1, n, awaiting, has)

Chained(d, awaiting, t) ==
    \A i \in 1..Len(d) : d[i].type = "scene" =>
        /\ WellMade(d[i])
        /\ \A n \in Nodes : Lean(d[i], n) => Carried(d, i, n, awaiting, t[n] # Gone)

\* A node that a full scene does not drop is in it.
LEMMA FullScenesSupply ==
    ASSUME NEW x, x.type = "scene" => WellMade(x), NEW n \in Nodes, Full(x), ~Removes(x, n)
    PROVE  Gives(x, n)
<1>1. x.type = "scene" /\ WellMade(x) /\ x.full /\ Upserts(x, n)
  BY DEF Full, Removes, Drops
<1>2. x.nodes[n] \in Content
  BY <1>1 DEF WellMade, Upserts
<1> QED BY <1>1, <1>2 DEF Gives, Supplies, Content, Bit, Omitted

\* The gate is shut, or the tree is cleared: what follows a full scene is as before.
LEMMA CarriedByTheNextScene ==
    ASSUME NEW d, NEW i \in Nat, i <= Len(d) + 1, Len(d) \in Nat, NEW n \in Nodes,
           \A j \in 1..Len(d) : d[j].type = "scene" => WellMade(d[j]),
           NEW a, NEW b, NEW has, Carried(d, i, n, a, has)
    PROVE  Carried(d, i, n, TRUE, b)
<1>1. CASE \A j \in 1..(i - 1) : ~Full(d[j])
  BY <1>1 DEF Carried
<1>2. CASE \E j \in 1..(i - 1) : Full(d[j])
  <2>1. PICK k \in 1..(i - 1) : Full(d[k])
    BY <1>2
  <2>2. k \in 1..Len(d)
    BY <2>1
  <2>3. ~Removes(d[k], n) => Gives(d[k], n)
    BY <2>1, <2>2, FullScenesSupply
  <2>4. \A j \in (k + 1)..(i - 1) : j \in 1..(i - 1)
    BY <2>1
  <2> QED BY <2>1, <2>3, <2>4 DEF Carried
<1> QED BY <1>1, <1>2

\* The head is taken off and not applied, and the viewer waits for a full scene.
LEMMA CarriedAfterAMiss ==
    ASSUME NEW d, NEW e, NEW i \in Nat, i >= 1, Len(d) \in Nat, i + 1 <= Len(d) + 1,
           \A j \in 1..(i - 1) : e[j] = d[j + 1], NEW n \in Nodes,
           \A j \in 1..Len(d) : d[j].type = "scene" => WellMade(d[j]),
           NEW a, NEW b, NEW has, Carried(d, i + 1, n, a, has)
    PROVE  Carried(e, i, n, TRUE, b)
<1>0. i + 1 - 1 = i /\ \A j \in 1..(i - 1) : j + 1 \in 1..i
  OBVIOUS
<1>1. CASE \A j \in 1..(i - 1) : ~Full(e[j])
  BY <1>1 DEF Carried
<1>2. CASE \E j \in 1..(i - 1) : Full(e[j])
  <2>1. PICK k \in 1..(i - 1) : Full(e[k])
    BY <1>2
  <2>2. k + 1 \in 1..i /\ k + 1 \in 1..Len(d) /\ Full(d[k + 1]) /\ e[k] = d[k + 1]
    BY <2>1
  <2>3. ~Removes(d[k + 1], n) => Gives(d[k + 1], n)
    BY <2>2, FullScenesSupply
  <2>4. CASE has /\ \A j \in 1..i : ~Removes(d[j], n)
    <3>1. Gives(e[k], n)
      BY <2>2, <2>3, <2>4
    <3>2. \A j \in (k + 1)..(i - 1) : ~Removes(e[j], n)
      BY <2>1, <2>4
    <3> QED BY <2>1, <3>1, <3>2 DEF Carried
  <2>5. CASE \E j \in 1..i : Gives(d[j], n) /\ \A l \in (j + 1)..i : ~Removes(d[l], n)
    <3>1. PICK j \in 1..i : Gives(d[j], n) /\ \A l \in (j + 1)..i : ~Removes(d[l], n)
      BY <2>5
    <3>2. CASE j = 1
      <4>1. k + 1 \in (j + 1)..i
        BY <2>1, <3>2
      <4>2. Gives(e[k], n)
        BY <2>2, <2>3, <3>1, <4>1
      <4>3. \A l \in (k + 1)..(i - 1) : ~Removes(e[l], n)
        <5>1. \A l \in (k + 1)..(i - 1) : l + 1 \in (j + 1)..i /\ e[l] = d[l + 1]
          BY <2>1, <3>2
        <5> QED BY <3>1, <5>1
      <4> QED BY <2>1, <4>2, <4>3 DEF Carried
    <3>3. CASE j # 1
      <4>1. j - 1 \in 1..(i - 1) /\ e[j - 1] = d[j]
        BY <3>3
      <4>2. \A l \in ((j - 1) + 1)..(i - 1) : l + 1 \in (j + 1)..i /\ e[l] = d[l + 1]
        BY <3>3
      <4> QED BY <3>1, <4>1, <4>2 DEF Carried
    <3> QED BY <3>2, <3>3
  <2>6. ~(a /\ \A j \in 1..i : ~Full(d[j]))
    BY <2>2
  <2> QED BY <1>0, <2>4, <2>5, <2>6 DEF Carried
<1> QED BY <1>1, <1>2

\* A head that is no frame is taken off.
LEMMA CarriedAfterAVerdict ==
    ASSUME NEW d, NEW e, NEW i \in Nat, i >= 1, \A j \in 1..(i - 1) : e[j] = d[j + 1], d[1].type # "scene",
           NEW n, NEW a, NEW has, Carried(d, i + 1, n, a, has)
    PROVE  Carried(e, i, n, a, has)
<1>0. i + 1 - 1 = i /\ \A j \in 1..(i - 1) : j + 1 \in 1..i /\ e[j] = d[j + 1]
  OBVIOUS
<1>1. CASE a /\ \A j \in 1..i : ~Full(d[j])
  BY <1>0, <1>1 DEF Carried
<1>2. CASE has /\ \A j \in 1..i : ~Removes(d[j], n)
  BY <1>0, <1>2 DEF Carried
<1>3. CASE \E j \in 1..i : Gives(d[j], n) /\ \A k \in (j + 1)..i : ~Removes(d[k], n)
  <2>1. PICK j \in 1..i : Gives(d[j], n) /\ \A k \in (j + 1)..i : ~Removes(d[k], n)
    BY <1>3
  <2>2. j # 1
    BY <2>1 DEF Gives
  <2>3. j - 1 \in 1..(i - 1) /\ e[j - 1] = d[j]
    BY <2>2
  <2>4. \A k \in ((j - 1) + 1)..(i - 1) : k + 1 \in (j + 1)..i /\ e[k] = d[k + 1]
    BY <2>2
  <2> QED BY <2>1, <2>3, <2>4 DEF Carried
<1> QED BY <1>0, <1>1, <1>2, <1>3 DEF Carried

\* The head is applied: the tree then has what it supplies, and keeps what it does not drop.
LEMMA CarriedAfterAFrame ==
    ASSUME NEW d, NEW e, NEW i \in Nat, i >= 1, \A j \in 1..(i - 1) : e[j] = d[j + 1],
           NEW n, NEW a, a => Full(d[1]), NEW has, NEW b,
           Gives(d[1], n) => b, has /\ ~Removes(d[1], n) => b,
           Carried(d, i + 1, n, a, has)
    PROVE  Carried(e, i, n, FALSE, b)
<1>0. i + 1 - 1 = i /\ 1 \in 1..i /\ \A j \in 1..(i - 1) : j + 1 \in 1..i /\ e[j] = d[j + 1]
  OBVIOUS
<1>1. ~(a /\ \A j \in 1..i : ~Full(d[j]))
  BY <1>0
<1>2. CASE has /\ \A j \in 1..i : ~Removes(d[j], n)
  BY <1>0, <1>2 DEF Carried
<1>3. CASE \E j \in 1..i : Gives(d[j], n) /\ \A k \in (j + 1)..i : ~Removes(d[k], n)
  <2>1. PICK j \in 1..i : Gives(d[j], n) /\ \A k \in (j + 1)..i : ~Removes(d[k], n)
    BY <1>3
  <2>2. CASE j = 1
    <3>1. \A k \in 1..(i - 1) : k + 1 \in (j + 1)..i /\ e[k] = d[k + 1]
      BY <2>2
    <3>2. b
      BY <2>1, <2>2
    <3> QED BY <2>1, <3>1, <3>2 DEF Carried
  <2>3. CASE j # 1
    <3>1. j - 1 \in 1..(i - 1) /\ e[j - 1] = d[j]
      BY <2>3
    <3>2. \A k \in ((j - 1) + 1)..(i - 1) : k + 1 \in (j + 1)..i /\ e[k] = d[k + 1]
      BY <2>3
    <3> QED BY <2>1, <3>1, <3>2 DEF Carried
  <2> QED BY <2>2, <2>3
<1> QED BY <1>0, <1>1, <1>2, <1>3 DEF Carried


\* What is appended changes nothing for what is already on its way.
LEMMA CarriedBefore ==
    ASSUME NEW d, NEW e, NEW i \in Nat, \A j \in 1..(i - 1) : e[j] = d[j],
           NEW n, NEW a, NEW has, Carried(d, i, n, a, has)
    PROVE  Carried(e, i, n, a, has)
<1>1. CASE a /\ \A j \in 1..(i - 1) : ~Full(d[j])
  BY <1>1 DEF Carried
<1>2. CASE has /\ \A j \in 1..(i - 1) : ~Removes(d[j], n)
  BY <1>2 DEF Carried
<1>3. CASE \E j \in 1..(i - 1) : Gives(d[j], n) /\ \A k \in (j + 1)..(i - 1) : ~Removes(d[k], n)
  <2>1. PICK j \in 1..(i - 1) : Gives(d[j], n) /\ \A k \in (j + 1)..(i - 1) : ~Removes(d[k], n)
    BY <1>3
  <2>2. \A k \in (j + 1)..(i - 1) : k \in 1..(i - 1)
    BY <2>1
  <2> QED BY <2>1, <2>2 DEF Carried
<1> QED BY <1>1, <1>2, <1>3 DEF Carried

\* What is carried stays so over one more message that does not remove it.
LEMMA CarriedOver ==
    ASSUME NEW d, NEW i \in Nat, i >= 1, NEW n, NEW a, NEW has,
           \/ Gives(d[i], n)
           \/ Carried(d, i, n, a, has) /\ ~Removes(d[i], n) /\ (Full(d[i]) => Gives(d[i], n))
    PROVE  Carried(d, i + 1, n, a, has)
<1>0. i + 1 - 1 = i /\ i \in 1..i /\ \A j \in 1..i : j \in 1..(i - 1) \/ j = i
  OBVIOUS
<1>1. CASE Gives(d[i], n)
  <2>1. \A k \in (i + 1)..i : FALSE
    OBVIOUS
  <2> QED BY <1>0, <1>1, <2>1 DEF Carried
<1>2. CASE Carried(d, i, n, a, has) /\ ~Removes(d[i], n) /\ ~Full(d[i])
  <2>1. CASE a /\ \A j \in 1..(i - 1) : ~Full(d[j])
    BY <1>0, <1>2, <2>1 DEF Carried
  <2>2. CASE has /\ \A j \in 1..(i - 1) : ~Removes(d[j], n)
    BY <1>0, <1>2, <2>2 DEF Carried
  <2>3. CASE \E j \in 1..(i - 1) : Gives(d[j], n) /\ \A k \in (j + 1)..(i - 1) : ~Removes(d[k], n)
    <3>1. PICK j \in 1..(i - 1) : Gives(d[j], n) /\ \A k \in (j + 1)..(i - 1) : ~Removes(d[k], n)
      BY <2>3
    <3>2. j \in 1..i /\ \A k \in (j + 1)..i : k \in (j + 1)..(i - 1) \/ k = i
      BY <3>1
    <3> QED BY <1>0, <1>2, <3>1, <3>2 DEF Carried
  <2> QED BY <1>2, <2>1, <2>2, <2>3 DEF Carried
<1> QED BY <1>1, <1>2

\* The viewer is to wait for a full scene, whatever becomes of its tree.
LEMMA ChainAtTheGate ==
    ASSUME NEW d, IsQueue(d), NEW a, NEW t, Chained(d, a, t), NEW u
    PROVE  /\ Chained(d, TRUE, u)
           /\ \A n \in Nodes : AtTheEnd(d, n, a, t[n] # Gone) => AtTheEnd(d, n, TRUE, u[n] # Gone)
<1>1. Len(d) \in Nat
  BY LenProperties DEF IsQueue
<1>2. \A i \in 1..Len(d) : d[i].type = "scene" => WellMade(d[i])
  BY DEF Chained
<1>3. ASSUME NEW n \in Nodes, NEW i \in Nat, i <= Len(d) + 1, Carried(d, i, n, a, t[n] # Gone)
      PROVE  Carried(d, i, n, TRUE, u[n] # Gone)
  <2>1. PICK h, b : h = (t[n] # Gone) /\ b = (u[n] # Gone)
    OBVIOUS
  <2>2. Carried(d, i, n, a, h)
    BY <1>3, <2>1
  <2>3. Carried(d, i, n, TRUE, b)
    BY <1>1, <1>2, <1>3, <2>2, CarriedByTheNextScene
  <2> QED BY <2>1, <2>3
<1>4. Chained(d, TRUE, u)
  <2>1. \A i \in 1..Len(d) : i \in Nat /\ i <= Len(d) + 1
    BY <1>1
  <2> QED BY <1>2, <1>3, <2>1 DEF Chained
<1>5. Len(d) + 1 \in Nat /\ Len(d) + 1 <= Len(d) + 1
  BY <1>1
<1> QED BY <1>3, <1>4, <1>5 DEF AtTheEnd

\* The three things a viewer does with a message x: a and c say whether it waits for
\* a full scene before and after, t and u are its tree.
Handled(x, a, t, c, u) ==
    \/ c = TRUE
    \/ x.type # "scene" /\ c = a /\ u = t
    \/ /\ c = FALSE /\ (a => Full(x))
       /\ \A n \in Nodes : /\ Gives(x, n) => u[n] # Gone
                           /\ t[n] # Gone /\ ~Removes(x, n) => u[n] # Gone

\* The head is taken off.
LEMMA ChainTaken ==
    ASSUME NEW d, IsQueue(d), d # <<>>, NEW a, NEW t, Chained(d, a, t), NEW c, NEW u,
           Handled(d[1], a, t, c, u)
    PROVE  /\ Chained(Tail(d), c, u)
           /\ \A n \in Nodes : AtTheEnd(d, n, a, t[n] # Gone) => AtTheEnd(Tail(d), n, c, u[n] # Gone)
<1> DEFINE e == Tail(d)
<1>1. /\ Len(d) \in Nat /\ Len(d) >= 1 /\ Len(e) = Len(d) - 1
      /\ \A i \in 1..Len(e) : e[i] = d[i + 1]
  BY Shorter
<1> HIDE DEF e
<1>2. \A i \in 1..Len(d) : d[i].type = "scene" => WellMade(d[i])
  BY DEF Chained
<1>3. ASSUME NEW n \in Nodes, NEW i \in Nat, i >= 1, i <= Len(e) + 1, Carried(d, i + 1, n, a, t[n] # Gone)
      PROVE  Carried(e, i, n, c, u[n] # Gone)
  <2>1. PICK h, b : h = (t[n] # Gone) /\ b = (u[n] # Gone)
    OBVIOUS
  <2>2. Carried(d, i + 1, n, a, h)
    BY <1>3, <2>1
  <2>3. i + 1 <= Len(d) + 1 /\ \A j \in 1..(i - 1) : e[j] = d[j + 1]
    BY <1>1, <1>3
  <2>4. CASE c = TRUE
    <3>1. Carried(e, i, n, TRUE, b)
      BY <1>1, <1>2, <1>3, <2>2, <2>3, CarriedAfterAMiss
    <3> QED BY <2>1, <2>4, <3>1
  <2>5. CASE d[1].type # "scene" /\ c = a /\ u = t
    <3>1. Carried(e, i, n, a, h)
      BY <1>3, <2>2, <2>3, <2>5, CarriedAfterAVerdict
    <3> QED BY <2>1, <2>5, <3>1
  <2>6. CASE c = FALSE /\ (a => Full(d[1])) /\ (Gives(d[1], n) => b) /\ (h /\ ~Removes(d[1], n) => b)
    <3>1. Carried(e, i, n, FALSE, b)
      BY <1>3, <2>2, <2>3, <2>6, CarriedAfterAFrame
    <3> QED BY <2>1, <2>6, <3>1
  <2> QED BY <2>1, <2>4, <2>5, <2>6 DEF Handled
<1>4. Chained(e, c, u)
  <2>1. ASSUME NEW i \in 1..Len(e), e[i].type = "scene"
        PROVE  WellMade(e[i]) /\ \A n \in Nodes : Lean(e[i], n) => Carried(e, i, n, c, u[n] # Gone)
    <3>1. i \in Nat /\ i >= 1 /\ i <= Len(e) + 1 /\ i + 1 \in 1..Len(d) /\ e[i] = d[i + 1]
      BY <1>1
    <3>2. /\ WellMade(d[i + 1])
          /\ \A n \in Nodes : Lean(d[i + 1], n) => Carried(d, i + 1, n, a, t[n] # Gone)
      BY <2>1, <3>1 DEF Chained
    <3> QED BY <1>3, <3>1, <3>2
  <2> QED BY <2>1 DEF Chained
<1>5. ASSUME NEW n \in Nodes, AtTheEnd(d, n, a, t[n] # Gone) PROVE AtTheEnd(e, n, c, u[n] # Gone)
  <2>1. Len(e) + 1 \in Nat /\ Len(e) + 1 >= 1 /\ Len(e) + 1 <= Len(e) + 1 /\ Len(e) + 1 + 1 = Len(d) + 1
    BY <1>1
  <2>2. Carried(d, Len(e) + 1 + 1, n, a, t[n] # Gone)
    BY <1>5, <2>1 DEF AtTheEnd
  <2>3. Carried(e, Len(e) + 1, n, c, u[n] # Gone)
    BY <1>3, <2>1, <2>2
  <2> QED BY <2>3 DEF AtTheEnd
<1> QED BY <1>4, <1>5 DEF e

\* A message is appended: a verdict, or a frame whose lean nodes are carried to it.
LEMMA ChainLengthened ==
    ASSUME NEW d, IsQueue(d), NEW a, NEW t, Chained(d, a, t), NEW x,
           x.type = "scene" =>
               WellMade(x) /\ \A n \in Nodes : Lean(x, n) => AtTheEnd(d, n, a, t[n] # Gone)
    PROVE  /\ Chained(Append(d, x), a, t)
           /\ \A n \in Nodes : \/ Gives(x, n)
                               \/ AtTheEnd(d, n, a, t[n] # Gone) /\ ~Removes(x, n)
                               => AtTheEnd(Append(d, x), n, a, t[n] # Gone)
<1> DEFINE e == Append(d, x)
<1>1. /\ Len(d) \in Nat /\ Len(e) = Len(d) + 1
      /\ \A i \in 1..Len(d) : e[i] = d[i]
      /\ e[Len(d) + 1] = x
  BY Longer
<1> HIDE DEF e
<1>2. ASSUME NEW i \in Nat, i <= Len(d) + 1, NEW n, Carried(d, i, n, a, t[n] # Gone)
      PROVE  Carried(e, i, n, a, t[n] # Gone)
  <2>1. PICK h : h = (t[n] # Gone)
    OBVIOUS
  <2>2. \A j \in 1..(i - 1) : e[j] = d[j]
    BY <1>1, <1>2
  <2>3. Carried(d, i, n, a, h)
    BY <1>2, <2>1
  <2>4. Carried(e, i, n, a, h)
    BY <2>2, <2>3, CarriedBefore
  <2> QED BY <2>1, <2>4
<1>3. Chained(e, a, t)
  <2>1. ASSUME NEW i \in 1..Len(e), e[i].type = "scene"
        PROVE  WellMade(e[i]) /\ \A n \in Nodes : Lean(e[i], n) => Carried(e, i, n, a, t[n] # Gone)
    <3>1. CASE i \in 1..Len(d)
      <4>1. i \in Nat /\ i <= Len(d) + 1 /\ e[i] = d[i]
        BY <1>1, <3>1
      <4> QED BY <1>2, <2>1, <3>1, <4>1 DEF Chained
    <3>2. CASE i = Len(d) + 1
      <4>1. e[i] = x /\ i \in Nat /\ i <= Len(d) + 1
        BY <1>1, <3>2
      <4> QED BY <1>2, <2>1, <3>2, <4>1 DEF AtTheEnd
    <3> QED BY <1>1, <3>1, <3>2
  <2> QED BY <2>1 DEF Chained
<1>4. ASSUME NEW n \in Nodes, Gives(x, n) \/ (AtTheEnd(d, n, a, t[n] # Gone) /\ ~Removes(x, n))
      PROVE  AtTheEnd(e, n, a, t[n] # Gone)
  <2>1. PICK h, i : h = (t[n] # Gone) /\ i = Len(d) + 1
    OBVIOUS
  <2>2. i \in Nat /\ i >= 1 /\ e[i] = x /\ Len(e) + 1 = i + 1 /\ i <= Len(d) + 1
    BY <1>1, <2>1
  <2>3. AtTheEnd(d, n, a, t[n] # Gone) => Carried(e, i, n, a, h)
    BY <1>2, <2>1, <2>2 DEF AtTheEnd
  <2>4. ~Removes(x, n) => (Full(x) => Gives(x, n))
    BY FullScenesSupply
  <2>5. Gives(e[i], n) \/ (Carried(e, i, n, a, h) /\ ~Removes(e[i], n) /\ (Full(e[i]) => Gives(e[i], n)))
    BY <1>4, <2>2, <2>3, <2>4
  <2>6. Carried(e, i + 1, n, a, h)
    BY <2>2, <2>5, CarriedOver
  <2> QED BY <2>1, <2>2, <2>6 DEF AtTheEnd
<1> QED BY <1>3, <1>4 DEF e


-----------------------------------------------------------------------------
(* The draw order: every live node, once.                                   *)

Lists(o, P) == IsQueue(o) /\ IsInjective(o) /\ ToSet(o) = P

LEMMA ListedOnce ==
    ASSUME NEW o, NEW P, Lists(o, P)
    PROVE  /\ Len(o) \in Nat /\ DOMAIN o = 1..Len(o)
           /\ \A i \in 1..Len(o) : o[i] \in P
           /\ \A x \in P : \E i \in 1..Len(o) : o[i] = x
           /\ \A i, j \in 1..Len(o) : o[i] = o[j] => i = j
<1>1. Len(o) \in Nat /\ DOMAIN o = 1..Len(o)
  BY LenProperties DEF Lists, IsQueue
<1> QED BY <1>1 DEF Lists, IsInjective, ToSet

LEMMA OnceListed ==
    ASSUME NEW o, NEW P, NEW S, o \in Seq(S),
           \A i \in 1..Len(o) : o[i] \in P,
           \A x \in P : \E i \in 1..Len(o) : o[i] = x,
           \A i, j \in 1..Len(o) : o[i] = o[j] => i = j
    PROVE  Lists(o, P)
<1>1. Len(o) \in Nat /\ DOMAIN o = 1..Len(o)
  BY LenProperties
<1> QED BY <1>1, SequencesAreQueues DEF Lists, IsInjective, ToSet

LEMMA ListLength ==
    ASSUME NEW o, NEW P, Lists(o, P)
    PROVE  Len(o) = Cardinality(P)
<1>1. /\ Len(o) \in Nat /\ DOMAIN o = 1..Len(o)
      /\ \A i \in 1..Len(o) : o[i] \in P
      /\ \A x \in P : \E i \in 1..Len(o) : o[i] = x
      /\ \A i, j \in 1..Len(o) : o[i] = o[j] => i = j
  BY ListedOnce
<1>2. o \in [1..Len(o) -> P]
  <2>1. o \in Seq(ToSet(o)) /\ ToSet(o) = P
    BY DEF Lists, IsQueue
  <2> QED BY <2>1, LenProperties
<1>3. o \in Bijection(1..Len(o), P)
  BY <1>1, <1>2 DEF Bijection, Injection, Surjection, IsInjective
<1>4. ExistsBijection(1..Len(o), P)
  BY <1>3 DEF ExistsBijection
<1>5. IsFiniteSet(1..Len(o)) /\ Cardinality(1..Len(o)) = Len(o)
  BY <1>1, FS_Interval
<1> QED BY <1>4, <1>5, FS_Bijection

LEMMA SetsAreListed ==
    ASSUME NEW P, IsFiniteSet(P)
    PROVE  Lists(SetToSeq(P), P)
<1> DEFINE k == Cardinality(P)
<1>1. k \in Nat /\ ExistsBijection(1..k, P)
  BY FS_CardinalityType
<1>2. IsFiniteSet(1..k) /\ Cardinality(1..k) = k
  BY <1>1, FS_Interval
<1>3. PICK g \in [1..k -> P] : IsInjective(g)
  BY <1>1 DEF ExistsBijection, Bijection, Injection
<1> DEFINE f == SetToSeq(P)
<1>4. f \in [1..k -> P] /\ IsInjective(f)
  BY <1>3 DEF SetToSeq
<1> HIDE DEF f, k
<1>5. f \in Injection(1..k, P)
  BY <1>4 DEF Injection
<1>6. f \in Surjection(1..k, P)
  BY <1>2, <1>5, FS_Injection DEF k
<1>7. f \in Seq(P) /\ Len(f) = k
  BY <1>1, <1>4
<1>8. Lists(f, P)
  <2>1. /\ \A i \in 1..k : f[i] \in P
        /\ \A x \in P : \E i \in 1..k : f[i] = x
        /\ \A i, j \in 1..k : f[i] = f[j] => i = j
    BY <1>4, <1>6 DEF Surjection, IsInjective
  <2> QED BY <1>7, <2>1, OnceListed
<1> QED BY <1>8 DEF f

\* A node is added, in front or at the end.
LEMMA ListedMore ==
    ASSUME NEW o, NEW P, Lists(o, P), NEW x, x \notin P
    PROVE  Lists(Append(o, x), P \cup {x}) /\ Lists(<<x>> \o o, P \cup {x})
<1> DEFINE S == P \cup {x}
<1>1. /\ Len(o) \in Nat
      /\ \A i \in 1..Len(o) : o[i] \in P
      /\ \A y \in P : \E i \in 1..Len(o) : o[i] = y
      /\ \A i, j \in 1..Len(o) : o[i] = o[j] => i = j
  BY ListedOnce
<1>2. o \in Seq(P)
  BY DEF Lists, IsQueue
<1>3. o \in Seq(S) /\ x \in S
  BY <1>2
<1>4. Lists(Append(o, x), S)
  <2> DEFINE e == Append(o, x)
  <2>1. /\ e \in Seq(S) /\ Len(e) = Len(o) + 1
        /\ \A i \in 1..Len(o) : e[i] = o[i]
        /\ e[Len(o) + 1] = x
    BY <1>1, <1>3, AppendProperties
  <2> HIDE DEF e
  <2>2. \A i \in 1..Len(e) : i \in 1..Len(o) \/ i = Len(o) + 1
    BY <1>1, <2>1
  <2>3. \A i \in 1..Len(e) : e[i] \in S
    BY <1>1, <2>1, <2>2
  <2>4. ASSUME NEW y \in S PROVE \E i \in 1..Len(e) : e[i] = y
    <3>1. CASE y = x
      <4>1. Len(o) + 1 \in 1..Len(e)
        BY <1>1, <2>1
      <4> QED BY <2>1, <3>1, <4>1
    <3>2. CASE y \in P
      <4>1. PICK i \in 1..Len(o) : o[i] = y
        BY <1>1, <3>2
      <4>2. i \in 1..Len(e)
        BY <1>1, <2>1, <4>1
      <4> QED BY <2>1, <4>1, <4>2
    <3> QED BY <3>1, <3>2
  <2>5. ASSUME NEW i \in 1..Len(e), NEW j \in 1..Len(e), e[i] = e[j] PROVE i = j
    BY <1>1, <2>1, <2>2, <2>5
  <2>6. Lists(e, S)
    BY <2>1, <2>3, <2>4, <2>5, OnceListed
  <2> QED BY <2>6 DEF e
<1>5. Lists(<<x>> \o o, S)
  <2> DEFINE e == <<x>> \o o
  <2>1. <<x>> \in Seq(S) /\ Len(<<x>>) = 1 /\ <<x>>[1] = x
    OBVIOUS
  <2>2. /\ e \in Seq(S) /\ Len(e) = Len(o) + 1
        /\ \A i \in 1..Len(o) + 1 : e[i] = IF i <= 1 THEN x ELSE o[i - 1]
    <3>1. /\ e \in Seq(S) /\ Len(e) = Len(<<x>>) + Len(o)
          /\ \A i \in 1..(Len(<<x>>) + Len(o)) : e[i] = IF i <= Len(<<x>>) THEN <<x>>[i] ELSE o[i - Len(<<x>>)]
      BY <1>3, <2>1, ConcatProperties
    <3> HIDE DEF e
    <3> QED BY <1>1, <2>1, <3>1
  <2> HIDE DEF e
  <2>3. /\ e[1] = x /\ \A i \in 1..Len(o) : i + 1 \in 1..Len(e) /\ e[i + 1] = o[i]
        /\ \A i \in 1..Len(e) : i = 1 \/ (i - 1 \in 1..Len(o) /\ e[i] = o[i - 1])
    BY <1>1, <2>2
  <2>4. 1 \in 1..Len(e)
    BY <1>1, <2>2
  <2>5. \A i \in 1..Len(e) : e[i] \in S
    BY <1>1, <2>3
  <2>6. ASSUME NEW y \in S PROVE \E i \in 1..Len(e) : e[i] = y
    <3>1. CASE y = x
      BY <2>3, <2>4, <3>1
    <3>2. CASE y \in P
      <4>1. PICK i \in 1..Len(o) : o[i] = y
        BY <1>1, <3>2
      <4> QED BY <2>3, <4>1
    <3> QED BY <3>1, <3>2
  <2>7. ASSUME NEW i \in 1..Len(e), NEW j \in 1..Len(e), e[i] = e[j] PROVE i = j
    <3>1. \A m \in 1..Len(e) : m = 1 \/ (m - 1 \in 1..Len(o) /\ e[m] = o[m - 1] /\ e[m] # x)
      BY <1>1, <2>3
    <3>2. (i = 1) = (j = 1)
      BY <2>3, <2>7, <3>1
    <3>3. CASE i # 1 /\ j # 1
      <4>1. i - 1 \in 1..Len(o) /\ j - 1 \in 1..Len(o) /\ o[i - 1] = o[j - 1]
        BY <2>7, <3>1, <3>3
      <4>2. i - 1 = j - 1
        BY <1>1, <4>1
      <4> QED BY <4>2
    <3> QED BY <3>2, <3>3
  <2>8. Lists(e, S)
    BY <2>2, <2>5, <2>6, <2>7, OnceListed
  <2> QED BY <2>8 DEF e
<1> QED BY <1>4, <1>5

\* A node is taken out.
LEMMA ListedLess ==
    ASSUME NEW o, NEW P, Lists(o, P), NEW k \in 1..Len(o)
    PROVE  Lists(RemoveAt(o, k), P \ {o[k]})
<1> DEFINE S == P \ {o[k]}
<1>1. /\ Len(o) \in Nat
      /\ \A i \in 1..Len(o) : o[i] \in P
      /\ \A y \in P : \E i \in 1..Len(o) : o[i] = y
      /\ \A i, j \in 1..Len(o) : o[i] = o[j] => i = j
  BY ListedOnce
<1> DEFINE a == SubSeq(o, 1, k - 1)
           b == SubSeq(o, k + 1, Len(o))
           e == a \o b
<1>2. /\ a \in Seq(P) /\ Len(a) = k - 1
      /\ \A i \in 1..(k - 1) : a[i] = o[i]
  <2>1. 1 \in Int /\ k - 1 \in Int /\ \A i \in 1..(k - 1) : o[i] \in P
    BY <1>1
  <2>2. /\ a \in Seq(P) /\ Len(a) = IF 1 <= k - 1 THEN k - 1 - 1 + 1 ELSE 0
        /\ \A i \in 1..(k - 1 - 1 + 1) : a[i] = o[1 + i - 1]
    BY <2>1, SubSeqProperties
  <2> HIDE DEF a
  <2> QED BY <1>1, <2>2
<1>3. /\ b \in Seq(P) /\ Len(b) = Len(o) - k
      /\ \A i \in 1..(Len(o) - k) : b[i] = o[k + i]
  <2>1. k + 1 \in Int /\ Len(o) \in Int /\ \A i \in (k + 1)..Len(o) : o[i] \in P
    BY <1>1
  <2>2. /\ b \in Seq(P) /\ Len(b) = IF k + 1 <= Len(o) THEN Len(o) - (k + 1) + 1 ELSE 0
        /\ \A i \in 1..(Len(o) - (k + 1) + 1) : b[i] = o[(k + 1) + i - 1]
    BY <2>1, SubSeqProperties
  <2> HIDE DEF b
  <2>3. \A i \in 1..(Len(o) - k) : i \in 1..(Len(o) - (k + 1) + 1) /\ (k + 1) + i - 1 = k + i
    BY <1>1
  <2> QED BY <1>1, <2>2, <2>3
<1> HIDE DEF a, b
<1>4. /\ e \in Seq(P) /\ Len(e) = Len(o) - 1
      /\ \A i \in 1..Len(e) : e[i] = IF i < k THEN o[i] ELSE o[i + 1]
  <2>1. /\ e \in Seq(P) /\ Len(e) = Len(a) + Len(b)
        /\ \A i \in 1..(Len(a) + Len(b)) : e[i] = IF i <= Len(a) THEN a[i] ELSE b[i - Len(a)]
    BY <1>2, <1>3, ConcatProperties
  <2> HIDE DEF e
  <2>2. Len(e) = Len(o) - 1
    BY <1>1, <1>2, <1>3, <2>1
  <2>3. ASSUME NEW i \in 1..Len(e) PROVE e[i] = IF i < k THEN o[i] ELSE o[i + 1]
    <3>1. CASE i < k
      BY <1>1, <1>2, <1>3, <2>1, <2>2, <3>1
    <3>2. CASE ~(i < k)
      <4>1. i - (k - 1) \in 1..(Len(o) - k) /\ k + (i - (k - 1)) = i + 1
        BY <1>1, <2>2, <3>2
      <4> QED BY <1>1, <1>2, <1>3, <2>1, <2>2, <3>2, <4>1
    <3> QED BY <3>1, <3>2
  <2> QED BY <2>1, <2>2, <2>3
<1> HIDE DEF e
<1>5. ASSUME NEW i \in 1..Len(e) PROVE e[i] \in S
  <2>1. CASE i < k
    <3>1. i \in 1..Len(o) /\ e[i] = o[i] /\ i # k
      BY <1>1, <1>4, <2>1
    <3> QED BY <1>1, <3>1
  <2>2. CASE ~(i < k)
    <3>1. i + 1 \in 1..Len(o) /\ e[i] = o[i + 1] /\ i + 1 # k
      BY <1>1, <1>4, <2>2
    <3> QED BY <1>1, <3>1
  <2> QED BY <2>1, <2>2
<1>6. ASSUME NEW y \in S PROVE \E i \in 1..Len(e) : e[i] = y
  <2>1. PICK j \in 1..Len(o) : o[j] = y
    BY <1>1
  <2>2. j # k
    BY <2>1
  <2>3. CASE j < k
    <3>1. j \in 1..Len(e)
      BY <1>1, <1>4, <2>3
    <3> QED BY <1>4, <2>1, <2>3, <3>1
  <2>4. CASE j > k
    <3>1. j - 1 \in 1..Len(e) /\ ~(j - 1 < k) /\ j - 1 + 1 = j
      BY <1>1, <1>4, <2>4
    <3> QED BY <1>4, <2>1, <3>1
  <2> QED BY <2>2, <2>3, <2>4
<1>7. ASSUME NEW i \in 1..Len(e), NEW j \in 1..Len(e), e[i] = e[j] PROVE i = j
  <2> DEFINE At(h) == IF h < k THEN h ELSE h + 1
  <2>1. \A h \in 1..Len(e) : At(h) \in 1..Len(o) /\ e[h] = o[At(h)]
    BY <1>1, <1>4
  <2>2. At(i) = At(j) => i = j
    OBVIOUS
  <2> HIDE DEF At
  <2>3. o[At(i)] = o[At(j)]
    BY <1>7, <2>1
  <2> QED BY <1>1, <2>1, <2>2, <2>3
<1>8. e \in Seq(P)
  BY <1>4
<1>9. Lists(e, S)
  <2> HIDE DEF S
  <2> QED BY <1>5, <1>6, <1>7, <1>8, OnceListed
<1> QED BY <1>9 DEF RemoveAt, e, a, b


-----------------------------------------------------------------------------
(* The invariant behind the types: the viewer's tree has, once what is on   *)
(* its way is applied, every node that the host takes it to have.           *)

Typed ==
    /\ scene \in [Nodes -> Content \cup {Gone}]
    /\ Lists(order, Present)
    /\ tree \in [Nodes -> Content \cup {Gone}]
    /\ client.open \in BOOLEAN /\ client.watching \in BOOLEAN /\ client.awaiting \in BOOLEAN
    /\ host.credit \in BOOLEAN
    /\ pump.pc \in {"idle", "take", "send"}
    /\ refresh.by \in {"none", "loop", "task"}

Counted ==
    /\ DOMAIN budget = {"edits", "turns"} /\ budget.turns \in Nat
    /\ monitor.gen + budget.turns <= MaxTurns + 1
    /\ host.epoch \in Nat /\ host.streamEpoch \in Nat /\ refresh.epoch \in Nat
    /\ host.streamGen <= monitor.gen /\ host.streamEpoch <= host.epoch
    /\ refresh.gen <= monitor.gen /\ refresh.epoch <= host.epoch
    /\ pump.pc = "send" => /\ pump.frame.gen \in Nat /\ pump.frame.epoch \in Nat
                           /\ pump.frame.gen <= monitor.gen /\ pump.frame.epoch <= host.epoch

\* What the coalescer has collected of one window.
Collected ==
    /\ DOMAIN coal = {"pend", "last", "pending"}
    /\ DOMAIN coal.pend = {"full", "up", "stat", "stick", "rm", "ord"}
    /\ coal.pend.full = FALSE
    /\ coal.pend.stat \subseteq coal.pend.stick
    /\ coal.pend.stat \subseteq coal.pend.up
    /\ coal.pend.rm \cap coal.pend.up = {}

\* A frame of the stream that is on now.
Current(f) == host.streaming /\ f.gen = host.streamGen /\ f.epoch = host.streamEpoch

\* A frame of an earlier stream can never be sent, and no increment is made
\* between the start of a stream and its full scene.
Fenced ==
    /\ pump.pc = "send" => ~AllowsWork(pump.frame.gen, pump.frame.epoch) \/ Current(pump.frame)
    /\ refresh.pc \in {"build", "keyframe"} =>
         /\ ~host.ready /\ host.streaming
         /\ host.streamGen = refresh.gen /\ host.streamEpoch = refresh.epoch
         /\ pump.pc = "send" => ~Current(pump.frame)
    /\ refresh.pc = "keyframe" => /\ Current(refresh.frame)
                                  /\ WellMade(refresh.frame.msg) /\ refresh.frame.msg.full

Ends(n) == AtTheEnd(down, n, client.awaiting, tree[n] # Gone)
BeingSent == pump.pc = "send" /\ Current(pump.frame)

\* The viewer will have node n when what was sent, and the frame in hand, are applied.
Known(n) ==
    CASE refresh.pc = "build" -> TRUE
      [] refresh.pc = "keyframe" -> Gives(refresh.frame.msg, n)
      [] refresh.pc \notin {"build", "keyframe"} /\ BeingSent ->
            Gives(pump.frame.msg, n) \/ (Ends(n) /\ ~Removes(pump.frame.msg, n))
      [] refresh.pc \notin {"build", "keyframe"} /\ ~BeingSent -> Ends(n)

\* While the stream may send, a live node whose static part is not about to be sent is known.
Synced ==
    WantsSceneStream =>
      /\ coal.pend.rm \cap Present = {}
      /\ \A n \in Present \ coal.pend.stat : Known(n)
      /\ BeingSent => /\ WellMade(pump.frame.msg)
                      /\ \A n \in Nodes : Lean(pump.frame.msg, n) => Ends(n)

ViewerChained == Chained(down, client.awaiting, tree)

TInv == IInv /\ Typed /\ Counted /\ Collected /\ Fenced /\ Synced /\ ViewerChained

LEMMA PresentNodes == Present \subseteq Nodes
BY DEF Present

\* What the game does to a node, and what it tells the stream of it.
LEMMA EditOfANode ==
    ASSUME TInv, NEW n \in Nodes, Edit(n)
    PROVE  \E kind \in Kinds : \E ord :
             /\ QueueSceneDelta(n, kind, ord)
             /\ scene' \in [Nodes -> Content \cup {Gone}]
             /\ Lists(order', Present')
             /\ Present' = IF kind = "removed" THEN Present \ {n} ELSE Present \cup {n}
             /\ kind \in {"sticky", "volatile"} => n \in Present
             /\ UNCHANGED <<monitor, refresh, waiting, down, up, client, tree, drawn>>
             /\ budget' = [budget EXCEPT !.edits = @ - 1]
<1>1. scene \in [Nodes -> Content \cup {Gone}] /\ Lists(order, Present)
  BY DEF TInv, Typed
<1>2. Gone \notin Content
  BY DEF Gone, Blank, Content, Bit, Omitted
<1>3. UNCHANGED <<monitor, refresh, waiting, down, up, client, tree, drawn>> /\ budget' = [budget EXCEPT !.edits = @ - 1]
  BY DEF Edit
<1>4. ASSUME NEW s \in Bit, NEW front \in BOOLEAN, scene[n] = Gone,
             scene' = [scene EXCEPT ![n] = [stat |-> s, stick |-> s, vol |-> 0]],
             order' = IF front THEN <<n>> \o order ELSE Append(order, n)
      PROVE  /\ scene' \in [Nodes -> Content \cup {Gone}]
             /\ Lists(order', Present') /\ Present' = Present \cup {n}
  <2>1. [stat |-> s, stick |-> s, vol |-> 0] \in Content
    BY DEF Content, Bit
  <2>2. PICK x : x = [stat |-> s, stick |-> s, vol |-> 0]
    OBVIOUS
  <2>3. x \in Content /\ scene' = [scene EXCEPT ![n] = x]
    BY <1>4, <2>1, <2>2
  <2>4. scene' \in [Nodes -> Content \cup {Gone}]
    BY <1>1, <2>3
  <2>5. Present' = Present \cup {n} /\ n \notin Present
    BY <1>1, <1>2, <1>4, <2>3 DEF Present
  <2>6. Lists(Append(order, n), Present \cup {n}) /\ Lists(<<n>> \o order, Present \cup {n})
    BY <1>1, <2>5, ListedMore
  <2> QED BY <1>4, <2>4, <2>5, <2>6
<1>5. ASSUME scene[n] # Gone, scene' = [scene EXCEPT ![n] = Gone],
             NEW i \in DOMAIN order, order[i] = n, order' = RemoveAt(order, i)
      PROVE  /\ scene' \in [Nodes -> Content \cup {Gone}]
             /\ Lists(order', Present') /\ Present' = Present \ {n}
  <2>1. scene' \in [Nodes -> Content \cup {Gone}]
    BY <1>1, <1>5
  <2>2. Present' = Present \ {n}
    BY <1>1, <1>5 DEF Present
  <2>3. i \in 1..Len(order)
    BY <1>1, ListedOnce
  <2>4. Lists(RemoveAt(order, i), Present \ {order[i]})
    BY <1>1, <2>3, ListedLess
  <2> QED BY <1>5, <2>1, <2>2, <2>4
<1>6. ASSUME scene[n] # Gone, UNCHANGED order,
             scene' = [scene EXCEPT ![n].vol = 1 - @] \/ scene' = [scene EXCEPT ![n].stick = 1 - @]
      PROVE  /\ scene' \in [Nodes -> Content \cup {Gone}]
             /\ Lists(order', Present') /\ Present' = Present \cup {n} /\ n \in Present
  <2>1. scene[n] \in Content
    BY <1>1, <1>6
  <2>2. PICK x : x = scene[n]
    OBVIOUS
  <2>3. [x EXCEPT !.vol = 1 - @] \in Content /\ [x EXCEPT !.stick = 1 - @] \in Content
    BY <2>1, <2>2 DEF Content, Bit
  <2>4. PICK y : y \in Content /\ scene' = [scene EXCEPT ![n] = y]
    BY <1>6, <2>2, <2>3
  <2>5. scene' \in [Nodes -> Content \cup {Gone}]
    BY <1>1, <2>4
  <2>6. Present' = Present /\ n \in Present
    BY <1>1, <1>2, <1>6, <2>4 DEF Present
  <2> QED BY <1>1, <1>6, <2>5, <2>6
<1>7. CASE \E s \in Bit, front \in BOOLEAN :
             /\ scene[n] = Gone
             /\ scene' = [scene EXCEPT ![n] = [stat |-> s, stick |-> s, vol |-> 0]]
             /\ order' = IF front THEN <<n>> \o order ELSE Append(order, n)
             /\ QueueSceneDelta(n, "static", order')
  BY <1>3, <1>4, <1>7 DEF Kinds
<1>8. CASE /\ scene[n] # Gone /\ scene' = [scene EXCEPT ![n] = Gone]
           /\ \E i \in DOMAIN order : order[i] = n /\ order' = RemoveAt(order, i)
           /\ QueueSceneDelta(n, "removed", order')
  BY <1>3, <1>5, <1>8 DEF Kinds
<1>9. CASE /\ scene[n] # Gone /\ scene' = [scene EXCEPT ![n].vol = 1 - @] /\ UNCHANGED order
           /\ QueueSceneDelta(n, "volatile", NoOrder)
  BY <1>3, <1>6, <1>9 DEF Kinds
<1>10. CASE /\ scene[n] # Gone /\ scene' = [scene EXCEPT ![n].stick = 1 - @] /\ UNCHANGED order
            /\ QueueSceneDelta(n, "sticky", NoOrder)
  BY <1>3, <1>6, <1>10 DEF Kinds
<1> QED BY <1>7, <1>8, <1>9, <1>10 DEF Edit

\* What the game's update does to the host's side.
LEMMA EffectOfAnUpdate ==
    ASSUME TInv, NEW n, NEW kind \in Kinds, NEW ord, QueueSceneDelta(n, kind, ord)
    PROVE  /\ DOMAIN host' = DOMAIN host /\ host'.credit \in BOOLEAN
           /\ host'.requested = host.requested /\ host'.epoch = host.epoch /\ host'.ready = host.ready
           /\ host'.streaming = host.streaming
           /\ host'.streamGen = host.streamGen /\ host'.streamEpoch = host.streamEpoch
           /\ pump' = pump \/ (pump.pc = "idle" /\ pump'.pc = "take")
           /\ WantsSceneStream => coal' = Fold(coal, n, kind, ord)
           /\ ~WantsSceneStream => coal' = coal
<1>1. host.credit \in BOOLEAN
  BY DEF TInv, Typed
<1>2. DOMAIN host = {"requested", "epoch", "streaming", "ready", "credit", "streamGen", "streamEpoch"}
      /\ DOMAIN pump = {"pc", "frame"}
  BY DEF TInv, IInv, Shapes
<1>3. CASE ~WantsSceneStream
  BY <1>1, <1>3 DEF QueueSceneDelta
<1>4. CASE WantsSceneStream
  <2>1. PICK heal \in BOOLEAN :
          /\ coal' = Fold(coal, n, kind, ord)
          /\ host' = [host EXCEPT !.credit = host.credit \/ heal]
          /\ pump' = IF host.ready /\ pump.pc = "idle" /\ (host.credit \/ heal)
                     THEN [pump EXCEPT !.pc = "take"] ELSE pump
    BY <1>4 DEF QueueSceneDelta
  <2>2. pump' = pump \/ (pump.pc = "idle" /\ pump'.pc = "take")
    BY <1>2, <2>1
  <2> QED BY <1>1, <1>2, <1>4, <2>1, <2>2
<1> QED BY <1>3, <1>4


LEMMA CollectedHolds ==
    ASSUME TInv, Next
    PROVE  Collected'
<1> DEFINE Sound(c) ==
        /\ DOMAIN c = {"pend", "last", "pending"}
        /\ DOMAIN c.pend = {"full", "up", "stat", "stick", "rm", "ord"}
        /\ c.pend.full = FALSE
        /\ c.pend.stat \subseteq c.pend.stick
        /\ c.pend.stat \subseteq c.pend.up
        /\ c.pend.rm \cap c.pend.up = {}
<1>1. Sound(coal)
  BY DEF TInv, Collected
<1>2. Sound(Reset)
  BY DEF Reset, NoPending
<1>3. ASSUME NEW n, NEW kind \in Kinds, NEW ord PROVE Sound(Fold(coal, n, kind, ord))
  <2>1. PICK p : p = coal.pend
    OBVIOUS
  <2>2. CASE kind = "removed"
    <3> DEFINE q == [p EXCEPT !.up = @ \ {n}, !.stat = @ \ {n}, !.stick = @ \ {n},
                              !.rm = IF p.full THEN @ ELSE @ \cup {n}, !.ord = ord]
    <3>1. /\ DOMAIN q = {"full", "up", "stat", "stick", "rm", "ord"}
          /\ q.full = FALSE /\ q.stat \subseteq q.stick /\ q.stat \subseteq q.up /\ q.rm \cap q.up = {}
      BY <1>1, <2>1
    <3>2. Fold(coal, n, kind, ord) = [coal EXCEPT !.pending = TRUE, !.pend = q]
      BY <2>1, <2>2 DEF Fold
    <3> HIDE DEF q
    <3> QED BY <1>1, <3>1, <3>2
  <2>3. CASE kind # "removed"
    <3> DEFINE q == [p EXCEPT !.up = @ \cup {n}, !.rm = @ \ {n},
                              !.stat = @ \cup (IF kind = "static" THEN {n} ELSE {}),
                              !.stick = @ \cup (IF kind \in {"static", "sticky"} THEN {n} ELSE {}),
                              !.ord = IF ord = NoOrder THEN @ ELSE ord]
    <3>1. /\ DOMAIN q = {"full", "up", "stat", "stick", "rm", "ord"}
          /\ q.full = FALSE /\ q.stat \subseteq q.stick /\ q.stat \subseteq q.up /\ q.rm \cap q.up = {}
      BY <1>1, <2>1
    <3>2. Fold(coal, n, kind, ord) = [coal EXCEPT !.pending = TRUE, !.pend = q]
      BY <2>1, <2>3 DEF Fold
    <3> HIDE DEF q
    <3> QED BY <1>1, <3>1, <3>2
  <2> QED BY <2>2, <2>3
<1>4. Sound([Taken(coal) EXCEPT !.pending = FALSE])
  BY DEF Taken, NoPending
<1>5. Sound(coal') => Collected'
  BY DEF Collected
<1> HIDE DEF Sound
<1>6. ASSUME NEW n \in Nodes, Edit(n) PROVE Sound(coal')
  <2>1. PICK kind, ord : kind \in Kinds /\ QueueSceneDelta(n, kind, ord)
    BY <1>6, EditOfANode
  <2>2. coal' = coal \/ coal' = Fold(coal, n, kind, ord)
    BY <2>1 DEF QueueSceneDelta
  <2> QED BY <1>1, <1>3, <2>1, <2>2
<1>7. CASE DrainTake
  <2>1. coal' = coal \/ coal' = [Taken(coal) EXCEPT !.pending = FALSE]
    BY <1>7 DEF DrainTake
  <2> QED BY <1>1, <1>4, <1>5, <2>1
<1>8. CASE RefreshReads \/ RefreshTurnsOn
  <2>1. coal' = coal \/ coal' = Reset
    BY <1>8 DEF RefreshReads, RefreshTurnsOn
  <2> QED BY <1>1, <1>2, <1>5, <2>1
<1>9. ASSUME UNCHANGED coal PROVE Sound(coal')
  BY <1>1, <1>9
<1>10. CASE AccessChanges \/ SendWatch \/ DrainSend \/ RefreshStarts \/ RefreshTells \/ BuildKeyframe
            \/ SendSceneKeyframe \/ EnableScenePump \/ RefreshEnds \/ ReceiveWatch \/ GrantSceneCredit
            \/ SocketOpens \/ HostAccessArrives \/ SceneDeltaArrives \/ SendSceneAck
  BY <1>5, <1>9, <1>10 DEF AccessChanges, SendWatch, DrainSend, RefreshStarts, RefreshTells, BuildKeyframe,
       SendSceneKeyframe, EnableScenePump, RefreshEnds, ReceiveWatch, GrantSceneCredit,
       SocketOpens, HostAccessArrives, SceneDeltaArrives, SendSceneAck
<1> QED BY <1>5, <1>6, <1>7, <1>8, <1>10 DEF Next, System

LEMMA CountedHolds ==
    ASSUME TInv, Next
    PROVE  Counted'
<1>0. /\ Counted
      /\ DOMAIN host = {"requested", "epoch", "streaming", "ready", "credit", "streamGen", "streamEpoch"}
      /\ DOMAIN refresh = {"pc", "by", "gen", "epoch", "frame"}
      /\ DOMAIN pump = {"pc", "frame"}
      /\ monitor.gen \in Nat /\ refresh.gen \in Nat /\ host.streamGen \in Nat
  BY DEF TInv, IInv, Shapes
<1>t. MaxTurns \in Nat
  BY BoundsAssumption
\* Most steps leave the counters alone.
<1>1. ASSUME budget'.turns = budget.turns, DOMAIN budget' = DOMAIN budget, UNCHANGED monitor,
             host'.epoch = host.epoch,
             host'.streamGen = host.streamGen, host'.streamEpoch = host.streamEpoch,
             refresh'.gen = refresh.gen \/ refresh'.gen = 0, refresh'.epoch = refresh.epoch \/ refresh'.epoch = 0,
             pump' = pump \/ pump'.pc # "send"
      PROVE  Counted'
  BY <1>0, <1>1 DEF Counted
<1>2. ASSUME NEW n \in Nodes, Edit(n) PROVE Counted'
  <2>1. PICK kind, ord :
             /\ kind \in Kinds
             /\ QueueSceneDelta(n, kind, ord)
             /\ UNCHANGED <<monitor, refresh>>
             /\ budget' = [budget EXCEPT !.edits = @ - 1]
    BY <1>2, EditOfANode
  <2>2. /\ host'.epoch = host.epoch
        /\ host'.streamGen = host.streamGen /\ host'.streamEpoch = host.streamEpoch
        /\ pump' = pump \/ pump'.pc # "send"
    BY <2>1, EffectOfAnUpdate
  <2>3. budget'.turns = budget.turns /\ DOMAIN budget' = DOMAIN budget
    BY <1>0, <2>1 DEF Counted
  <2> QED BY <1>1, <2>1, <2>2, <2>3
<1>3. CASE AccessChanges
  <2>1. monitor'.gen = monitor.gen + 1 /\ UNCHANGED <<host, pump, refresh>>
    BY <1>3 DEF AccessChanges
  <2>2. budget.turns > 0 /\ budget'.turns = budget.turns - 1 /\ DOMAIN budget' = DOMAIN budget
    BY <1>0, <1>3 DEF AccessChanges, TakesTurn, Counted
  <2> QED BY <1>0, <1>t, <2>1, <2>2 DEF Counted
<1>4. CASE SendWatch
  <2>1. UNCHANGED <<monitor, host, pump, refresh>>
    BY <1>4 DEF SendWatch
  <2>2. budget.turns > 0 /\ budget'.turns = budget.turns - 1 /\ DOMAIN budget' = DOMAIN budget
    BY <1>0, <1>4 DEF SendWatch, TakesTurn, Counted
  <2> QED BY <1>0, <1>t, <2>1, <2>2 DEF Counted
<1>5. CASE DrainTake
  <2>1. UNCHANGED <<monitor, refresh, budget>>
    BY <1>5 DEF DrainTake
  <2>2. \/ UNCHANGED host
        \/ host' = [host EXCEPT !.credit = FALSE]
    BY <1>5 DEF DrainTake
  <2>3. host'.epoch = host.epoch /\ host'.streamGen = host.streamGen /\ host'.streamEpoch = host.streamEpoch
    BY <1>0, <2>2
  <2>4. CASE pump'.pc # "send"
    BY <1>1, <2>1, <2>3, <2>4
  <2>5. CASE pump'.pc = "send"
    <3>1. PICK f : pump' = [pc |-> "send", frame |-> [gen |-> host.streamGen, epoch |-> host.streamEpoch, msg |-> f]]
      BY <1>5, <2>5 DEF DrainTake, Idle
    <3>2. pump'.frame.gen = host.streamGen /\ pump'.frame.epoch = host.streamEpoch
      BY <3>1
    <3> QED BY <1>0, <2>1, <2>3, <3>2 DEF Counted
  <2> QED BY <2>4, <2>5
<1>6. CASE DrainSend \/ SocketOpens \/ HostAccessArrives \/ SceneDeltaArrives \/ SendSceneAck
  <2>1. UNCHANGED <<monitor, refresh, budget, host>> /\ (pump' = pump \/ pump'.pc # "send")
    BY <1>6 DEF DrainSend, SocketOpens, HostAccessArrives, SceneDeltaArrives, SendSceneAck
  <2> QED BY <1>1, <2>1
<1>7. CASE RefreshStarts
  <2>1. UNCHANGED <<monitor, host, pump, budget>>
    BY <1>7 DEF RefreshStarts
  <2>2. refresh'.gen = 0 /\ refresh'.epoch = 0
    BY <1>7 DEF RefreshStarts, NoRefresh
  <2> QED BY <1>1, <2>1, <2>2
<1>8. CASE RefreshReads
  <2>1. UNCHANGED <<monitor, pump, budget>>
    BY <1>8 DEF RefreshReads
  <2>2. refresh'.gen = monitor.gen /\ refresh'.epoch = host.epoch
    BY <1>0, <1>8 DEF RefreshReads
  <2>3. host' = StreamOff \/ host' = host
    BY <1>8 DEF RefreshReads
  <2>4. host'.epoch = host.epoch /\ host'.streamGen = host.streamGen /\ host'.streamEpoch = host.streamEpoch
    BY <1>0, <2>3 DEF StreamOff
  <2> QED BY <1>0, <2>1, <2>2, <2>4 DEF Counted
<1>9. CASE RefreshTells \/ BuildKeyframe \/ SendSceneKeyframe
  <2>1. UNCHANGED <<monitor, pump, budget, host>>
    BY <1>9 DEF RefreshTells, BuildKeyframe, SendSceneKeyframe
  <2>2. refresh'.gen = refresh.gen /\ refresh'.epoch = refresh.epoch
    BY <1>0, <1>9 DEF RefreshTells, BuildKeyframe, SendSceneKeyframe
  <2> QED BY <1>1, <2>1, <2>2
<1>10. CASE RefreshTurnsOn
  <2>1. UNCHANGED <<monitor, pump, budget>> /\ refresh'.gen = refresh.gen /\ refresh'.epoch = refresh.epoch
    BY <1>0, <1>10 DEF RefreshTurnsOn
  <2>2. host'.epoch = host.epoch
        /\ \/ host'.streamGen = host.streamGen /\ host'.streamEpoch = host.streamEpoch
           \/ host'.streamGen = refresh.gen /\ host'.streamEpoch = refresh.epoch
    BY <1>0, <1>10 DEF RefreshTurnsOn
  <2> QED BY <1>0, <2>1, <2>2 DEF Counted
<1>11. CASE EnableScenePump
  <2>1. UNCHANGED <<monitor, budget>> /\ refresh'.gen = refresh.gen /\ refresh'.epoch = refresh.epoch
    BY <1>0, <1>11 DEF EnableScenePump
  <2>2. host'.epoch = host.epoch /\ host'.streamGen = host.streamGen /\ host'.streamEpoch = host.streamEpoch
    BY <1>0, <1>11 DEF EnableScenePump
  <2>3. pump' = pump \/ pump'.pc = "take"
    BY <1>0, <1>11 DEF EnableScenePump
  <2> QED BY <1>1, <2>1, <2>2, <2>3
<1>12. CASE RefreshEnds
  <2>1. UNCHANGED <<monitor, host, pump, budget>> /\ refresh'.gen = 0 /\ refresh'.epoch = 0
    BY <1>12 DEF RefreshEnds, NoRefresh
  <2> QED BY <1>1, <2>1
<1>13. CASE ReceiveWatch
  <2>1. UNCHANGED <<monitor, refresh, pump, budget>>
    BY <1>13 DEF ReceiveWatch
  <2>2. host'.streamGen = host.streamGen /\ host'.streamEpoch = host.streamEpoch
        /\ (host'.epoch = host.epoch \/ host'.epoch = host.epoch + 1)
    BY <1>0, <1>13 DEF ReceiveWatch
  <2> QED BY <1>0, <2>1, <2>2 DEF Counted
<1>14. CASE GrantSceneCredit
  <2>1. UNCHANGED <<monitor, refresh, budget>>
    BY <1>14 DEF GrantSceneCredit
  <2>2. host'.epoch = host.epoch /\ host'.streamGen = host.streamGen /\ host'.streamEpoch = host.streamEpoch
    BY <1>0, <1>14 DEF GrantSceneCredit
  <2>3. pump' = pump \/ pump'.pc = "take"
    BY <1>0, <1>14 DEF GrantSceneCredit
  <2> QED BY <1>1, <2>1, <2>2, <2>3
<1> QED BY <1>2, <1>3, <1>4, <1>5, <1>6, <1>7, <1>8, <1>9, <1>10, <1>11, <1>12, <1>13, <1>14 DEF Next, System


LEMMA KeyframesAreWellMade ==
    ASSUME TInv
    PROVE  /\ WellMade(Keyframe) /\ Keyframe.full
           /\ \A n \in Present : Gives(Keyframe, n)
<1>1. scene \in [Nodes -> Content \cup {Gone}]
  BY DEF TInv, Typed
<1>2. Keyframe.type = "scene" /\ Keyframe.full = TRUE /\ Keyframe.nodes = scene /\ Keyframe.rm = {}
  BY DEF Keyframe
<1>3. WellMade(Keyframe)
  BY <1>1, <1>2 DEF WellMade, Upserts, Gone, NotSent
<1>4. ASSUME NEW n \in Present PROVE Gives(Keyframe, n)
  <2>1. n \in Nodes /\ scene[n] \in Content /\ scene[n] # Gone
    BY <1>1, PresentNodes DEF Present
  <2> QED BY <1>2, <2>1 DEF Gives, Supplies, Upserts, Gone, NotSent, Content, Bit, Omitted
<1> QED BY <1>2, <1>3, <1>4

LEMMA FencedHolds ==
    ASSUME TInv, Next
    PROVE  Fenced'
<1>0. /\ Fenced /\ Counted
      /\ DOMAIN host = {"requested", "epoch", "streaming", "ready", "credit", "streamGen", "streamEpoch"}
      /\ DOMAIN refresh = {"pc", "by", "gen", "epoch", "frame"}
      /\ DOMAIN pump = {"pc", "frame"}
      /\ monitor.gen \in Nat /\ refresh.gen \in Nat /\ host.streamGen \in Nat
  BY DEF TInv, IInv, Shapes
<1>1. ASSUME pump' = pump \/ pump'.pc # "send",
             host'.streaming = host.streaming,
             host'.streamGen = host.streamGen, host'.streamEpoch = host.streamEpoch,
             pump.pc = "send" /\ ~AllowsWork(pump.frame.gen, pump.frame.epoch) =>
                 ~AllowsWork(pump.frame.gen, pump.frame.epoch)',
             \/ refresh'.pc \notin {"build", "keyframe"}
             \/ UNCHANGED refresh /\ host'.ready = host.ready
      PROVE  Fenced'
  <2>1. pump'.pc = "send" => ~AllowsWork(pump.frame.gen, pump.frame.epoch)' \/ Current(pump.frame)'
    <3> SUFFICES ASSUME pump'.pc = "send" PROVE ~AllowsWork(pump.frame.gen, pump.frame.epoch)' \/ Current(pump.frame)'
      OBVIOUS
    <3>1. pump' = pump /\ pump.pc = "send"
      BY <1>1
    <3>2. CASE Current(pump.frame)
      BY <1>1, <3>1, <3>2 DEF Current
    <3> QED BY <1>0, <1>1, <3>1, <3>2 DEF Fenced
  <2>2. CASE refresh'.pc \notin {"build", "keyframe"}
    BY <2>1, <2>2 DEF Fenced
  <2>3. CASE UNCHANGED refresh /\ host'.ready = host.ready
    <3>1. \A f : Current(f)' = Current(f)
      BY <1>1 DEF Current
    <3>2. refresh'.pc \in {"build", "keyframe"} =>
            /\ ~host'.ready /\ host'.streaming
            /\ host'.streamGen = refresh'.gen /\ host'.streamEpoch = refresh'.epoch
            /\ pump'.pc = "send" => ~Current(pump.frame)'
      <4>1. CASE pump' = pump
        BY <1>0, <1>1, <2>3, <4>1 DEF Fenced, Current
      <4>2. CASE pump'.pc # "send"
        BY <1>0, <1>1, <2>3, <4>2 DEF Fenced
      <4> QED BY <1>1, <4>1, <4>2
    <3>3. refresh'.pc = "keyframe" => /\ Current(refresh.frame)'
                                      /\ WellMade(refresh'.frame.msg) /\ refresh'.frame.msg.full
      BY <1>0, <1>1, <2>3 DEF Fenced, Current
    <3> QED BY <2>1, <3>2, <3>3 DEF Fenced
  <2> QED BY <1>1, <2>2, <2>3
\* The fence of a frame in hand is where it was.
<1>2. ASSUME UNCHANGED monitor, host'.epoch = host.epoch, host'.requested = host.requested,
             pump' = pump \/ pump'.pc # "send",
             pump.pc = "send", pump'.pc = "send", ~AllowsWork(pump.frame.gen, pump.frame.epoch)
      PROVE  ~AllowsWork(pump.frame.gen, pump.frame.epoch)'
  BY <1>2 DEF AllowsWork, Allowed
<1>3. ASSUME UNCHANGED monitor, host'.epoch = host.epoch, host'.requested = host.requested,
             pump' = pump \/ pump'.pc # "send",
             host'.streaming = host.streaming,
             host'.streamGen = host.streamGen, host'.streamEpoch = host.streamEpoch,
             \/ refresh'.pc \notin {"build", "keyframe"}
             \/ UNCHANGED refresh /\ host'.ready = host.ready
      PROVE  Fenced'
  <2>1. CASE pump' = pump
    BY <1>1, <1>2, <1>3, <2>1
  <2>2. CASE pump'.pc # "send" /\ pump.pc # "send"
    BY <1>1, <1>3, <2>2
  <2>3. CASE pump'.pc # "send" /\ pump.pc = "send"
    <3>1. \A f : Current(f)' = Current(f)
      BY <1>3 DEF Current
    <3> QED BY <1>0, <1>3, <2>3, <3>1 DEF Fenced, Current
  <2> QED BY <1>3, <2>1, <2>2, <2>3
<1>4. ASSUME NEW n \in Nodes, Edit(n) PROVE Fenced'
  <2>1. PICK kind, ord : kind \in Kinds /\ QueueSceneDelta(n, kind, ord) /\ UNCHANGED <<monitor, refresh>>
    BY <1>4, EditOfANode
  <2>2. /\ host'.requested = host.requested /\ host'.epoch = host.epoch /\ host'.ready = host.ready
        /\ host'.streaming = host.streaming
        /\ host'.streamGen = host.streamGen /\ host'.streamEpoch = host.streamEpoch
        /\ pump' = pump \/ pump'.pc # "send"
    BY <2>1, EffectOfAnUpdate
  <2> QED BY <1>3, <2>1, <2>2
<1>5. CASE AccessChanges
  <2>1. monitor'.gen = monitor.gen + 1 /\ UNCHANGED <<host, pump, refresh>>
    BY <1>5 DEF AccessChanges
  <2>2. pump.pc = "send" => ~AllowsWork(pump.frame.gen, pump.frame.epoch)'
    BY <1>0, <2>1 DEF AllowsWork, Allowed, Counted
  <2> QED BY <1>1, <2>1, <2>2
<1>6. CASE SendWatch \/ SocketOpens \/ HostAccessArrives \/ SceneDeltaArrives \/ SendSceneAck
  <2>1. UNCHANGED <<monitor, refresh, host, pump>>
    BY <1>6 DEF SendWatch, SocketOpens, HostAccessArrives, SceneDeltaArrives, SendSceneAck
  <2> QED BY <1>3, <2>1
<1>7. CASE DrainTake
  <2>1. UNCHANGED <<monitor, refresh>>
    BY <1>7 DEF DrainTake
  <2>2. host' = host \/ host' = [host EXCEPT !.credit = FALSE]
    BY <1>7 DEF DrainTake
  <2>3. /\ host'.requested = host.requested /\ host'.epoch = host.epoch /\ host'.ready = host.ready
        /\ host'.streaming = host.streaming
        /\ host'.streamGen = host.streamGen /\ host'.streamEpoch = host.streamEpoch
    BY <1>0, <2>2
  <2>4. CASE pump'.pc # "send"
    BY <1>3, <2>1, <2>3, <2>4
  <2>5. CASE pump'.pc = "send"
    <3>1. PICK f : pump' = [pc |-> "send", frame |-> [gen |-> host.streamGen, epoch |-> host.streamEpoch, msg |-> f]]
      BY <1>7, <2>5 DEF DrainTake, Idle
    <3>2. WantsSceneStream /\ host.ready
      BY <1>7, <2>5 DEF DrainTake, Idle
    <3>3. Current(pump.frame)'
      BY <2>3, <3>1, <3>2 DEF Current, WantsSceneStream
    <3>4. refresh'.pc \notin {"build", "keyframe"}
      BY <1>0, <2>1, <3>2 DEF Fenced
    <3> QED BY <3>3, <3>4 DEF Fenced
  <2> QED BY <2>4, <2>5
<1>8. CASE DrainSend
  <2>1. UNCHANGED <<monitor, refresh, host>> /\ pump'.pc = "take"
    BY <1>8 DEF DrainSend
  <2> QED BY <1>3, <2>1
<1>9. CASE RefreshStarts \/ RefreshTells \/ SendSceneKeyframe \/ RefreshEnds
  <2>1. UNCHANGED <<monitor, host, pump>>
    BY <1>9 DEF RefreshStarts, RefreshTells, SendSceneKeyframe, RefreshEnds
  <2>2. refresh'.pc \notin {"build", "keyframe"}
    <3>1. DOMAIN NoRefresh = {"pc", "by", "gen", "epoch", "frame"} /\ NoRefresh.pc = "none"
      BY DEF NoRefresh
    <3>2. PICK r : r = NoRefresh
      OBVIOUS
    <3>3. CASE RefreshStarts
      <4>1. \E w \in {"task", "loop"} : refresh' = [r EXCEPT !.pc = "start", !.by = w]
        BY <3>2, <3>3 DEF RefreshStarts
      <4> QED BY <3>1, <3>2, <4>1
    <3>4. CASE RefreshTells \/ SendSceneKeyframe
      BY <1>0, <3>4 DEF RefreshTells, SendSceneKeyframe
    <3>5. CASE RefreshEnds
      BY <3>1, <3>5 DEF RefreshEnds
    <3> QED BY <1>9, <3>3, <3>4, <3>5
  <2> QED BY <1>3, <2>1, <2>2
<1>10. CASE RefreshReads
  <2>1. UNCHANGED <<monitor, pump>> /\ refresh'.pc = "tell"
    BY <1>0, <1>10 DEF RefreshReads
  <2>2. CASE host' = host
    BY <1>3, <2>1, <2>2
  <2>3. CASE host' # host
    <3>1. /\ host' = StreamOff
          /\ ~monitor.allowed \/ host.streamGen # monitor.gen \/ host.streamEpoch # host.epoch \/ ~host.requested
      BY <1>10, <2>3 DEF RefreshReads
    <3>2. host'.epoch = host.epoch /\ host'.requested = host.requested
      BY <1>0, <3>1 DEF StreamOff
    <3>3. pump'.pc = "send" => ~AllowsWork(pump.frame.gen, pump.frame.epoch)
      BY <1>0, <2>1, <3>1 DEF Fenced, Current, AllowsWork, Allowed
    <3>4. pump'.pc = "send" => ~AllowsWork(pump.frame.gen, pump.frame.epoch)'
      BY <2>1, <3>2, <3>3 DEF AllowsWork, Allowed
    <3> QED BY <2>1, <3>4 DEF Fenced
  <2> QED BY <2>2, <2>3
<1>11. CASE RefreshTurnsOn
  <2>1. UNCHANGED <<monitor, pump>> /\ refresh.pc = "on"
    BY <1>11 DEF RefreshTurnsOn
  <2>2. CASE AllowsWork(refresh.gen, refresh.epoch) /\ ~host.streaming
    <3>1. /\ host'.epoch = host.epoch /\ host'.requested = host.requested
          /\ host'.ready = FALSE /\ host'.streaming = TRUE
          /\ host'.streamGen = refresh.gen /\ host'.streamEpoch = refresh.epoch
          /\ refresh'.pc = "build" /\ refresh'.gen = refresh.gen /\ refresh'.epoch = refresh.epoch
      BY <1>0, <1>11, <2>2 DEF RefreshTurnsOn
    <3>2. pump.pc = "send" => ~AllowsWork(pump.frame.gen, pump.frame.epoch)
      BY <1>0, <2>2 DEF Fenced, Current
    <3>3. pump'.pc = "send" => ~AllowsWork(pump.frame.gen, pump.frame.epoch)'
      BY <2>1, <3>1, <3>2 DEF AllowsWork, Allowed
    <3>4. pump'.pc = "send" => ~Current(pump.frame)'
      BY <2>1, <2>2, <3>1, <3>2 DEF Current, AllowsWork, Allowed
    <3> QED BY <3>1, <3>3, <3>4 DEF Fenced
  <2>3. CASE ~(AllowsWork(refresh.gen, refresh.epoch) /\ ~host.streaming)
    <3>1. UNCHANGED host /\ refresh'.pc = "end"
      BY <1>0, <1>11, <2>3 DEF RefreshTurnsOn
    <3> QED BY <1>3, <2>1, <3>1
  <2> QED BY <2>2, <2>3
<1>12. CASE BuildKeyframe
  <2>1. UNCHANGED <<monitor, host, pump>> /\ refresh.pc = "build"
    BY <1>12 DEF BuildKeyframe
  <2>2. PICK k : k = Keyframe
    OBVIOUS
  <2>3. refresh' = [refresh EXCEPT !.pc = "keyframe",
                      !.frame = [gen |-> refresh.gen, epoch |-> refresh.epoch, msg |-> k]]
    BY <1>12, <2>2 DEF BuildKeyframe
  <2>4. /\ refresh'.pc = "keyframe" /\ refresh'.gen = refresh.gen /\ refresh'.epoch = refresh.epoch
        /\ refresh'.frame.gen = refresh.gen /\ refresh'.frame.epoch = refresh.epoch /\ refresh'.frame.msg = k
    BY <1>0, <2>3
  <2>5. WellMade(k) /\ k.full
    BY <2>2, KeyframesAreWellMade
  <2>6. pump'.pc = "send" => ~AllowsWork(pump.frame.gen, pump.frame.epoch)' /\ ~Current(pump.frame)'
    BY <1>0, <2>1 DEF Fenced, AllowsWork, Allowed, Current
  <2>7. /\ ~host'.ready /\ host'.streaming
        /\ host'.streamGen = refresh'.gen /\ host'.streamEpoch = refresh'.epoch
        /\ Current(refresh.frame)'
    BY <1>0, <2>1, <2>4 DEF Fenced, Current
  <2> QED BY <2>4, <2>5, <2>6, <2>7 DEF Fenced
<1>13. CASE EnableScenePump
  <2>1. UNCHANGED monitor /\ refresh'.pc = "end"
    BY <1>0, <1>13 DEF EnableScenePump
  <2>2. /\ host'.requested = host.requested /\ host'.epoch = host.epoch
        /\ host'.streaming = host.streaming
        /\ host'.streamGen = host.streamGen /\ host'.streamEpoch = host.streamEpoch
    BY <1>0, <1>13 DEF EnableScenePump
  <2>3. pump' = pump \/ pump'.pc = "take"
    BY <1>0, <1>13 DEF EnableScenePump
  <2> QED BY <1>3, <2>1, <2>2, <2>3
<1>14. CASE ReceiveWatch
  <2>1. UNCHANGED <<monitor, refresh, pump>>
    BY <1>14 DEF ReceiveWatch
  <2>2. /\ host'.ready = host.ready /\ host'.streaming = host.streaming
        /\ host'.streamGen = host.streamGen /\ host'.streamEpoch = host.streamEpoch
        /\ \/ host'.epoch = host.epoch /\ host'.requested = host.requested
           \/ host'.epoch = host.epoch + 1
    BY <1>0, <1>14 DEF ReceiveWatch
  <2>3. pump.pc = "send" /\ ~AllowsWork(pump.frame.gen, pump.frame.epoch) =>
          ~AllowsWork(pump.frame.gen, pump.frame.epoch)'
    BY <1>0, <2>1, <2>2 DEF AllowsWork, Allowed, Counted
  <2> QED BY <1>1, <2>1, <2>2, <2>3
<1>15. CASE GrantSceneCredit
  <2>1. UNCHANGED <<monitor, refresh>>
    BY <1>15 DEF GrantSceneCredit
  <2>2. /\ host'.requested = host.requested /\ host'.epoch = host.epoch /\ host'.ready = host.ready
        /\ host'.streaming = host.streaming
        /\ host'.streamGen = host.streamGen /\ host'.streamEpoch = host.streamEpoch
    BY <1>0, <1>15 DEF GrantSceneCredit
  <2>3. pump' = pump \/ pump'.pc = "take"
    BY <1>0, <1>15 DEF GrantSceneCredit
  <2> QED BY <1>3, <2>1, <2>2, <2>3
<1> QED BY <1>4, <1>5, <1>6, <1>7, <1>8, <1>9, <1>10, <1>11, <1>12, <1>13, <1>14, <1>15 DEF Next, System


-----------------------------------------------------------------------------
(* The viewer's end                                                         *)

\* The node that a frame leaves: it is complete, or there is none.
LEMMA MergedNode ==
    ASSUME NEW f, WellMade(f), NEW n \in Nodes, NEW old \in Content \cup {Gone}, Lean(f, n) => old # Gone
    PROVE  LET new == CASE f.nodes[n] # NotSent -> MergeNode(IF n \in f.rm THEN Gone ELSE old, f.nodes[n])
                        [] OTHER -> IF n \in f.rm THEN Gone ELSE old
           IN  /\ new \in Content \cup {Gone}
               /\ Upserts(f, n) => new # Gone
               /\ old # Gone /\ n \notin f.rm => new # Gone
<1> DEFINE u == f.nodes[n]
<1> DEFINE new == CASE u # NotSent -> MergeNode(IF n \in f.rm THEN Gone ELSE old, u)
                    [] OTHER -> IF n \in f.rm THEN Gone ELSE old
<1>0. Gone = NotSent /\ Gone \notin Content
  BY DEF Gone, NotSent, Blank, Content, Bit, Omitted
<1>1. u = NotSent \/ u \in Content \/ u \in Moved
  BY DEF WellMade
<1>2. CASE u = NotSent
  <2>1. new = IF n \in f.rm THEN Gone ELSE old
    BY <1>2
  <2> HIDE DEF new
  <2>2. /\ new \in Content \cup {Gone} /\ ~Upserts(f, n)
        /\ old # Gone /\ n \notin f.rm => new # Gone
    BY <1>2, <2>1 DEF Upserts
  <2> QED BY <2>2 DEF new
<1>3. CASE u # NotSent
  <2>1. n \notin f.rm
    BY <1>3 DEF WellMade, Upserts
  <2>2. new = MergeNode(old, u)
    BY <1>3, <2>1
  <2> HIDE DEF new
  <2>3. CASE u \in Content
    <3>1. u.stat # Omitted
      BY <2>3 DEF Content, Bit, Omitted
    <3>2. new = u
      BY <2>2, <3>1 DEF MergeNode
    <3>3. new \in Content /\ new # Gone
      BY <1>0, <2>3, <3>2
    <3> QED BY <3>3 DEF new
  <2>4. CASE u \in Moved
    <3>1. u.stat = Omitted /\ u.stick \in Bit \cup {Omitted} /\ u.vol \in Bit
      BY <2>4 DEF Moved
    <3>2. old # Gone /\ old \in Content
      BY <1>3, <3>1 DEF Lean, Upserts
    <3>3. new = [stat |-> old.stat, stick |-> IF u.stick = Omitted THEN old.stick ELSE u.stick, vol |-> u.vol]
      BY <2>2, <3>1, <3>2 DEF MergeNode
    <3>4. PICK p, q, r : /\ p = old.stat /\ r = u.vol
                         /\ q = IF u.stick = Omitted THEN old.stick ELSE u.stick
      OBVIOUS
    <3>5. p \in Bit /\ q \in Bit /\ r \in Bit
      BY <3>1, <3>2, <3>4 DEF Content
    <3>6. new = [stat |-> p, stick |-> q, vol |-> r]
      BY <3>3, <3>4
    <3>7. new \in Content
      BY <3>5, <3>6 DEF Content
    <3>8. new # Gone
      BY <1>0, <3>7
    <3> QED BY <3>7, <3>8 DEF new
  <2> QED BY <1>1, <1>3, <2>3, <2>4
<1> QED BY <1>2, <1>3

\* The chain of what is on its way, and what is known at its end, survive a step.
Followed == ViewerChained' /\ \A n \in Nodes : Ends(n) => Ends(n)'

LEMMA QueueOfTheViewer == TInv => IsQueue(down)
BY DEF TInv, IInv, Fits

LEMMA FollowedWhenUntouched ==
    ASSUME TInv, UNCHANGED <<down, tree>>, client'.awaiting = client.awaiting
    PROVE  Followed
<1>1. ViewerChained'
  BY DEF TInv, ViewerChained, Chained, Carried, WellMade, Lean, Upserts, Full, Gives, Removes, Supplies, Drops
<1>2. \A n \in Nodes : Ends(n) => Ends(n)'
  BY DEF Ends, AtTheEnd, Carried, Full, Gives, Removes, Supplies, Drops, Upserts
<1> QED BY <1>1, <1>2 DEF Followed

LEMMA FollowedAtTheGate ==
    ASSUME TInv, SendWatch
    PROVE  Followed
<1>1. UNCHANGED <<down, tree>>
  BY DEF SendWatch
<1>2. client'.awaiting = TRUE
  BY DEF SendWatch, FlushWatch, TInv, IInv, Shapes
<1>3. PICK d, a, t : d = down /\ a = client.awaiting /\ t = tree
  OBVIOUS
<1>4. IsQueue(d) /\ Chained(d, a, t)
  BY <1>3, QueueOfTheViewer DEF TInv, ViewerChained
<1>5. /\ Chained(d, TRUE, t)
      /\ \A n \in Nodes : AtTheEnd(d, n, a, t[n] # Gone) => AtTheEnd(d, n, TRUE, t[n] # Gone)
  BY <1>4, ChainAtTheGate
<1> QED BY <1>1, <1>2, <1>3, <1>5 DEF Followed, ViewerChained, Ends

LEMMA FollowedByAVerdict ==
    ASSUME TInv, HostAccessArrives
    PROVE  Followed /\ client'.awaiting \in BOOLEAN /\ tree' \in [Nodes -> Content \cup {Gone}]
<1>1. down # <<>> /\ down' = Tail(down) /\ Head(down).type = "access" /\ UpdateHostAccess(Head(down).access)
  BY DEF HostAccessArrives
<1>2. Head(down) = down[1]
  BY <1>1, QueueOfTheViewer, Shorter
<1>3. client.awaiting \in BOOLEAN /\ tree \in [Nodes -> Content \cup {Gone}]
  BY DEF TInv, Typed
<1>4. /\ client'.awaiting \in BOOLEAN /\ tree' \in [Nodes -> Content \cup {Gone}]
      /\ client'.awaiting = TRUE \/ (client'.awaiting = client.awaiting /\ tree' = tree)
  <2>1. PICK x : x = Head(down).access
    OBVIOUS
  <2>2. CASE x.gen < client.access.gen
    BY <1>1, <1>3, <2>1, <2>2 DEF UpdateHostAccess
  <2>3. CASE ~(x.gen < client.access.gen)
    <3>1. PICK c, k : /\ k = (x.reset # client.access.reset)
                      /\ c = (x.gen # client.access.gen \/ k \/ ~x.allowed)
      OBVIOUS
    <3>2. client' = [client EXCEPT !.access = x,
                       !.awaiting = client.awaiting \/ c,
                       !.sceneGen = IF c THEN 0 ELSE client.sceneGen,
                       !.owed = client.owed /\ ~c]
      <4>1. client' = [client EXCEPT !.access = x,
                         !.awaiting = client.awaiting \/ x.gen # client.access.gen \/ x.reset # client.access.reset \/ ~x.allowed,
                         !.sceneGen = IF x.gen # client.access.gen \/ x.reset # client.access.reset \/ ~x.allowed
                                      THEN 0 ELSE client.sceneGen,
                         !.owed = client.owed
                                  /\ ~(x.gen # client.access.gen \/ x.reset # client.access.reset \/ ~x.allowed)]
        BY <1>1, <2>1, <2>3, Zenon DEF UpdateHostAccess
      <4> QED BY <3>1, <4>1
    <3>3. client'.awaiting = (client.awaiting \/ c)
      BY <3>2 DEF TInv, IInv, Shapes
    <3>4. IF k THEN tree' = [n \in Nodes |-> Gone] ELSE tree' = tree
      BY <1>1, <2>1, <2>3, <3>1 DEF UpdateHostAccess
    <3>5. k => c
      BY <3>1
    <3> QED BY <1>3, <3>3, <3>4, <3>5
  <2> QED BY <2>2, <2>3
<1>5. PICK d, a, t, c, u : /\ d = down /\ a = client.awaiting /\ t = tree
                           /\ c = client'.awaiting /\ u = tree'
  OBVIOUS
<1>6. IsQueue(d) /\ Chained(d, a, t) /\ d # <<>> /\ d[1].type # "scene"
  BY <1>1, <1>2, <1>5, QueueOfTheViewer DEF TInv, ViewerChained
<1>7. Handled(d[1], a, t, c, u)
  BY <1>4, <1>5, <1>6 DEF Handled
<1>8. /\ Chained(Tail(d), c, u)
      /\ \A n \in Nodes : AtTheEnd(d, n, a, t[n] # Gone) => AtTheEnd(Tail(d), n, c, u[n] # Gone)
  BY <1>6, <1>7, ChainTaken
<1> QED BY <1>1, <1>4, <1>5, <1>8 DEF Followed, ViewerChained, Ends

LEMMA FollowedByAFrame ==
    ASSUME TInv, SceneDeltaArrives
    PROVE  Followed /\ client'.awaiting \in BOOLEAN /\ tree' \in [Nodes -> Content \cup {Gone}]
<1>1. down # <<>> /\ down' = Tail(down) /\ Head(down).type = "scene"
  BY DEF SceneDeltaArrives
<1>2. Head(down) = down[1] /\ 1 \in 1..Len(down)
  BY <1>1, QueueOfTheViewer, Shorter
<1>3. client.awaiting \in BOOLEAN /\ tree \in [Nodes -> Content \cup {Gone}]
  BY DEF TInv, Typed
<1>4. PICK d, a, t, c, u, h : /\ d = down /\ a = client.awaiting /\ t = tree
                              /\ c = client'.awaiting /\ u = tree' /\ h = Head(down)
  OBVIOUS
<1>5. IsQueue(d) /\ Chained(d, a, t) /\ d # <<>> /\ d[1] = h /\ h.type = "scene" /\ WellMade(h)
  <2>1. IsQueue(d) /\ Chained(d, a, t)
    BY <1>4, QueueOfTheViewer DEF TInv, ViewerChained
  <2> QED BY <1>1, <1>2, <1>4, <2>1 DEF Chained
<1>6. CASE ~Applies(h)
  <2>1. a = TRUE
    <3>1. GapsAreKnown
      BY DEF TInv, IInv
    <3>2. client.awaiting
      BY <1>4, <1>6, <3>1 DEF Applies, GapsAreKnown
    <3> QED BY <1>3, <1>4, <3>2
  <2>2. c = a /\ u = t
    <3>1. client' = [client EXCEPT !.missed = TRUE] /\ UNCHANGED tree
      BY <1>4, <1>6 DEF SceneDeltaArrives
    <3> QED BY <1>4, <3>1 DEF TInv, IInv, Shapes
  <2>h. Handled(d[1], a, t, c, u)
    BY <2>1, <2>2 DEF Handled
  <2>3. /\ Chained(Tail(d), c, u)
        /\ \A n \in Nodes : AtTheEnd(d, n, a, t[n] # Gone) => AtTheEnd(Tail(d), n, c, u[n] # Gone)
    BY <1>5, <2>h, ChainTaken
  <2> QED BY <1>1, <1>3, <1>4, <2>2, <2>3 DEF Followed, ViewerChained, Ends
<1>7. CASE Applies(h)
  <2>1. c = FALSE
    <3>1. client' = [client EXCEPT !.awaiting = FALSE, !.sceneGen = client.access.gen,
                                   !.owed = TRUE, !.missed = client.missed /\ ~h.full]
      BY <1>4, <1>7 DEF SceneDeltaArrives
    <3> QED BY <1>4, <3>1 DEF TInv, IInv, Shapes
  <2>2. a => Full(h)
    BY <1>4, <1>5, <1>7 DEF Applies, Full
  <2> DEFINE base == IF h.full THEN [n \in Nodes |-> Gone] ELSE t
  <2>3. u = [n \in Nodes |->
               CASE h.nodes[n] # NotSent -> MergeNode(IF n \in h.rm THEN Gone ELSE base[n], h.nodes[n])
                 [] OTHER -> IF n \in h.rm THEN Gone ELSE base[n]]
    BY <1>4, <1>7 DEF SceneDeltaArrives, ApplySceneDelta
  <2>4. ASSUME NEW n \in Nodes
        PROVE  /\ base[n] \in Content \cup {Gone}
               /\ Lean(h, n) => base[n] # Gone
               /\ ~h.full => base[n] = t[n]
    <3>1. base[n] \in Content \cup {Gone}
      BY <1>3, <1>4
    <3>2. ASSUME Lean(h, n) PROVE base[n] # Gone
      <4>1. ~h.full
        BY <1>5, <3>2 DEF WellMade, Lean, Upserts, Content, Bit, Omitted
      <4>2. ~a
        BY <2>2, <4>1 DEF Full
      <4>3. Carried(d, 1, n, a, t[n] # Gone)
        BY <1>2, <1>4, <1>5, <3>2 DEF Chained
      <4>4. \A j \in 1..(1 - 1) : FALSE
        OBVIOUS
      <4>5. t[n] # Gone
        BY <4>2, <4>3, <4>4 DEF Carried
      <4> QED BY <4>1, <4>5
    <3> QED BY <3>1, <3>2
  <2> HIDE DEF base
  <2>5. ASSUME NEW n \in Nodes
        PROVE  /\ u[n] \in Content \cup {Gone}
               /\ Upserts(h, n) => u[n] # Gone
               /\ base[n] # Gone /\ n \notin h.rm => u[n] # Gone
    <3>1. PICK b : b = base[n]
      OBVIOUS
    <3>2. b \in Content \cup {Gone} /\ (Lean(h, n) => b # Gone)
      BY <2>4, <3>1
    <3>3. u[n] = CASE h.nodes[n] # NotSent -> MergeNode(IF n \in h.rm THEN Gone ELSE b, h.nodes[n])
                   [] OTHER -> IF n \in h.rm THEN Gone ELSE b
      BY <2>3, <3>1
    <3> QED BY <1>5, <3>1, <3>2, <3>3, MergedNode
  <2>6. u \in [Nodes -> Content \cup {Gone}]
    <3>1. u = [n \in Nodes |-> u[n]]
      BY <2>3, Zenon
    <3> QED BY <2>5, <3>1
  <2>7. ASSUME NEW n \in Nodes
        PROVE  (Gives(h, n) => u[n] # Gone) /\ (t[n] # Gone /\ ~Removes(h, n) => u[n] # Gone)
    BY <1>5, <2>4, <2>5 DEF Gives, Supplies, Removes, Drops
  <2>h. Handled(d[1], a, t, c, u)
    BY <1>5, <2>1, <2>2, <2>7 DEF Handled
  <2>8. /\ Chained(Tail(d), c, u)
        /\ \A n \in Nodes : AtTheEnd(d, n, a, t[n] # Gone) => AtTheEnd(Tail(d), n, c, u[n] # Gone)
    BY <1>5, <2>h, ChainTaken
  <2> QED BY <1>1, <1>4, <2>1, <2>6, <2>8 DEF Followed, ViewerChained, Ends
<1> QED BY <1>6, <1>7

LEMMA FollowedWhenTold ==
    ASSUME TInv, RefreshTells
    PROVE  Followed
<1>1. UNCHANGED <<client, tree>>
  BY DEF RefreshTells
<1>2. PICK d, a, t, x : /\ d = down /\ a = client.awaiting /\ t = tree
                        /\ x = [type |-> "access", access |-> monitor]
  OBVIOUS
<1>3. down' = Append(d, x) /\ x.type = "access"
  BY <1>2 DEF RefreshTells
<1>4. IsQueue(d) /\ Chained(d, a, t)
  BY <1>2, QueueOfTheViewer DEF TInv, ViewerChained
<1>5. /\ Chained(Append(d, x), a, t)
      /\ \A n \in Nodes : AtTheEnd(d, n, a, t[n] # Gone) /\ ~Removes(x, n) => AtTheEnd(Append(d, x), n, a, t[n] # Gone)
  BY <1>3, <1>4, ChainLengthened
<1>6. \A n : ~Removes(x, n)
  BY <1>3 DEF Removes
<1> QED BY <1>1, <1>2, <1>3, <1>5, <1>6 DEF Followed, ViewerChained, Ends

\* A frame is handed to the socket: it leaves only if its stream is on.
LEMMA FollowedWhenSent ==
    ASSUME TInv, NEW f, SendScene(f), UNCHANGED <<client, tree>>,
           MaySend(f.gen, f.epoch) => /\ WellMade(f.msg)
                                      /\ \A n \in Nodes : Lean(f.msg, n) => Ends(n)
    PROVE  /\ ViewerChained'
           /\ ~MaySend(f.gen, f.epoch) => \A n \in Nodes : Ends(n) => Ends(n)'
           /\ MaySend(f.gen, f.epoch) =>
                \A n \in Nodes : Gives(f.msg, n) \/ (Ends(n) /\ ~Removes(f.msg, n)) => Ends(n)'
<1>1. CASE ~MaySend(f.gen, f.epoch)
  <2>1. down' = down
    BY <1>1 DEF SendScene
  <2> QED BY <1>1, <2>1, FollowedWhenUntouched DEF Followed
<1>2. CASE MaySend(f.gen, f.epoch)
  <2>1. PICK d, a, t, x : d = down /\ a = client.awaiting /\ t = tree /\ x = f.msg
    OBVIOUS
  <2>2. down' = Append(d, x)
    BY <1>2, <2>1 DEF SendScene
  <2>3. IsQueue(d) /\ Chained(d, a, t)
    BY <2>1, QueueOfTheViewer DEF TInv, ViewerChained
  <2>4. WellMade(x) /\ \A n \in Nodes : Lean(x, n) => AtTheEnd(d, n, a, t[n] # Gone)
    BY <1>2, <2>1 DEF Ends
  <2>5. /\ Chained(Append(d, x), a, t)
        /\ \A n \in Nodes : Gives(x, n) \/ (AtTheEnd(d, n, a, t[n] # Gone) /\ ~Removes(x, n))
                              => AtTheEnd(Append(d, x), n, a, t[n] # Gone)
    BY <2>3, <2>4, ChainLengthened
  <2> QED BY <1>2, <2>1, <2>2, <2>5 DEF ViewerChained, Ends
<1> QED BY <1>1, <1>2


-----------------------------------------------------------------------------
(* Host and viewer                                                          *)

\* A step that neither takes, sends nor builds a frame.
LEMMA SyncedStays ==
    ASSUME TInv,
           WantsSceneStream' => /\ WantsSceneStream
                                /\ host'.streaming = host.streaming
                                /\ host'.streamGen = host.streamGen /\ host'.streamEpoch = host.streamEpoch
                                /\ coal'.pend.rm \cap Present' = {}
                                /\ Present' \ coal'.pend.stat \subseteq Present \ coal.pend.stat,
           pump' = pump \/ (pump.pc # "send" /\ pump'.pc # "send"),
           UNCHANGED refresh \/ (refresh.pc \notin {"build", "keyframe"} /\ refresh'.pc \notin {"build", "keyframe"}),
           \A n \in Nodes : Ends(n) => Ends(n)'
    PROVE  Synced'
<1> SUFFICES ASSUME WantsSceneStream' PROVE
      /\ coal'.pend.rm \cap Present' = {}
      /\ \A n \in Present' \ coal'.pend.stat : Known(n)'
      /\ BeingSent' => /\ WellMade(pump'.frame.msg)
                       /\ \A n \in Nodes : Lean(pump'.frame.msg, n) => Ends(n)'
  BY DEF Synced, WellMade, Lean, Upserts
<1>1. /\ WantsSceneStream
      /\ host'.streaming = host.streaming
      /\ host'.streamGen = host.streamGen /\ host'.streamEpoch = host.streamEpoch
      /\ coal'.pend.rm \cap Present' = {}
      /\ Present' \ coal'.pend.stat \subseteq Present \ coal.pend.stat
  OBVIOUS
<1>2. /\ \A n \in Present \ coal.pend.stat : Known(n)
      /\ BeingSent => /\ WellMade(pump.frame.msg)
                      /\ \A n \in Nodes : Lean(pump.frame.msg, n) => Ends(n)
  BY <1>1 DEF TInv, Synced
<1>3. BeingSent' = BeingSent /\ (BeingSent' => pump' = pump)
  BY <1>1 DEF BeingSent, Current
<1>4. ASSUME NEW n \in Present' \ coal'.pend.stat PROVE Known(n)'
  <2>1. Known(n) /\ n \in Nodes
    BY <1>1, <1>2, PresentNodes
  <2>2. CASE UNCHANGED refresh
    <3>1. CASE refresh.pc = "build"
      BY <2>2, <3>1 DEF Known
    <3>2. CASE refresh.pc = "keyframe"
      BY <2>1, <2>2, <3>2 DEF Known, Gives, Supplies, Upserts
    <3>3. CASE refresh.pc \notin {"build", "keyframe"} /\ BeingSent
      <4>1. Gives(pump.frame.msg, n) \/ (Ends(n) /\ ~Removes(pump.frame.msg, n))
        BY <2>1, <3>3 DEF Known
      <4>2. Gives(pump.frame.msg, n)' \/ (Ends(n)' /\ ~Removes(pump.frame.msg, n)')
        BY <1>3, <2>1, <3>3, <4>1 DEF Gives, Supplies, Upserts, Removes, Drops
      <4> QED BY <1>3, <2>2, <3>3, <4>2 DEF Known
    <3>4. CASE refresh.pc \notin {"build", "keyframe"} /\ ~BeingSent
      <4>1. Ends(n)'
        BY <2>1, <3>4 DEF Known
      <4> QED BY <1>3, <2>2, <3>4, <4>1 DEF Known
    <3> QED BY <3>1, <3>2, <3>3, <3>4
  <2>3. CASE refresh.pc \notin {"build", "keyframe"} /\ refresh'.pc \notin {"build", "keyframe"}
    <3>1. CASE BeingSent
      <4>1. Gives(pump.frame.msg, n) \/ (Ends(n) /\ ~Removes(pump.frame.msg, n))
        BY <2>1, <2>3, <3>1 DEF Known
      <4>2. Gives(pump.frame.msg, n)' \/ (Ends(n)' /\ ~Removes(pump.frame.msg, n)')
        BY <1>3, <2>1, <3>1, <4>1 DEF Gives, Supplies, Upserts, Removes, Drops
      <4> QED BY <1>3, <2>3, <3>1, <4>2 DEF Known
    <3>2. CASE ~BeingSent
      <4>1. Ends(n)'
        BY <2>1, <2>3, <3>2 DEF Known
      <4> QED BY <1>3, <2>3, <3>2, <4>1 DEF Known
    <3> QED BY <3>1, <3>2
  <2> QED BY <2>2, <2>3
<1>5. BeingSent' => /\ WellMade(pump'.frame.msg)
                    /\ \A n \in Nodes : Lean(pump'.frame.msg, n) => Ends(n)'
  BY <1>2, <1>3 DEF Lean, Upserts
<1> QED BY <1>1, <1>4, <1>5

\* The game changes the scene.
LEMMA SyncedByTheGame ==
    ASSUME TInv, NEW n \in Nodes, Edit(n)
    PROVE  Synced'
<1>1. PICK kind, ord :
        /\ kind \in Kinds
        /\ QueueSceneDelta(n, kind, ord)
        /\ Present' = IF kind = "removed" THEN Present \ {n} ELSE Present \cup {n}
        /\ kind \in {"sticky", "volatile"} => n \in Present
        /\ UNCHANGED <<monitor, refresh, waiting, down, up, client, tree, drawn>>
  BY EditOfANode
<1>2. /\ host'.requested = host.requested /\ host'.epoch = host.epoch /\ host'.ready = host.ready
      /\ host'.streaming = host.streaming
      /\ host'.streamGen = host.streamGen /\ host'.streamEpoch = host.streamEpoch
      /\ pump' = pump \/ (pump.pc = "idle" /\ pump'.pc = "take")
      /\ WantsSceneStream => coal' = Fold(coal, n, kind, ord)
  BY <1>1, EffectOfAnUpdate
<1>3. WantsSceneStream' = WantsSceneStream
  BY <1>1, <1>2 DEF WantsSceneStream, AllowsWork, Allowed
<1>4. \A m \in Nodes : Ends(m) => Ends(m)'
  BY <1>1, FollowedWhenUntouched DEF Followed
<1>5. ASSUME WantsSceneStream
      PROVE  /\ coal'.pend.rm \cap Present' = {}
             /\ Present' \ coal'.pend.stat \subseteq Present \ coal.pend.stat
  <2>1. /\ coal.pend.rm \cap Present = {} /\ coal.pend.full = FALSE
        /\ DOMAIN coal = {"pend", "last", "pending"}
        /\ DOMAIN coal.pend = {"full", "up", "stat", "stick", "rm", "ord"}
    BY <1>5 DEF TInv, Synced, Collected
  <2>2. coal' = Fold(coal, n, kind, ord)
    BY <1>2, <1>5
  <2>3. PICK p : p = coal.pend
    OBVIOUS
  <2>4. CASE kind = "removed"
    <3>1. coal' = [coal EXCEPT !.pending = TRUE,
                     !.pend = [p EXCEPT !.up = @ \ {n}, !.stat = @ \ {n}, !.stick = @ \ {n},
                                        !.rm = IF p.full THEN @ ELSE @ \cup {n}, !.ord = ord]]
      BY <2>2, <2>3, <2>4 DEF Fold
    <3>2. coal'.pend.rm = p.rm \cup {n} /\ coal'.pend.stat = p.stat \ {n}
      BY <2>1, <2>3, <3>1
    <3> QED BY <1>1, <2>1, <2>3, <2>4, <3>2
  <2>5. CASE kind # "removed"
    <3>1. coal' = [coal EXCEPT !.pending = TRUE,
                     !.pend = [p EXCEPT !.up = @ \cup {n}, !.rm = @ \ {n},
                                        !.stat = @ \cup (IF kind = "static" THEN {n} ELSE {}),
                                        !.stick = @ \cup (IF kind \in {"static", "sticky"} THEN {n} ELSE {}),
                                        !.ord = IF ord = NoOrder THEN @ ELSE ord]]
      BY <2>2, <2>3, <2>5 DEF Fold
    <3>2. coal'.pend.rm = p.rm \ {n} /\ coal'.pend.stat = p.stat \cup (IF kind = "static" THEN {n} ELSE {})
      BY <2>1, <2>3, <3>1
    <3>3. kind = "static" \/ n \in Present
      BY <1>1, <2>5 DEF Kinds
    <3> QED BY <1>1, <2>1, <2>3, <2>5, <3>2, <3>3
  <2> QED BY <2>4, <2>5
<1>6. pump' = pump \/ (pump.pc # "send" /\ pump'.pc # "send")
  BY <1>2
<1> QED BY <1>1, <1>2, <1>3, <1>4, <1>5, <1>6, SyncedStays

\* The pump takes what was collected.
LEMMA SyncedByTheTake ==
    ASSUME TInv, DrainTake
    PROVE  Synced'
<1>1. UNCHANGED <<scene, monitor, refresh, down, client, tree>> /\ pump.pc = "take"
  BY DEF DrainTake
<1>2. \A m \in Nodes : Ends(m)' = Ends(m)
  BY <1>1 DEF Ends, AtTheEnd, Carried, Full, Gives, Removes, Supplies, Drops, Upserts
<1>3. Present' = Present
  BY <1>1 DEF Present
<1>4. CASE pump' = Idle /\ UNCHANGED <<coal, host>>
  <2>1. WantsSceneStream' = WantsSceneStream
    BY <1>1, <1>4 DEF WantsSceneStream, AllowsWork, Allowed
  <2>2. pump'.pc # "send"
    BY <1>4 DEF Idle
  <2>3. WantsSceneStream => coal.pend.rm \cap Present = {}
    BY DEF TInv, Synced
  <2> QED BY <1>1, <1>2, <1>3, <1>4, <2>1, <2>2, <2>3, SyncedStays
<1>5. CASE WantsSceneStream /\ host.ready /\ ~(pump' = Idle /\ UNCHANGED <<coal, host>>)
  <2>1. PICK f : f = Frame(coal)
    OBVIOUS
  <2>2. /\ coal' = [Taken(coal) EXCEPT !.pending = FALSE]
        /\ IF ~f.full /\ f.rm = {} /\ f.ord.kind = "none" /\ \A n \in Nodes : f.nodes[n] = NotSent
           THEN UNCHANGED <<pump, host>>
           ELSE /\ pump' = [pc |-> "send",
                            frame |-> [gen |-> host.streamGen, epoch |-> host.streamEpoch, msg |-> f]]
                /\ host' = [host EXCEPT !.credit = FALSE]
    BY <1>5, <2>1 DEF DrainTake
  <2>3. coal'.pend.rm = {} /\ coal'.pend.stat = {}
    <3>1. Taken(coal).pend.rm = {} /\ Taken(coal).pend.stat = {} /\ "pend" \in DOMAIN Taken(coal)
      BY DEF Taken, NoPending
    <3>2. PICK c : c = Taken(coal)
      OBVIOUS
    <3> QED BY <2>2, <3>1, <3>2
  <2>4. refresh.pc \notin {"build", "keyframe"}
    BY <1>5 DEF TInv, Fenced
  <2>5. PICK p : p = coal.pend
    OBVIOUS
  <2>6. /\ p.full = FALSE /\ p.stat \subseteq p.stick /\ p.stat \subseteq p.up /\ p.rm \cap p.up = {}
        /\ p.rm \cap Present = {}
        /\ \A n \in Present \ p.stat : Ends(n)
    <3>1. Collected /\ coal.pend.rm \cap Present = {} /\ \A n \in Present \ coal.pend.stat : Known(n)
      BY <1>5 DEF TInv, Synced
    <3>2. ~BeingSent
      BY <1>1 DEF BeingSent
    <3> QED BY <2>4, <2>5, <3>1, <3>2 DEF Collected, Known
  <2>7. scene \in [Nodes -> Content \cup {Gone}]
    BY DEF TInv, Typed
  <2>8. /\ f.type = "scene" /\ f.full = FALSE /\ f.rm = p.rm
        /\ \A n \in Nodes : f.nodes[n] = IF n \in p.up /\ scene[n] # Gone THEN Project(n, p) ELSE NotSent
    <3>1. PICK o : f = [type |-> "scene", gen |-> host.streamGen, full |-> FALSE,
                        nodes |-> [n \in Nodes |-> IF n \in p.up /\ scene[n] # Gone THEN Project(n, p) ELSE NotSent],
                        rm |-> p.rm, ord |-> o]
      BY <2>1, <2>5, <2>6 DEF Frame
    <3> QED BY <3>1
  \* An update of a live node carries what its flags say.
  <2>9. ASSUME NEW n \in Nodes, n \in p.up, scene[n] # Gone
        PROVE  /\ f.nodes[n] # NotSent
               /\ n \in p.stat => f.nodes[n] \in Content
               /\ n \notin p.stat => f.nodes[n] \in Moved
    <3>1. scene[n] \in Content
      BY <2>7, <2>9
    <3>2. PICK s : s = scene[n]
      OBVIOUS
    <3>3. s.stat \in Bit /\ s.stick \in Bit /\ s.vol \in Bit
      BY <3>1, <3>2 DEF Content
    <3>4. f.nodes[n] = [stat |-> IF n \in p.stat THEN s.stat ELSE Omitted,
                        stick |-> IF n \in p.stick THEN s.stick ELSE Omitted,
                        vol |-> s.vol]
      BY <2>8, <2>9, <3>2 DEF Project
    <3>5. f.nodes[n].vol \in Bit
      BY <3>3, <3>4
    <3>6. f.nodes[n] # NotSent
      BY <3>5 DEF NotSent, Blank, Bit, Omitted
    <3>7. n \in p.stat => f.nodes[n] \in Content
      <4>1. n \in p.stat => f.nodes[n] = [stat |-> s.stat, stick |-> s.stick, vol |-> s.vol]
        BY <2>6, <3>4
      <4> QED BY <3>3, <4>1 DEF Content
    <3>8. n \notin p.stat => f.nodes[n] \in Moved
      <4>1. PICK q : q = IF n \in p.stick THEN s.stick ELSE Omitted
        OBVIOUS
      <4>2. q \in Bit \cup {Omitted}
        BY <3>3, <4>1
      <4>3. n \notin p.stat => f.nodes[n] = [stat |-> Omitted, stick |-> q, vol |-> s.vol]
        BY <3>4, <4>1
      <4> QED BY <3>3, <4>2, <4>3 DEF Moved
    <3> QED BY <3>6, <3>7, <3>8
  <2>10. ASSUME NEW n \in Nodes
         PROVE  /\ Upserts(f, n) <=> n \in p.up /\ scene[n] # Gone
                /\ Lean(f, n) => n \in Present \ p.stat
                /\ n \in Present /\ n \in p.stat => Gives(f, n)
                /\ n \in Present => ~Removes(f, n)
    <3>1. Upserts(f, n) <=> n \in p.up /\ scene[n] # Gone
      BY <2>8, <2>9 DEF Upserts
    <3>2. Lean(f, n) => n \in Present \ p.stat
      BY <2>9, <3>1 DEF Lean, Present, Content, Bit, Omitted
    <3>3. n \in Present /\ n \in p.stat => Gives(f, n)
      BY <2>6, <2>8, <2>9, <3>1 DEF Gives, Supplies, Present, Content, Bit, Omitted
    <3>4. n \in Present => ~Removes(f, n)
      BY <2>6, <2>8 DEF Removes, Drops
    <3> QED BY <3>1, <3>2, <3>3, <3>4
  <2>11. WellMade(f)
    <3>1. \A n \in Nodes : Upserts(f, n) => n \notin f.rm
      BY <2>6, <2>8, <2>10
    <3>2. ASSUME NEW n \in Nodes
          PROVE  f.nodes[n] = NotSent \/ f.nodes[n] \in Content \/ (~f.full /\ f.nodes[n] \in Moved)
      BY <2>8, <2>9
    <3> QED BY <2>8, <3>1, <3>2 DEF WellMade
  <2>12. CASE ~f.full /\ f.rm = {} /\ f.ord.kind = "none" /\ \A n \in Nodes : f.nodes[n] = NotSent
    <3>1. UNCHANGED <<pump, host>>
      BY <2>2, <2>12
    <3>2. ASSUME NEW n \in Present PROVE n \notin p.stat
      <4>1. n \in Nodes
        BY PresentNodes
      <4> QED BY <2>10, <2>12, <4>1 DEF Gives, Supplies, Upserts
    <3>3. ~BeingSent' /\ ~BeingSent
      BY <1>1, <3>1 DEF BeingSent
    <3>4. \A n \in Present : Known(n)'
      BY <1>1, <1>2, <2>4, <2>6, <3>2, <3>3, PresentNodes DEF Known
    <3> QED BY <1>3, <2>3, <3>3, <3>4 DEF Synced
  <2>13. CASE ~(~f.full /\ f.rm = {} /\ f.ord.kind = "none" /\ \A n \in Nodes : f.nodes[n] = NotSent)
    <3>1. pump' = [pc |-> "send", frame |-> [gen |-> host.streamGen, epoch |-> host.streamEpoch, msg |-> f]]
          /\ host' = [host EXCEPT !.credit = FALSE]
      BY <2>2, <2>13
    <3>2. pump'.pc = "send" /\ pump'.frame.gen = host.streamGen /\ pump'.frame.epoch = host.streamEpoch
          /\ pump'.frame.msg = f
      BY <3>1
    <3>3. /\ host'.streaming = host.streaming
          /\ host'.streamGen = host.streamGen /\ host'.streamEpoch = host.streamEpoch
      BY <3>1 DEF TInv, IInv, Shapes
    <3>4. BeingSent'
      BY <1>5, <3>2, <3>3 DEF BeingSent, Current, WantsSceneStream
    <3>5. ASSUME NEW n \in Present PROVE Known(n)'
      <4>1. n \in Nodes
        BY PresentNodes
      <4>2. Gives(f, n) \/ (Ends(n)' /\ ~Removes(f, n))
        BY <1>2, <2>6, <2>10, <4>1
      <4>3. Gives(pump.frame.msg, n)' \/ (Ends(n)' /\ ~Removes(pump.frame.msg, n)')
        BY <3>2, <4>1, <4>2 DEF Gives, Supplies, Upserts, Removes, Drops
      <4> QED BY <1>1, <2>4, <3>4, <4>3 DEF Known
    <3>6. WellMade(pump'.frame.msg) /\ \A n \in Nodes : Lean(pump'.frame.msg, n) => Ends(n)'
      BY <1>2, <2>6, <2>10, <2>11, <3>2
    <3>7. WellMade(pump.frame.msg)' /\ \A n \in Nodes : Lean(pump.frame.msg, n)' => Ends(n)'
      BY <3>6 DEF WellMade, Lean, Upserts
    <3> QED BY <1>3, <2>3, <3>5, <3>7 DEF Synced
  <2> QED BY <2>12, <2>13
<1> QED BY <1>4, <1>5 DEF DrainTake


\* The pump hands its frame to the socket.
LEMMA SyncedByTheSend ==
    ASSUME TInv, DrainSend
    PROVE  Synced' /\ ViewerChained'
<1>1. UNCHANGED <<scene, monitor, host, coal, refresh, client, tree>> /\ pump.pc = "send" /\ pump'.pc = "take"
  BY DEF DrainSend
<1>2. PICK f : f = pump.frame
  OBVIOUS
<1>3. SendScene(f)
  BY <1>2 DEF DrainSend
<1>4. WantsSceneStream' = WantsSceneStream /\ Present' = Present
  BY <1>1 DEF WantsSceneStream, AllowsWork, Allowed, Present
<1>5. MaySend(f.gen, f.epoch) => WantsSceneStream /\ BeingSent
  BY <1>1, <1>2 DEF MaySend, BeingSent, Current, WantsSceneStream
<1>6. WantsSceneStream /\ BeingSent => MaySend(f.gen, f.epoch)
  BY <1>2 DEF MaySend, BeingSent, Current
<1>7. BeingSent => refresh.pc \notin {"build", "keyframe"}
  BY DEF BeingSent, TInv, Fenced
<1>8. WantsSceneStream =>
        /\ coal.pend.rm \cap Present = {}
        /\ \A n \in Present \ coal.pend.stat : Known(n)
        /\ BeingSent => WellMade(f.msg) /\ \A n \in Nodes : Lean(f.msg, n) => Ends(n)
  BY <1>2 DEF TInv, Synced
<1>9. /\ ViewerChained'
      /\ ~MaySend(f.gen, f.epoch) => \A n \in Nodes : Ends(n) => Ends(n)'
      /\ MaySend(f.gen, f.epoch) =>
           \A n \in Nodes : Gives(f.msg, n) \/ (Ends(n) /\ ~Removes(f.msg, n)) => Ends(n)'
  BY <1>1, <1>3, <1>5, <1>8, FollowedWhenSent
<1>10. ~BeingSent'
  BY <1>1 DEF BeingSent
<1>11. ASSUME WantsSceneStream, NEW n \in Present \ coal.pend.stat PROVE Known(n)'
  <2>1. Known(n) /\ n \in Nodes
    BY <1>8, <1>11, PresentNodes
  <2>2. CASE BeingSent
    <3>1. Gives(f.msg, n) \/ (Ends(n) /\ ~Removes(f.msg, n))
      BY <1>2, <1>7, <2>1, <2>2 DEF Known
    <3>2. Ends(n)'
      BY <1>6, <1>9, <1>11, <2>1, <2>2, <3>1
    <3> QED BY <1>1, <1>7, <1>10, <2>2, <3>2 DEF Known
  <2>3. CASE ~BeingSent
    <3>1. Ends(n) => Ends(n)'
      BY <1>5, <1>9, <2>1, <2>3
    <3>2. CASE refresh.pc = "build"
      BY <1>1, <3>2 DEF Known
    <3>3. CASE refresh.pc = "keyframe"
      BY <1>1, <2>1, <3>3 DEF Known, Gives, Supplies, Upserts
    <3>4. CASE refresh.pc \notin {"build", "keyframe"}
      BY <1>1, <1>10, <2>1, <2>3, <3>1, <3>4 DEF Known
    <3> QED BY <3>2, <3>3, <3>4
  <2> QED BY <2>2, <2>3
<1> QED BY <1>1, <1>4, <1>8, <1>9, <1>10, <1>11 DEF Synced

\* The full scene that starts a stream is handed to the socket.
LEMMA SyncedByTheKeyframe ==
    ASSUME TInv, SendSceneKeyframe
    PROVE  Synced' /\ ViewerChained'
<1>1. UNCHANGED <<scene, monitor, host, coal, pump, client, tree>> /\ refresh.pc = "keyframe"
  BY DEF SendSceneKeyframe
<1>2. PICK f : f = refresh.frame
  OBVIOUS
<1>3. SendScene(f) /\ refresh'.pc = "release"
  BY <1>2 DEF SendSceneKeyframe, TInv, IInv, Shapes
<1>4. WantsSceneStream' = WantsSceneStream /\ Present' = Present
  BY <1>1 DEF WantsSceneStream, AllowsWork, Allowed, Present
<1>5. Current(f) /\ WellMade(f.msg) /\ f.msg.full /\ ~BeingSent
  BY <1>1, <1>2 DEF TInv, Fenced, BeingSent
<1>6. WantsSceneStream => MaySend(f.gen, f.epoch)
  BY <1>5 DEF MaySend, Current
<1>7. \A n \in Nodes : ~Lean(f.msg, n)
  BY <1>5 DEF WellMade, Lean, Upserts, Content, Bit, Omitted
<1>8. /\ ViewerChained'
      /\ MaySend(f.gen, f.epoch) =>
           \A n \in Nodes : Gives(f.msg, n) \/ (Ends(n) /\ ~Removes(f.msg, n)) => Ends(n)'
  BY <1>1, <1>3, <1>5, <1>7, FollowedWhenSent
<1>9. ~BeingSent'
  BY <1>1, <1>5 DEF BeingSent, Current
<1>10. ASSUME WantsSceneStream, NEW n \in Present \ coal.pend.stat PROVE Known(n)'
  <2>1. Known(n) /\ n \in Nodes
    BY <1>10, PresentNodes DEF TInv, Synced
  <2>2. Gives(f.msg, n)
    BY <1>1, <1>2, <2>1 DEF Known
  <2>3. Ends(n)'
    BY <1>6, <1>8, <1>10, <2>1, <2>2
  <2> QED BY <1>3, <1>9, <2>3 DEF Known
<1>11. WantsSceneStream => coal.pend.rm \cap Present = {}
  BY DEF TInv, Synced
<1> QED BY <1>1, <1>4, <1>8, <1>9, <1>10, <1>11 DEF Synced

LEMMA SyncedHolds ==
    ASSUME TInv, Next
    PROVE  Synced' /\ ViewerChained'
<1>0. /\ DOMAIN host = {"requested", "epoch", "streaming", "ready", "credit", "streamGen", "streamEpoch"}
      /\ DOMAIN refresh = {"pc", "by", "gen", "epoch", "frame"}
      /\ DOMAIN pump = {"pc", "frame"}
      /\ monitor.gen \in Nat /\ host.streamGen \in Nat
  BY DEF TInv, IInv, Shapes
<1>s. WantsSceneStream => coal.pend.rm \cap Present = {}
  BY DEF TInv, Synced
\* Steps that leave the scene and the coalescer alone.
<1>1. ASSUME UNCHANGED <<scene, coal>>, Followed,
             WantsSceneStream' => /\ WantsSceneStream
                                  /\ host'.streaming = host.streaming
                                  /\ host'.streamGen = host.streamGen /\ host'.streamEpoch = host.streamEpoch,
             pump' = pump \/ (pump.pc # "send" /\ pump'.pc # "send"),
             UNCHANGED refresh \/ (refresh.pc \notin {"build", "keyframe"} /\ refresh'.pc \notin {"build", "keyframe"})
      PROVE  Synced' /\ ViewerChained'
  <2>1. Present' = Present
    BY <1>1 DEF Present
  <2>2. \A n \in Nodes : Ends(n) => Ends(n)'
    BY <1>1 DEF Followed
  <2>3. Synced'
    BY <1>1, <1>s, <2>1, <2>2, SyncedStays
  <2> QED BY <1>1, <2>3 DEF Followed
<1>2. ASSUME UNCHANGED <<host, monitor>> PROVE WantsSceneStream' = WantsSceneStream
  BY <1>2 DEF WantsSceneStream, AllowsWork, Allowed
<1>3. ASSUME UNCHANGED <<down, tree, client>> PROVE Followed
  BY <1>3, FollowedWhenUntouched
<1>4. ASSUME NEW n \in Nodes, Edit(n) PROVE Synced' /\ ViewerChained'
  <2>1. UNCHANGED <<down, tree, client>>
    BY <1>4 DEF Edit
  <2> QED BY <1>3, <1>4, <2>1, SyncedByTheGame DEF Followed
<1>5. CASE AccessChanges
  <2>1. UNCHANGED <<scene, coal, host, pump, refresh, down, tree, client>> /\ monitor'.gen = monitor.gen + 1
    BY <1>5 DEF AccessChanges
  <2>2. ~WantsSceneStream'
    <3>1. host.streamGen <= monitor.gen
      BY DEF TInv, Counted
    <3> QED BY <1>0, <2>1, <3>1 DEF WantsSceneStream, AllowsWork, Allowed
  <2> QED BY <1>1, <1>3, <2>1, <2>2
<1>6. CASE SendWatch
  <2>1. UNCHANGED <<scene, coal, host, monitor, pump, refresh>>
    BY <1>6 DEF SendWatch
  <2> QED BY <1>1, <1>2, <1>6, <2>1, FollowedAtTheGate
<1>7. CASE DrainTake
  <2>1. UNCHANGED <<down, tree, client>>
    BY <1>7 DEF DrainTake
  <2> QED BY <1>3, <1>7, <2>1, SyncedByTheTake DEF Followed
<1>8. CASE DrainSend
  BY <1>8, SyncedByTheSend
<1>9. CASE RefreshStarts
  <2>1. UNCHANGED <<scene, coal, host, monitor, pump, down, tree, client>> /\ refresh.pc = "none"
    BY <1>9 DEF RefreshStarts
  <2>2. refresh'.pc = "start"
    <3>1. DOMAIN NoRefresh = {"pc", "by", "gen", "epoch", "frame"}
      BY DEF NoRefresh
    <3>2. PICK r : r = NoRefresh
      OBVIOUS
    <3>3. \E w \in {"task", "loop"} : refresh' = [r EXCEPT !.pc = "start", !.by = w]
      BY <1>9, <3>2 DEF RefreshStarts
    <3> QED BY <3>1, <3>2, <3>3
  <2> QED BY <1>1, <1>2, <1>3, <2>1, <2>2
<1>10. CASE RefreshReads
  <2>1. UNCHANGED <<scene, monitor, pump, down, tree, client>> /\ refresh.pc = "start" /\ refresh'.pc = "tell"
    BY <1>0, <1>10 DEF RefreshReads
  <2>2. CASE UNCHANGED <<host, coal>>
    BY <1>1, <1>2, <1>3, <2>1, <2>2
  <2>3. CASE ~UNCHANGED <<host, coal>>
    <3>1. host' = StreamOff
      BY <1>10, <2>3 DEF RefreshReads
    <3>2. ~WantsSceneStream'
      BY <1>0, <3>1 DEF StreamOff, WantsSceneStream
    <3> QED BY <1>3, <2>1, <3>2 DEF Synced, Followed
  <2> QED BY <2>2, <2>3
<1>11. CASE RefreshTells
  <2>1. UNCHANGED <<scene, coal, host, monitor, pump>> /\ refresh.pc = "tell"
        /\ refresh'.pc \notin {"build", "keyframe"}
    BY <1>0, <1>11 DEF RefreshTells
  <2> QED BY <1>1, <1>2, <1>11, <2>1, FollowedWhenTold
<1>12. CASE RefreshTurnsOn
  <2>1. UNCHANGED <<scene, monitor, pump, down, tree, client>> /\ refresh.pc = "on"
    BY <1>12 DEF RefreshTurnsOn
  <2>2. CASE AllowsWork(refresh.gen, refresh.epoch) /\ ~host.streaming
    <3>1. coal' = Reset /\ refresh'.pc = "build"
      BY <1>0, <1>12, <2>2 DEF RefreshTurnsOn
    <3>2. coal'.pend.rm = {}
      BY <3>1 DEF Reset, NoPending
    <3>3. Fenced'
      BY FencedHolds
    <3>4. ~BeingSent'
      BY <3>1, <3>3 DEF Fenced, BeingSent
    <3>5. \A n : Known(n)'
      BY <3>1 DEF Known
    <3> QED BY <1>3, <2>1, <3>2, <3>4, <3>5 DEF Synced, Followed
  <2>3. CASE ~(AllowsWork(refresh.gen, refresh.epoch) /\ ~host.streaming)
    <3>1. UNCHANGED <<coal, host>> /\ refresh'.pc = "end"
      BY <1>0, <1>12, <2>3 DEF RefreshTurnsOn
    <3> QED BY <1>1, <1>2, <1>3, <2>1, <3>1
  <2> QED BY <2>2, <2>3
<1>13. CASE BuildKeyframe
  <2>1. UNCHANGED <<scene, monitor, host, coal, pump, down, tree, client>> /\ refresh.pc = "build"
    BY <1>13 DEF BuildKeyframe
  <2>2. PICK k : k = Keyframe
    OBVIOUS
  <2>3. refresh' = [refresh EXCEPT !.pc = "keyframe",
                      !.frame = [gen |-> refresh.gen, epoch |-> refresh.epoch, msg |-> k]]
    BY <1>13, <2>2 DEF BuildKeyframe
  <2>4. refresh'.pc = "keyframe" /\ refresh'.frame.msg = k
    BY <1>0, <2>3
  <2>5. \A n \in Present : Gives(k, n)
    BY <2>2, KeyframesAreWellMade
  <2>6. \A n \in Present : Known(n)'
    BY <2>4, <2>5 DEF Known, Gives, Supplies, Upserts
  <2>7. Fenced'
    BY FencedHolds
  <2>8. ~BeingSent'
    BY <2>4, <2>7 DEF Fenced, BeingSent
  <2>9. Present' = Present /\ WantsSceneStream' = WantsSceneStream
    BY <1>2, <2>1 DEF Present
  <2>10. Synced'
    BY <1>s, <2>1, <2>6, <2>8, <2>9 DEF Synced
  <2> QED BY <1>3, <2>1, <2>10 DEF Followed
<1>14. CASE SendSceneKeyframe
  BY <1>14, SyncedByTheKeyframe
<1>15. CASE EnableScenePump
  <2>1. UNCHANGED <<scene, coal, monitor, down, tree, client>> /\ refresh.pc = "release" /\ refresh'.pc = "end"
    BY <1>0, <1>15 DEF EnableScenePump
  <2>2. /\ host'.requested = host.requested /\ host'.epoch = host.epoch
        /\ host'.streaming = host.streaming
        /\ host'.streamGen = host.streamGen /\ host'.streamEpoch = host.streamEpoch
    BY <1>0, <1>15 DEF EnableScenePump
  <2>3. pump' = pump \/ (pump.pc # "send" /\ pump'.pc # "send")
    BY <1>0, <1>15 DEF EnableScenePump
  <2>4. WantsSceneStream' = WantsSceneStream
    BY <2>1, <2>2 DEF WantsSceneStream, AllowsWork, Allowed
  <2> QED BY <1>1, <1>3, <2>1, <2>2, <2>3, <2>4
<1>16. CASE RefreshEnds
  <2>1. UNCHANGED <<scene, coal, host, monitor, pump, down, tree, client>> /\ refresh.pc = "end"
    BY <1>16 DEF RefreshEnds
  <2>2. refresh'.pc = "none"
    BY <1>16 DEF RefreshEnds, NoRefresh
  <2> QED BY <1>1, <1>2, <1>3, <2>1, <2>2
<1>17. CASE ReceiveWatch
  <2>1. UNCHANGED <<scene, coal, monitor, pump, refresh, down, tree, client>>
    BY <1>17 DEF ReceiveWatch
  <2>2. /\ host'.streaming = host.streaming
        /\ host'.streamGen = host.streamGen /\ host'.streamEpoch = host.streamEpoch
        /\ \/ host'.epoch = host.epoch /\ host'.requested = host.requested
           \/ host'.epoch = host.epoch + 1
    BY <1>0, <1>17 DEF ReceiveWatch
  <2>3. WantsSceneStream' => WantsSceneStream
    <3>1. host.epoch \in Nat /\ host.streamEpoch \in Nat /\ host.streamEpoch <= host.epoch
      BY DEF TInv, Counted
    <3>2. CASE host'.epoch = host.epoch /\ host'.requested = host.requested
      BY <2>1, <2>2, <3>2 DEF WantsSceneStream, AllowsWork, Allowed
    <3>3. CASE host'.epoch = host.epoch + 1
      <4>1. host'.streamEpoch # host'.epoch
        BY <2>2, <3>1, <3>3
      <4> QED BY <4>1 DEF WantsSceneStream, AllowsWork
    <3> QED BY <2>2, <3>2, <3>3
  <2> QED BY <1>1, <1>3, <2>1, <2>2, <2>3
<1>18. CASE GrantSceneCredit
  <2>1. UNCHANGED <<scene, coal, monitor, refresh, down, tree, client>>
    BY <1>18 DEF GrantSceneCredit
  <2>2. /\ host'.requested = host.requested /\ host'.epoch = host.epoch
        /\ host'.streaming = host.streaming
        /\ host'.streamGen = host.streamGen /\ host'.streamEpoch = host.streamEpoch
    BY <1>0, <1>18 DEF GrantSceneCredit
  <2>3. pump' = pump \/ (pump.pc # "send" /\ pump'.pc # "send")
    BY <1>0, <1>18 DEF GrantSceneCredit
  <2>4. WantsSceneStream' = WantsSceneStream
    BY <2>1, <2>2 DEF WantsSceneStream, AllowsWork, Allowed
  <2> QED BY <1>1, <1>3, <2>1, <2>2, <2>3, <2>4
<1>19. CASE SocketOpens \/ SendSceneAck
  <2>1. UNCHANGED <<scene, coal, host, monitor, pump, refresh, down, tree>>
    BY <1>19 DEF SocketOpens, SendSceneAck
  <2>2. client'.awaiting = client.awaiting
    BY <1>19 DEF SocketOpens, SendSceneAck, FlushWatch, TInv, IInv, Shapes
  <2>3. Followed
    BY <2>1, <2>2, FollowedWhenUntouched
  <2> QED BY <1>1, <1>2, <2>1, <2>3
<1>20. CASE HostAccessArrives \/ SceneDeltaArrives
  <2>1. UNCHANGED <<scene, coal, host, monitor, pump, refresh>>
    BY <1>20 DEF HostAccessArrives, SceneDeltaArrives
  <2>2. Followed
    BY <1>20, FollowedByAVerdict, FollowedByAFrame
  <2> QED BY <1>1, <1>2, <2>1, <2>2
<1> QED BY <1>4, <1>5, <1>6, <1>7, <1>8, <1>9, <1>10, <1>11, <1>12, <1>13, <1>14, <1>15, <1>16, <1>17, <1>18, <1>19, <1>20 DEF Next, System


LEMMA TypedHolds ==
    ASSUME TInv, Next
    PROVE  Typed'
<1>0. /\ DOMAIN host = {"requested", "epoch", "streaming", "ready", "credit", "streamGen", "streamEpoch"}
      /\ DOMAIN refresh = {"pc", "by", "gen", "epoch", "frame"}
      /\ DOMAIN pump = {"pc", "frame"}
      /\ DOMAIN client = {"open", "watching", "hostWatching", "access", "awaiting", "sceneGen", "owed", "missed"}
      /\ Typed
  BY DEF TInv, IInv, Shapes
<1>1. ASSUME UNCHANGED <<scene, order>> PROVE scene' \in [Nodes -> Content \cup {Gone}] /\ Lists(order', Present')
  <2>1. Present' = Present
    BY <1>1 DEF Present
  <2> QED BY <1>0, <1>1, <2>1 DEF Typed
<1>2. ASSUME UNCHANGED <<scene, order, tree, client>>,
             host'.credit \in BOOLEAN, pump'.pc \in {"idle", "take", "send"},
             refresh'.by \in {"none", "loop", "task"}
      PROVE  Typed'
  BY <1>0, <1>1, <1>2 DEF Typed
<1>3. ASSUME NEW n \in Nodes, Edit(n) PROVE Typed'
  <2>1. PICK kind, ord :
          /\ kind \in Kinds
          /\ QueueSceneDelta(n, kind, ord)
          /\ scene' \in [Nodes -> Content \cup {Gone}]
          /\ Lists(order', Present')
          /\ UNCHANGED <<monitor, refresh, waiting, down, up, client, tree, drawn>>
    BY <1>3, EditOfANode
  <2>2. host'.credit \in BOOLEAN /\ (pump' = pump \/ pump'.pc = "take")
    BY <2>1, EffectOfAnUpdate
  <2> QED BY <1>0, <2>1, <2>2 DEF Typed
<1>4. CASE AccessChanges
  <2>1. UNCHANGED <<scene, order, tree, client, host, pump, refresh>>
    BY <1>4 DEF AccessChanges
  <2> QED BY <1>0, <1>2, <2>1 DEF Typed
<1>5. CASE SendWatch \/ SocketOpens \/ SendSceneAck
  <2>1. UNCHANGED <<scene, order, tree, host, pump, refresh>>
    BY <1>5 DEF SendWatch, SocketOpens, SendSceneAck
  <2>2. client'.open \in BOOLEAN /\ client'.watching \in BOOLEAN /\ client'.awaiting \in BOOLEAN
    <3>1. CASE SendWatch
      <4>1. PICK c : c = [client EXCEPT !.watching = ~@, !.awaiting = TRUE, !.sceneGen = 0, !.owed = FALSE]
        OBVIOUS
      <4>2. c.open \in BOOLEAN /\ c.watching \in BOOLEAN /\ c.awaiting \in BOOLEAN /\ DOMAIN c = DOMAIN client
        BY <1>0, <4>1 DEF Typed
      <4>3. client' = c \/ client' = [c EXCEPT !.hostWatching = c.watching]
        BY <3>1, <4>1 DEF SendWatch, FlushWatch
      <4> QED BY <1>0, <4>2, <4>3
    <3>2. CASE SocketOpens
      BY <1>0, <3>2 DEF SocketOpens, FlushWatch, Typed
    <3>3. CASE SendSceneAck
      BY <1>0, <3>3 DEF SendSceneAck, Typed
    <3> QED BY <1>5, <3>1, <3>2, <3>3
  <2> QED BY <1>0, <1>1, <2>1, <2>2 DEF Typed
<1>6. CASE DrainTake
  <2>1. UNCHANGED <<scene, order, tree, client, refresh>>
    BY <1>6 DEF DrainTake
  <2>2. host' = host \/ host' = [host EXCEPT !.credit = FALSE]
    BY <1>6 DEF DrainTake
  <2>3. host'.credit \in BOOLEAN
    BY <1>0, <2>2 DEF Typed
  <2>4. pump'.pc \in {"idle", "take", "send"}
    <3>1. \/ pump' = Idle \/ pump' = pump
          \/ \E f : pump' = [pc |-> "send", frame |-> [gen |-> host.streamGen, epoch |-> host.streamEpoch, msg |-> f]]
      BY <1>6 DEF DrainTake
    <3> QED BY <1>0, <3>1 DEF Idle, Typed
  <2> QED BY <1>0, <1>2, <2>1, <2>3, <2>4 DEF Typed
<1>7. CASE DrainSend
  <2>1. UNCHANGED <<scene, order, tree, client, refresh, host>> /\ pump'.pc = "take"
    BY <1>7 DEF DrainSend
  <2> QED BY <1>0, <1>2, <2>1 DEF Typed
<1>8. CASE RefreshStarts \/ RefreshEnds
  <2>1. UNCHANGED <<scene, order, tree, client, host, pump>>
    BY <1>8 DEF RefreshStarts, RefreshEnds
  <2>2. refresh'.by \in {"none", "loop", "task"}
    <3>1. DOMAIN NoRefresh = {"pc", "by", "gen", "epoch", "frame"} /\ NoRefresh.by = "none"
      BY DEF NoRefresh
    <3>2. PICK r : r = NoRefresh
      OBVIOUS
    <3>3. refresh' = r \/ \E w \in {"task", "loop"} : refresh' = [r EXCEPT !.pc = "start", !.by = w]
      BY <1>8, <3>2 DEF RefreshStarts, RefreshEnds
    <3> QED BY <3>1, <3>2, <3>3
  <2> QED BY <1>0, <1>2, <2>1, <2>2 DEF Typed
<1>9. CASE RefreshReads \/ RefreshTurnsOn
  <2>1. UNCHANGED <<scene, order, tree, client, pump>>
    BY <1>9 DEF RefreshReads, RefreshTurnsOn
  <2>2. refresh'.by = refresh.by
    BY <1>0, <1>9 DEF RefreshReads, RefreshTurnsOn
  <2>3. host'.credit \in BOOLEAN
    BY <1>0, <1>9 DEF RefreshReads, RefreshTurnsOn, StreamOff, Typed
  <2> QED BY <1>0, <1>2, <2>1, <2>2, <2>3 DEF Typed
<1>10. CASE RefreshTells \/ BuildKeyframe \/ SendSceneKeyframe
  <2>1. UNCHANGED <<scene, order, tree, client, host, pump>>
    BY <1>10 DEF RefreshTells, BuildKeyframe, SendSceneKeyframe
  <2>2. refresh'.by = refresh.by
    BY <1>0, <1>10 DEF RefreshTells, BuildKeyframe, SendSceneKeyframe
  <2> QED BY <1>0, <1>2, <2>1, <2>2 DEF Typed
<1>11. CASE EnableScenePump
  <2>1. UNCHANGED <<scene, order, tree, client>> /\ refresh'.by = refresh.by
    BY <1>0, <1>11 DEF EnableScenePump
  <2>2. host'.credit \in BOOLEAN /\ pump'.pc \in {"idle", "take", "send"}
    BY <1>0, <1>11 DEF EnableScenePump, Typed
  <2> QED BY <1>0, <1>2, <2>1, <2>2 DEF Typed
<1>12. CASE ReceiveWatch \/ GrantSceneCredit
  <2>1. UNCHANGED <<scene, order, tree, client, refresh>>
    BY <1>12 DEF ReceiveWatch, GrantSceneCredit
  <2>2. host'.credit \in BOOLEAN /\ pump'.pc \in {"idle", "take", "send"}
    BY <1>0, <1>12 DEF ReceiveWatch, GrantSceneCredit, Typed
  <2> QED BY <1>0, <1>2, <2>1, <2>2 DEF Typed
<1>13. CASE HostAccessArrives \/ SceneDeltaArrives
  <2>1. UNCHANGED <<scene, order, host, pump, refresh>>
    BY <1>13 DEF HostAccessArrives, SceneDeltaArrives
  <2>2. client'.awaiting \in BOOLEAN /\ tree' \in [Nodes -> Content \cup {Gone}]
    BY <1>13, FollowedByAVerdict, FollowedByAFrame
  <2>3. client'.open = client.open /\ client'.watching = client.watching
    <3>1. CASE HostAccessArrives
      <4>1. PICK x : x = Head(down).access
        OBVIOUS
      <4>2. UpdateHostAccess(x)
        BY <3>1, <4>1 DEF HostAccessArrives
      <4> QED BY <1>0, <4>2 DEF UpdateHostAccess
    <3>2. CASE SceneDeltaArrives
      BY <1>0, <3>2 DEF SceneDeltaArrives
    <3> QED BY <1>13, <3>1, <3>2
  <2> QED BY <1>0, <1>1, <2>1, <2>2, <2>3 DEF Typed
<1> QED BY <1>3, <1>4, <1>5, <1>6, <1>7, <1>8, <1>9, <1>10, <1>11, <1>12, <1>13 DEF Next, System

LEMMA InitTyped == Init => TInv
<1> SUFFICES ASSUME Init PROVE TInv
  OBVIOUS
<1>1. IInv
  BY InitHolds
<1>0. Gone \notin Content
  BY DEF Gone, Blank, Content, Bit, Omitted
<1>2. scene \in [Nodes -> Content \cup {Gone}] /\ Present = Start
  <2>1. [stat |-> 0, stick |-> 0, vol |-> 0] \in Content
    BY DEF Content, Bit
  <2>2. PICK x : x = [stat |-> 0, stick |-> 0, vol |-> 0]
    OBVIOUS
  <2>3. scene = [n \in Nodes |-> IF n \in Start THEN x ELSE Gone]
    BY <2>2 DEF Init
  <2> QED BY <1>0, <2>1, <2>2, <2>3, BoundsAssumption DEF Present
<1>3. Lists(order, Present)
  <2>1. PICK P : P = Present
    OBVIOUS
  <2>2. IsFiniteSet(P) /\ order = SetToSeq(P)
    BY <1>2, <2>1, BoundsAssumption DEF Init
  <2> QED BY <2>1, <2>2, SetsAreListed
<1>4. Typed
  BY <1>2, <1>3 DEF Init, Typed, Idle, NoRefresh
<1>5. Counted
  BY BoundsAssumption DEF Init, Counted, Idle, NoRefresh
<1>6. Collected
  BY DEF Init, Collected, Reset, NoPending
<1>7. Fenced
  BY DEF Init, Fenced, Idle, NoRefresh
<1>8. Synced
  BY DEF Init, Synced, WantsSceneStream
<1>9. ViewerChained
  <2>1. Len(down) = 1 /\ down[1].type = "access"
    <3>1. PICK x : x = [type |-> "access", access |-> monitor]
      OBVIOUS
    <3>2. down = <<x>> /\ x.type = "access"
      BY <3>1 DEF Init
    <3> QED BY <3>2
  <2> QED BY <2>1 DEF ViewerChained, Chained
<1> QED BY <1>1, <1>4, <1>5, <1>6, <1>7, <1>8, <1>9 DEF TInv

\* The types, and with them that an increment never leaves a viewer with half a
\* node: what the host takes the viewer to have, it will have.
THEOREM TypeCorrect == Spec => []TypeOK
<1>1. Init => TInv
  BY InitTyped
<1>2. TInv /\ [Next]_vars => TInv'
  <2> SUFFICES ASSUME TInv, [Next]_vars PROVE TInv'
    OBVIOUS
  <2>1. CASE Next
    <3>1. IInv'
      BY <2>1, ShapesHold, GapsHold, FramesHold, QueueHolds DEF QueueIsTold, IInv, TInv
    <3> QED BY <2>1, <3>1, TypedHolds, CountedHolds, CollectedHolds, FencedHolds, SyncedHolds DEF TInv
  <2>2. CASE UNCHANGED vars
    <3>1. IInv'
      BY <2>2 DEF TInv, vars, IInv, Shapes, GapsAreKnown, FramesAreLabelled, Labelled, StreamIsTold
    <3>2. Typed' /\ Counted' /\ Collected'
      BY <2>2 DEF TInv, vars, Typed, Counted, Collected, Present
    <3>3. Followed
      BY <2>2, FollowedWhenUntouched DEF vars
    <3>4. Fenced'
      BY <2>2 DEF TInv, vars, Fenced, AllowsWork, Allowed, Current
    <3>5. WantsSceneStream' = WantsSceneStream /\ Present' = Present
      BY <2>2 DEF vars, WantsSceneStream, AllowsWork, Allowed, Present
    <3>6. Synced'
      <4>1. \A n \in Nodes : Ends(n) => Ends(n)'
        BY <3>3 DEF Followed
      <4>2. WantsSceneStream => coal.pend.rm \cap Present = {}
        BY DEF TInv, Synced
      <4> QED BY <2>2, <3>5, <4>1, <4>2, SyncedStays DEF vars
    <3> QED BY <3>1, <3>2, <3>3, <3>4, <3>6 DEF TInv, Followed
  <2> QED BY <2>1, <2>2
<1>3. TInv => TypeOK
  <2> SUFFICES ASSUME TInv PROVE TypeOK
    OBVIOUS
  <2>1. /\ scene \in [Nodes -> [stat : Bit, stick : Bit, vol : Bit] \cup {Gone}]
        /\ tree \in [Nodes -> [stat : Bit, stick : Bit, vol : Bit] \cup {Gone}]
    BY DEF TInv, Typed, Content
  <2>2. ToSet(order) = Present /\ Len(order) = Cardinality(Present)
    <3>1. PICK o, P : o = order /\ P = Present
      OBVIOUS
    <3>2. Lists(o, P)
      BY <3>1 DEF TInv, Typed
    <3> QED BY <3>1, <3>2, ListLength DEF Lists
  <2>3. host.streamGen \in 0..(MaxTurns + 1)
    <3>1. host.streamGen \in Nat /\ monitor.gen \in Nat
      BY DEF TInv, IInv, Shapes
    <3> QED BY <3>1, BoundsAssumption DEF TInv, Counted
  <2> QED BY <2>1, <2>2, <2>3 DEF TInv, Typed, TypeOK
<1> QED BY <1>1, <1>2, <1>3, PTL DEF Spec


=============================================================================
