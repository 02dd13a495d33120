--------------------------- MODULE MirrorAppProofs ---------------------------
(***************************************************************************)
(* Theorems about the browser page, for every set of seats and any number  *)
(* of lost sockets and taps.                                               *)
(*                                                                         *)
(* The argument: a mounted page is in one of a few situations (it opens    *)
(* the host's socket, waits there, asks, watches the host, shows a seat,   *)
(* holds a seat, waits to start over), and its cells and its two sockets   *)
(* agree in each.                                                          *)
(***************************************************************************)
EXTENDS MirrorApp, TLAPS

Pages == [up : BOOLEAN, url : OrNone(Views), granted : OrNone(Views), active : {"host", "seat"},
          clients : 1..2, joined : BOOLEAN, directView : BOOLEAN, pending : OrNone(Views),
          joinId : Nat, joinSeq : Nat, rejoin : OrNone(Seats), lastAttempt : OrNone(Views),
          autoJoin : BOOLEAN, hostReq : BOOLEAN, steady : BOOLEAN,
          timer : {"none", "hold", "reconnect"}, target : OrNone(Seats), session : Rosters \cup {NoSession}]

\* A page that shows a seat, or holds it, has the host's socket open behind it.
ShowsASeat ==
    /\ app.active = "seat" /\ app.target # "none" /\ ~app.directView /\ app.pending = "none"
    /\ host.st = "open" /\ app.timer # "reconnect"

WatchesTheHost ==
    /\ app.active = "host" /\ host.st = "open" /\ app.pending = "none"
    /\ app.timer = "none" /\ app.steady

AwaitsAnAnswer ==
    /\ app.active = "host" /\ host.st = "open" /\ ~HasView(app) /\ app.timer = "none"
    /\ app.lastAttempt = app.pending /\ app.url = app.pending
    /\ app.joinId = app.joinSeq /\ app.joinSeq # 0

WaitsToStartOver ==
    /\ ~app.joined /\ ~app.steady /\ app.session = NoSession
    /\ app.active = "host" => host.st = "closed"

HoldsASeat == app.joined /\ ~app.steady /\ seat.st = "closed"

Situations ==
    /\ app.joined => ShowsASeat
    /\ app.directView => WatchesTheHost
    /\ app.pending # "none" => AwaitsAnAnswer
    /\ app.pending = "none" => app.joinId = 0
    /\ app.timer = "reconnect" => WaitsToStartOver
    /\ app.timer = "hold" => HoldsASeat
    /\ app.active = "host" => app.clients = 1
    /\ app.active = "seat" => app.joined \/ app.timer = "reconnect"

SocketsAgree ==
    /\ host.st # "none"
    /\ host.st = "closed" => app.timer = "reconnect"
    /\ host.st = "connecting" => app.active = "host" /\ app.session = NoSession /\ app.timer = "none"
    /\ host.st = "open" => host.ever
    /\ seat.st = "open" => seat.ever /\ app.steady
    /\ seat.st = "connecting" => ~seat.ever
    /\ seat.st \in {"connecting", "open"} => app.joined /\ app.timer = "none"
    /\ app.active = "seat" /\ app.timer = "none" => seat.st \in {"connecting", "open"}

\* Only the latest join can be the one in flight, and it is for what is pending.
AskedInOrder ==
    \A r \in asked : r.id \in 1..app.joinSeq /\ (r.id = app.joinId => r.view = app.pending)

\* The joins nobody tapped for, against the latches that stop them.
Latched(b) == IF b THEN 1 ELSE 0
FewAutos ==
    /\ past.autos <= Latched(app.autoJoin) + Latched(app.hostReq)
    /\ app.rejoin # "none" /\ Idle(app) /\ app.timer = "none" => past.autos = 0 /\ app.autoJoin /\ app.hostReq

\* A view is given up only for a socket that was lost.
ViewIsKept == past.view # "none" /\ ~past.lost => HasView(app)

Mounted == Situations /\ SocketsAgree /\ AskedInOrder /\ FewAutos /\ ViewIsKept

IInv ==
    /\ TypeOK /\ HeldSeatIsTheOneAskedFor /\ NoRequestStorm
    /\ app.up => Mounted

----------------------------------------------------------------------------
(* The steps of the page.                                                  *)

LEMMA NoneIsNoView == "none" \notin Views /\ "none" \notin Seats /\ "host" \notin Seats
BY SeatsAssumption DEF Views

LEMMA NoneAndSome ==
    /\ \A v \in Views : v \in OrNone(Views)
    /\ \A v \in Seats : v \in OrNone(Seats) /\ v \in Views
    /\ "none" \in OrNone(Views) /\ "none" \in OrNone(Seats) /\ "host" \in Views
BY DEF OrNone, Views

\* Page a with a join for v under way; h is whether it has asked for the host's row.
Asking(a, v, h) ==
    [a EXCEPT !.target = "none", !.url = v, !.autoJoin = TRUE, !.pending = v, !.lastAttempt = v,
              !.joinSeq = a.joinSeq + 1, !.joinId = a.joinSeq + 1, !.hostReq = h]

LEMMA AskingType ==
    ASSUME NEW a \in Pages, NEW v \in Views, NEW h \in BOOLEAN
    PROVE  Asking(a, v, h) \in Pages
<1>1. a.joinSeq + 1 \in Nat
  BY DEF Pages
<1>2. v \in OrNone(Views) /\ "none" \in OrNone(Seats)
  BY NoneAndSome
<1> QED BY <1>1, <1>2 DEF Asking, Pages

LEMMA AskingIsNotIdle ==
    ASSUME NEW a \in Pages, NEW v \in Views, NEW h \in BOOLEAN
    PROVE  Asking(a, v, h).pending = v /\ ~Idle(Asking(a, v, h))
BY NoneIsNoView DEF Asking, Idle, Pages

LEMMA SubmitJoinAsks ==
    ASSUME NEW a \in Pages, NEW v \in Views, a.pending = "none"
    PROVE  SubmitJoin(a, v) = Asking(a, v, a.hostReq)
BY DEF SubmitJoin, Asking, Pages

\* A join the page asks for by itself, and the latch that lets it.
AsksFor(a, b, v, h) ==
    /\ Idle(a) /\ b = Asking(a, v, h)
    /\ \/ a.rejoin # "none" /\ h = a.hostReq
       \/ ~a.autoJoin /\ h = a.hostReq
       \/ ~a.hostReq /\ h

LEMMA ResumeCases ==
    ASSUME NEW a \in Pages
    PROVE  \/ Resume(a) = a
           \/ ~(a.session = NoSession) /\ \E v \in Views, h \in BOOLEAN : AsksFor(a, Resume(a), v, h)
<1> DEFINE b == MaybeAutoRejoin(a)
           c == MaybeAutoJoin(b)
<1>1. a.hostReq \in BOOLEAN /\ a.rejoin \in OrNone(Seats) /\ a.url \in OrNone(Views)
  BY DEF Pages
<1>2. CASE Idle(a) /\ FindAutoRejoinSeat(a)
  <2>1. a.rejoin \in Views /\ a.rejoin # "none" /\ a.pending = "none"
    BY <1>1, <1>2, NoneAndSome DEF FindAutoRejoinSeat, Idle, OrNone
  <2>2. b = Asking(a, a.rejoin, a.hostReq)
    BY <1>2, <2>1, SubmitJoinAsks DEF MaybeAutoRejoin
  <2>3. ~Idle(b)
    BY <1>1, <2>1, <2>2, AskingIsNotIdle
  <2>4. Resume(a) = b
    BY <2>3 DEF Resume, MaybeAutoJoin, MaybeAutoHostView
  <2>5. a.session # NoSession
    BY <1>2, <1>1, <2>1, NoneIsNoView DEF FindAutoRejoinSeat, NoSession, OrNone
  <2> QED BY <1>1, <1>2, <2>1, <2>2, <2>4, <2>5 DEF AsksFor
<1>3. CASE ~(Idle(a) /\ FindAutoRejoinSeat(a)) /\ Idle(a) /\ a.url \in Seats /\ a.session.mp /\ ~a.autoJoin
  <2>1. b = a /\ a.pending = "none" /\ a.url \in Views
    BY <1>3, NoneAndSome DEF MaybeAutoRejoin, Idle
  <2>2. c = Asking(a, a.url, a.hostReq)
    BY <1>3, <2>1, SubmitJoinAsks DEF MaybeAutoJoin
  <2>3. ~Idle(c)
    BY <1>1, <2>1, <2>2, AskingIsNotIdle
  <2>4. Resume(a) = c
    BY <2>3 DEF Resume, MaybeAutoHostView
  <2>5. a.session # NoSession
    BY <1>3 DEF NoSession
  <2> QED BY <1>1, <1>3, <2>1, <2>2, <2>4, <2>5 DEF AsksFor
<1>4. CASE /\ b = a /\ c = a
           /\ Idle(a) /\ a.url = "host" /\ ~a.hostReq /\ a.session.mp /\ a.session.hostRow
  <2> DEFINE d == [a EXCEPT !.hostReq = TRUE]
  <2>1. d \in Pages /\ d.pending = "none"
    BY <1>4 DEF Pages, Idle
  <2>2. Resume(a) = SubmitJoin(d, "host")
    BY <1>4 DEF Resume, MaybeAutoHostView
  <2>3. SubmitJoin(d, "host") = Asking(d, "host", d.hostReq)
    BY <2>1, NoneAndSome, SubmitJoinAsks
  <2>4. Asking(d, "host", d.hostReq) = Asking(a, "host", TRUE)
    BY DEF Asking, Pages
  <2>5. a.session # NoSession
    BY <1>4 DEF NoSession
  <2> QED BY <1>4, <2>2, <2>3, <2>4, <2>5, NoneAndSome DEF AsksFor
<1>5. CASE /\ b = a /\ c = a
           /\ ~(Idle(a) /\ a.url = "host" /\ ~a.hostReq /\ a.session.mp /\ a.session.hostRow)
  BY <1>5 DEF Resume, MaybeAutoHostView
<1>6. CASE /\ ~(Idle(a) /\ FindAutoRejoinSeat(a))
           /\ ~(Idle(a) /\ a.url \in Seats /\ a.session.mp /\ ~a.autoJoin)
  <2>1. b = a
    BY <1>6 DEF MaybeAutoRejoin
  <2>2. c = a
    BY <1>6, <2>1 DEF MaybeAutoJoin
  <2> QED BY <2>1, <2>2, <1>4, <1>5
<1> QED BY <1>2, <1>3, <1>6

\* A page whose active socket was lost.
Restarting(a) ==
    [a EXCEPT !.steady = FALSE, !.joined = FALSE, !.directView = FALSE, !.pending = "none",
              !.joinId = 0, !.session = NoSession, !.target = "none", !.timer = "reconnect"]

LEMMA DropCases ==
    ASSUME NEW a \in Pages
    PROVE  /\ Drop(a) \in Pages
           /\ a.timer = "none" => Drop(a) = Restarting(a)
           /\ a.timer # "none" => Drop(a) = a
           /\ Restarting(a) \in Pages
<1>1. Restarting(a) \in Pages
  BY NoneAndSome DEF Restarting, Pages
<1>2. a.timer = "none" => Drop(a) = Restarting(a)
  BY DEF Drop, Restarting
<1>3. a.timer # "none" => Drop(a) = a
  BY DEF Drop
<1> QED BY <1>1, <1>2, <1>3

LEMMA GiveUpType ==
    ASSUME NEW a \in Pages
    PROVE  GiveUp(a) \in Pages
<1> DEFINE u == IF a.granted = a.url THEN a.url ELSE "none"
<1>1. u \in OrNone(Views)
  BY NoneAndSome DEF Pages
<1>2. GiveUp(a) = [a EXCEPT !.joinId = 0, !.url = u, !.pending = "none", !.lastAttempt = "none", !.rejoin = "none"]
  BY DEF GiveUp, RetireJoinIntent, Pages
<1>3. 0 \in Nat /\ "none" \in OrNone(Views) /\ "none" \in OrNone(Seats)
  BY NoneAndSome
<1> HIDE DEF u
<1>4. [a EXCEPT !.joinId = 0, !.pending = "none"] \in Pages
  BY <1>3 DEF Pages
<1>5. \A b \in Pages : [b EXCEPT !.url = u, !.lastAttempt = "none", !.rejoin = "none"] \in Pages
  BY <1>1, <1>3 DEF Pages
<1>6. GiveUp(a) = [[a EXCEPT !.joinId = 0, !.pending = "none"] EXCEPT !.url = u, !.lastAttempt = "none", !.rejoin = "none"]
  BY <1>2
<1> QED BY <1>4, <1>5, <1>6

----------------------------------------------------------------------------
(* The inductive invariant.                                                *)

LEMMA InitInv == Init => IInv
<1> SUFFICES ASSUME Init PROVE IInv
  OBVIOUS
<1>1. PICK u \in OrNone(Views) : app = Loaded(u)
  BY DEF Init
<1>2. host = Connecting /\ seat = [st |-> "none", ever |-> FALSE] /\ asked = {}
      /\ drops = 0 /\ picks = 0
      /\ past = [view |-> "none", lost |-> FALSE, refused |-> FALSE, autos |-> 0]
  BY DEF Init
<1>3. app \in Pages
  BY <1>1, NoneAndSome DEF Loaded, Pages
<1>4. host \in Sockets /\ seat \in Sockets
  BY <1>2 DEF Sockets, Connecting
<1>5. past \in [view : OrNone(Views), lost : BOOLEAN, refused : BOOLEAN, autos : Nat]
  BY <1>2, NoneAndSome
<1>6. TypeOK
  BY <1>2, <1>3, <1>4, <1>5, BoundsAssumption DEF TypeOK, Pages
<1>7. HeldSeatIsTheOneAskedFor /\ NoRequestStorm
  BY <1>1, <1>2 DEF HeldSeatIsTheOneAskedFor, NoRequestStorm, Loaded
<1>8. Situations /\ SocketsAgree
  BY <1>1, <1>2 DEF Situations, SocketsAgree, Loaded, Connecting
<1>9. AskedInOrder /\ FewAutos /\ ViewIsKept
  BY <1>1, <1>2 DEF AskedInOrder, FewAutos, ViewIsKept, Loaded, Latched
<1> QED BY <1>6, <1>7, <1>8, <1>9 DEF IInv, Mounted

LEMMA Types ==
    ASSUME IInv
    PROVE  /\ app \in Pages /\ host \in Sockets /\ seat \in Sockets
           /\ asked \subseteq [id : Nat, view : Views]
           /\ drops \in 0..MaxDrops /\ picks \in 0..MaxPicks
           /\ past \in [view : OrNone(Views), lost : BOOLEAN, refused : BOOLEAN, autos : Nat]
BY DEF IInv, TypeOK, Pages

LEMMA Storm ==
    ASSUME NEW a \in Pages, NEW n \in Nat, n <= Latched(a.autoJoin) + Latched(a.hostReq)
    PROVE  n <= 2
BY DEF Latched, Pages

\* A join for v is on its way, for whatever reason.
LEMMA AskingKeeps ==
    ASSUME IInv, app.up, host.st = "open", app.active = "host",
           NEW a \in Pages, NEW t \in Rosters \cup {NoSession}, a = [app EXCEPT !.session = t], Idle(a),
           NEW v \in Views, NEW h \in BOOLEAN, app' = Asking(a, v, h),
           app.hostReq => h,
           Asks, UNCHANGED <<host, seat>>,
           past' \in [view : OrNone(Views), lost : BOOLEAN, refused : BOOLEAN, autos : Nat],
           past'.autos <= 1 + Latched(h), past'.view = past.view, past'.lost = past.lost,
           past.view = "none" \/ past.lost
    PROVE  /\ app' \in Pages /\ asked' \subseteq [id : Nat, view : Views]
           /\ HeldSeatIsTheOneAskedFor' /\ Mounted'
<1>1. /\ app \in Pages /\ host \in Sockets /\ seat \in Sockets
      /\ asked \subseteq [id : Nat, view : Views]
  BY Types
<1>2. app' \in Pages
  BY AskingType
<1>3. Idle(app) /\ app.timer = "none" /\ app.joinId = 0
  BY <1>1 DEF Idle, HasView, IInv, Mounted, Situations, WaitsToStartOver, HoldsASeat, Pages
<1>4. app'.joinSeq = app.joinSeq + 1 /\ app'.pending = v
  BY <1>1 DEF Asking, Pages
<1>5. asked' = asked \cup {[id |-> app.joinSeq + 1, view |-> v]}
  BY <1>1, <1>4 DEF Asks, Pages
<1>6. asked' \subseteq [id : Nat, view : Views]
  BY <1>1, <1>5 DEF Pages
<1>7. HeldSeatIsTheOneAskedFor'
  BY <1>1, <1>3 DEF HeldSeatIsTheOneAskedFor, Asking, Idle, HasView, Pages
<1>8. Situations'
  BY <1>1, <1>3, NoneIsNoView DEF Situations, IInv, Mounted, Asking, AwaitsAnAnswer, Idle, HasView, Pages
<1>9. SocketsAgree'
  BY <1>1, <1>3 DEF SocketsAgree, IInv, Mounted, Asking, Idle, HasView, Pages
<1>10. AskedInOrder'
  BY <1>1, <1>3, <1>4, <1>5 DEF AskedInOrder, IInv, Mounted, Asking, Pages
<1>11. FewAutos'
  BY <1>1, <1>3, <1>4, NoneIsNoView DEF FewAutos, Asking, Idle, HasView, Pages, Latched
<1>12. ViewIsKept'
  BY DEF ViewIsKept
<1> QED BY <1>2, <1>6, <1>7, <1>8, <1>9, <1>10, <1>11, <1>12 DEF Mounted

Parts ==
    /\ app \in Pages /\ host \in Sockets /\ seat \in Sockets
    /\ asked \subseteq [id : Nat, view : Views]
    /\ drops \in 0..MaxDrops /\ picks \in 0..MaxPicks
    /\ past \in [view : OrNone(Views), lost : BOOLEAN, refused : BOOLEAN, autos : Nat]

LEMMA Together ==
    ASSUME Parts', HeldSeatIsTheOneAskedFor', NoRequestStorm', app'.up => Mounted'
    PROVE  IInv'
BY DEF IInv, Parts, TypeOK, Pages

LEMMA OpeningKeeps == ASSUME IInv, HostOpens PROVE IInv'
<1>1. Parts
  BY Types DEF Parts
<1>2. Mounted /\ host.st = "connecting" /\ host' = Opened /\ app' = Resume(app)
      /\ UNCHANGED <<seat, asked, drops, picks, past>>
  BY DEF IInv, HostOpens
<1>3. app' = app
  BY <1>1, <1>2, ResumeCases DEF Parts, Mounted, SocketsAgree
<1>4. Parts'
  BY <1>1, <1>2, <1>3 DEF Parts, Opened, Sockets
<1>5. Mounted'
  <2>1. app.active = "host" /\ app.timer = "none" /\ ~app.joined /\ ~app.directView /\ app.pending = "none"
    BY <1>1, <1>2 DEF Mounted, Situations, SocketsAgree, ShowsASeat, WatchesTheHost, AwaitsAnAnswer, Parts, Pages
  <2>2. Situations'
    BY <1>2, <1>3, <2>1 DEF Mounted, Situations
  <2>3. SocketsAgree'
    BY <1>2, <1>3, <2>1 DEF Mounted, SocketsAgree, Opened
  <2>4. AskedInOrder' /\ FewAutos' /\ ViewIsKept'
    BY <1>2, <1>3 DEF Mounted, AskedInOrder, FewAutos, ViewIsKept
  <2> QED BY <2>2, <2>3, <2>4 DEF Mounted
<1>6. HeldSeatIsTheOneAskedFor' /\ NoRequestStorm'
  BY <1>2, <1>3 DEF IInv, HeldSeatIsTheOneAskedFor, NoRequestStorm
<1> QED BY <1>4, <1>5, <1>6, Together

LEMMA NotifyingKeeps == ASSUME IInv, NEW s \in Rosters, HostNotifies(s) PROVE IInv'
<1> DEFINE a == [app EXCEPT !.session = s]
<1>1. Parts /\ Mounted
  BY Types DEF Parts, IInv, HostNotifies
<1>2. /\ app.up /\ host.st = "open" /\ app.active = "host" /\ app' = Resume(a)
      /\ Asks /\ Remembers /\ UNCHANGED <<host, seat, drops, picks>>
  BY DEF HostNotifies
<1>3. a \in Pages
  BY <1>1 DEF Parts, Pages
<1> HIDE DEF a
<1>4. /\ a = [app EXCEPT !.session = s] /\ (Idle(a) <=> Idle(app)) /\ a.joinSeq = app.joinSeq
      /\ a.rejoin = app.rejoin /\ a.autoJoin = app.autoJoin /\ a.hostReq = app.hostReq
  BY <1>1 DEF a, Parts, Pages, Idle, HasView
<1>5. CASE app' = a
  <2>1. asked' = asked /\ past' = past
    BY <1>1, <1>2, <1>4, <1>5 DEF Asks, Remembers, Parts, Pages
  <2>2. Parts'
    BY <1>1, <1>2, <1>3, <1>5, <2>1 DEF Parts
  <2>3. Situations'
    BY <1>1, <1>2, <1>4, <1>5 DEF Mounted, Situations, Parts, Pages, ShowsASeat, WatchesTheHost,
                                  AwaitsAnAnswer, WaitsToStartOver, HoldsASeat, HasView
  <2>4. SocketsAgree'
    BY <1>1, <1>2, <1>4, <1>5 DEF Mounted, SocketsAgree, Parts, Pages
  <2>5. AskedInOrder' /\ FewAutos' /\ ViewIsKept'
    BY <1>1, <1>2, <1>4, <1>5, <2>1 DEF Mounted, AskedInOrder, FewAutos, ViewIsKept, Parts, Pages, Idle, HasView
  <2>6. HeldSeatIsTheOneAskedFor' /\ NoRequestStorm'
    BY <1>1, <1>4, <1>5, <2>1 DEF IInv, HeldSeatIsTheOneAskedFor, NoRequestStorm, Parts, Pages
  <2> QED BY <2>2, <2>3, <2>4, <2>5, <2>6, Together DEF Mounted
<1>6. ASSUME NEW v \in Views, NEW h \in BOOLEAN, AsksFor(a, app', v, h) PROVE IInv'
  <2>1. app' = Asking(a, v, h) /\ app'.joinSeq > app.joinSeq /\ app'.autoJoin /\ app'.hostReq = h
    BY <1>1, <1>3, <1>4, <1>6 DEF AsksFor, Asking, Parts, Pages
  <2>2. past' = [past EXCEPT !.autos = past.autos + 1]
    BY <1>1, <1>2, <2>1 DEF Remembers, Parts
  <2>3. /\ past' \in [view : OrNone(Views), lost : BOOLEAN, refused : BOOLEAN, autos : Nat]
        /\ past'.autos = past.autos + 1 /\ past'.view = past.view /\ past'.lost = past.lost
    BY <1>1, <2>2 DEF Parts
  <2>4. Idle(app) /\ ~HasView(app) /\ app.timer = "none"
    BY <1>1, <1>2, <1>4, <1>6 DEF AsksFor, Idle, HasView, Mounted, Situations, WaitsToStartOver, HoldsASeat,
                                  Parts, Pages
  <2>5. past.view = "none" \/ past.lost
    BY <1>1, <2>4 DEF Mounted, ViewIsKept
  <2>6. past.autos + 1 <= 1 + Latched(h) /\ (app.hostReq => h)
    BY <1>1, <1>4, <1>6, <2>4 DEF AsksFor, Mounted, FewAutos, Latched, Parts, Pages
  <2>7. s \in Rosters \cup {NoSession} /\ Idle(a)
    BY <1>6 DEF AsksFor
  <2>8. /\ app' \in Pages /\ asked' \subseteq [id : Nat, view : Views]
        /\ HeldSeatIsTheOneAskedFor' /\ Mounted'
    BY <1>2, <1>3, <1>4, <2>1, <2>3, <2>5, <2>6, <2>7, AskingKeeps
  <2>9. Parts'
    BY <1>1, <1>2, <2>3, <2>8 DEF Parts
  <2>10. NoRequestStorm'
    BY <2>3, <2>8, Storm DEF NoRequestStorm, Mounted, FewAutos
  <2> QED BY <2>8, <2>9, <2>10, Together
<1> QED BY <1>2, <1>3, <1>5, <1>6, ResumeCases

LEMMA PickingKeeps == ASSUME IInv, NEW v \in Views, UserPicks(v) PROVE IInv'
<1>1. Parts /\ Mounted
  BY Types DEF Parts, IInv, UserPicks
<1>2. /\ app.up /\ host.st = "open" /\ app.active = "host" /\ Idle(app)
      /\ app' = SubmitJoin(app, v) /\ picks' = picks + 1 /\ picks < MaxPicks
      /\ Asks /\ past' = [past EXCEPT !.refused = FALSE] /\ UNCHANGED <<host, seat, drops>>
  BY DEF UserPicks, ShowsPicker
<1>3. app' = Asking(app, v, app.hostReq)
  BY <1>1, <1>2, SubmitJoinAsks DEF Idle, Parts
<1>4. /\ app.session \in Rosters \cup {NoSession} /\ app.hostReq \in BOOLEAN
      /\ app = [app EXCEPT !.session = app.session]
  BY <1>1 DEF Parts, Pages
<1>5. /\ past' \in [view : OrNone(Views), lost : BOOLEAN, refused : BOOLEAN, autos : Nat]
      /\ past'.autos = past.autos /\ past'.view = past.view /\ past'.lost = past.lost
  BY <1>1, <1>2 DEF Parts
<1>6. past.view = "none" \/ past.lost
  BY <1>1, <1>2 DEF Mounted, ViewIsKept, Idle
<1>7. past.autos <= 1 + Latched(app.hostReq)
  BY <1>1 DEF Mounted, FewAutos, Latched, Parts, Pages
<1>12. app \in Pages /\ past'.autos <= 1 + Latched(app.hostReq)
  BY <1>1, <1>5, <1>7 DEF Parts
<1>8. /\ app' \in Pages /\ asked' \subseteq [id : Nat, view : Views]
      /\ HeldSeatIsTheOneAskedFor' /\ Mounted'
  <2>1. SUFFICES ASSUME NEW a, NEW t, NEW h, a = app, t = app.session, h = app.hostReq
                 PROVE  /\ app' \in Pages /\ asked' \subseteq [id : Nat, view : Views]
                        /\ HeldSeatIsTheOneAskedFor' /\ Mounted'
    OBVIOUS
  <2>2. /\ a \in Pages /\ t \in Rosters \cup {NoSession} /\ a = [app EXCEPT !.session = t]
        /\ h \in BOOLEAN /\ (app.hostReq => h)
    BY <1>4, <1>12, <2>1
  <2>3. Idle(a) /\ app' = Asking(a, v, h) /\ past'.autos <= 1 + Latched(h)
    BY <1>2, <1>3, <1>12, <2>1
  <2>4. past.view = "none" \/ past.lost
    BY <1>6
  <2> QED BY <1>2, <1>5, <2>2, <2>3, <2>4, AskingKeeps
<1>9. picks' \in 0..MaxPicks
  BY <1>1, <1>2, BoundsAssumption DEF Parts
<1>10. Parts'
  BY <1>1, <1>2, <1>5, <1>8, <1>9 DEF Parts
<1>11. NoRequestStorm'
  BY <1>5, <1>8, Storm DEF NoRequestStorm, Mounted, FewAutos
<1> QED BY <1>8, <1>10, <1>11, Together

\* The active socket is lost and the page starts over.
LEMMA RestartingKeeps ==
    ASSUME IInv, app.up, NEW h \in Sockets, NEW q \in Sockets,
           app' = Restarting(app), host' = h, seat' = q,
           UNCHANGED <<asked, picks>>, drops' \in 0..MaxDrops,
           app.active = "host" => h.st = "closed",
           h.st # "none", h.st # "connecting", h.st = "open" => h.ever,
           q.st \in {"none", "closed"},
           past' = past \/ past' = [past EXCEPT !.lost = TRUE],
           past.view # "none" => past'.lost
    PROVE  IInv'
<1>1. Parts /\ Mounted
  BY Types DEF Parts, IInv
<1>10. app' \in Pages
  BY <1>1, DropCases DEF Parts
<1>2. /\ ~app'.steady /\ ~app'.joined /\ ~app'.directView /\ app'.pending = "none"
      /\ app'.joinId = 0 /\ app'.timer = "reconnect" /\ app'.active = app.active /\ app'.clients = app.clients
      /\ app'.joinSeq = app.joinSeq /\ app'.autoJoin = app.autoJoin /\ app'.hostReq = app.hostReq
      /\ app'.session = NoSession
  BY <1>1 DEF Restarting, Parts, Pages
<1>3. /\ past' \in [view : OrNone(Views), lost : BOOLEAN, refused : BOOLEAN, autos : Nat]
      /\ past'.autos = past.autos /\ past'.view = past.view
  BY <1>1 DEF Parts
<1>4. Parts'
  BY <1>1, <1>3, <1>10 DEF Parts
<1>5. Situations'
  BY <1>1, <1>2 DEF Mounted, Situations, WaitsToStartOver
<1>6. SocketsAgree'
  BY <1>2 DEF SocketsAgree
<1>7. AskedInOrder'
  BY <1>1, <1>2 DEF Mounted, AskedInOrder, Parts, Pages
<1>8. FewAutos' /\ ViewIsKept' /\ HeldSeatIsTheOneAskedFor'
  BY <1>1, <1>2, <1>3 DEF Mounted, FewAutos, ViewIsKept, HeldSeatIsTheOneAskedFor
<1>9. NoRequestStorm'
  BY <1>3 DEF IInv, NoRequestStorm
<1> QED BY <1>4, <1>5, <1>6, <1>7, <1>8, <1>9, Together DEF Mounted

LEMMA HostDropKeeps == ASSUME IInv, HostDrops PROVE IInv'
<1>1. Parts /\ Mounted
  BY Types DEF Parts, IInv, HostDrops
<1>2. /\ app.up /\ host.st \in {"connecting", "open"} /\ drops < MaxDrops
      /\ host' = Closed(host) /\ drops' = drops + 1 /\ Lost(host) /\ UNCHANGED <<asked, picks>>
  BY DEF HostDrops
<1>3. drops' \in 0..MaxDrops
  BY <1>1, <1>2, BoundsAssumption DEF Parts
<1>4. host' \in Sockets /\ host'.st = "closed"
  BY <1>1, <1>2 DEF Parts, Sockets, Closed
<1>5. past' = past \/ past' = [past EXCEPT !.lost = TRUE]
  <2>1. past.lost \in BOOLEAN /\ host.ever \in BOOLEAN
    BY <1>1 DEF Parts, Sockets
  <2>2. CASE past.lost \/ host.ever
    BY <1>2, <2>1, <2>2 DEF Lost
  <2>3. CASE ~past.lost /\ ~host.ever
    BY <1>1, <1>2, <2>1, <2>3 DEF Lost, Parts
  <2> QED BY <2>2, <2>3
<1>6. past.view # "none" => past'.lost
  <2> SUFFICES ASSUME past.view # "none" PROVE past'.lost
    OBVIOUS
  <2>1. CASE past.lost
    BY <1>1, <1>2, <2>1 DEF Lost, Parts
  <2>2. CASE ~past.lost
    <3>1. app.joined \/ app.directView
      BY <1>1, <2>2 DEF Mounted, ViewIsKept, HasView
    <3>2. host.st = "open" /\ host.ever
      BY <1>1, <3>1 DEF Mounted, Situations, SocketsAgree, ShowsASeat, WatchesTheHost
    <3> QED BY <1>1, <1>2, <3>2 DEF Lost, Parts
  <2> QED BY <2>1, <2>2
<1>7. CASE app.active = "host"
  <2>1. app' = Drop(app) /\ seat' = seat
    BY <1>2, <1>7 DEF HostDrops
  <2>2. app.timer = "none"
    BY <1>1, <1>2, <1>7 DEF Mounted, Situations, WaitsToStartOver, HoldsASeat, ShowsASeat, Parts, Pages
  <2>3. app' = Restarting(app)
    BY <1>1, <2>1, <2>2, DropCases DEF Parts
  <2>4. seat.st \in {"none", "closed"} /\ seat \in Sockets
    BY <1>1, <1>7 DEF Mounted, SocketsAgree, Situations, ShowsASeat, Parts, Sockets
  <2> QED BY <1>2, <1>3, <1>4, <1>5, <1>6, <1>7, <2>1, <2>3, <2>4, RestartingKeeps
<1>8. CASE app.active # "host"
  <2> DEFINE b == [app EXCEPT !.timer = IF app.target # "none" THEN "none" ELSE @]
  <2>1. app' = Drop(b) /\ seat' = Closed(seat)
    BY <1>2, <1>8 DEF HostDrops
  <2>2. seat' \in Sockets /\ seat'.st = "closed"
    BY <1>1, <2>1 DEF Parts, Sockets, Closed
  <2>3. b \in Pages
    BY <1>1 DEF Parts, Pages
  <2>4. CASE app.timer # "reconnect" \/ app.target # "none"
    <3>1. app.joined => app.target # "none"
      BY <1>1 DEF Mounted, Situations, ShowsASeat
    <3>2. app.timer # "reconnect" => app.joined
      BY <1>1, <1>8 DEF Mounted, Situations, Parts, Pages
    <3>3. b.timer = "none"
      BY <1>1, <2>4, <3>1, <3>2 DEF Parts, Pages
    <3>4. Restarting(b) = Restarting(app)
      BY <1>1 DEF Restarting, Parts, Pages
    <3>5. app' = Restarting(app)
      BY <2>1, <2>3, <3>3, <3>4, DropCases
    <3> QED BY <1>2, <1>3, <1>4, <1>5, <1>6, <1>8, <2>2, <3>5, RestartingKeeps
  <2>5. CASE app.timer = "reconnect" /\ app.target = "none"
    <3>1. b = app
      BY <1>1, <2>5 DEF Parts, Pages
    <3>2. app' = app
      BY <1>1, <2>1, <2>5, <3>1, DropCases DEF Parts
    <3>3. /\ past' \in [view : OrNone(Views), lost : BOOLEAN, refused : BOOLEAN, autos : Nat]
          /\ past'.autos = past.autos /\ past'.view = past.view
      BY <1>1, <1>5 DEF Parts
    <3>4. Parts'
      BY <1>1, <1>2, <1>3, <1>4, <2>2, <3>2, <3>3 DEF Parts
    <3>5. Mounted'
      <4>1. ~app.joined /\ ~app.directView /\ app.pending = "none" /\ app.active = "seat"
        BY <1>1, <1>8, <2>5 DEF Mounted, Situations, ShowsASeat, WatchesTheHost, AwaitsAnAnswer, Parts, Pages
      <4>2. Situations' /\ SocketsAgree'
        BY <1>1, <1>4, <2>2, <2>5, <3>2, <4>1 DEF Mounted, Situations, SocketsAgree, WaitsToStartOver
      <4>3. AskedInOrder' /\ FewAutos' /\ ViewIsKept'
        BY <1>1, <1>2, <1>6, <2>5, <3>2, <3>3, <4>1 DEF Mounted, AskedInOrder, FewAutos, ViewIsKept
      <4> QED BY <4>2, <4>3 DEF Mounted
    <3>6. HeldSeatIsTheOneAskedFor' /\ NoRequestStorm'
      BY <3>2, <3>3 DEF IInv, HeldSeatIsTheOneAskedFor, NoRequestStorm
    <3> QED BY <3>4, <3>5, <3>6, Together
  <2> QED BY <2>4, <2>5
<1> QED BY <1>7, <1>8

LEMMA GrantKeeps == ASSUME IInv, NEW r \in asked, HostGrants(r) PROVE IInv'
<1>1. Parts /\ Mounted
  BY Types DEF Parts, IInv, HostGrants, Answers
<1>2. /\ app.up /\ host.st = "open" /\ app.active = "host"
      /\ asked' = asked \ {r} /\ UNCHANGED <<host, drops, picks>>
      /\ r.id \in Nat /\ r.view \in Views /\ r.id # 0
  BY <1>1 DEF HostGrants, Answers, Parts, Mounted, AskedInOrder
<1>3. asked' \subseteq [id : Nat, view : Views]
  BY <1>1, <1>2 DEF Parts
<1>4. CASE ~Counts(r)
  <2>1. UNCHANGED <<app, seat, past>>
    BY <1>4 DEF HostGrants
  <2>2. Parts'
    BY <1>1, <1>2, <1>3, <2>1 DEF Parts
  <2>3. Mounted'
    BY <1>1, <1>2, <2>1 DEF Mounted, Situations, SocketsAgree, ShowsASeat, WatchesTheHost, AwaitsAnAnswer,
                            WaitsToStartOver, HoldsASeat, AskedInOrder, FewAutos, ViewIsKept, HasView, Idle
  <2>4. HeldSeatIsTheOneAskedFor' /\ NoRequestStorm'
    BY <2>1 DEF IInv, HeldSeatIsTheOneAskedFor, NoRequestStorm
  <2> QED BY <2>2, <2>3, <2>4, Together
<1>5. ASSUME Counts(r) PROVE /\ r.view = app.pending /\ app.pending # "none" /\ app.url = r.view
                             /\ app.lastAttempt = r.view /\ ~HasView(app) /\ app.timer = "none"
                             /\ app.clients = 1 /\ seat.st \notin {"connecting", "open"}
  BY <1>1, <1>2, <1>5, NoneIsNoView
     DEF Counts, Mounted, AskedInOrder, Situations, AwaitsAnAnswer, SocketsAgree, HasView, Parts
<1>6. CASE Counts(r) /\ r.view = "host"
  <2>1. app' = DirectViewed(app) /\ UNCHANGED seat /\ past' = [past EXCEPT !.view = "host", !.lost = FALSE]
    BY <1>6 DEF HostGrants
  <2>2. app' \in Pages
    <3>1. app.url \in OrNone(Views) /\ "none" \in OrNone(Views) /\ 0 \in Nat
      BY <1>1, NoneAndSome DEF Parts, Pages
    <3> QED BY <1>1, <2>1, <3>1 DEF DirectViewed, Parts, Pages
  <2>3. /\ app'.directView /\ app'.pending = "none" /\ app'.joinId = 0 /\ app'.steady /\ ~app'.joined
        /\ app'.timer = "none" /\ app'.active = "host" /\ app'.clients = 1 /\ app'.joinSeq = app.joinSeq
        /\ app'.autoJoin = app.autoJoin /\ app'.hostReq = app.hostReq
    BY <1>1, <1>2, <1>5, <1>6, <2>1 DEF DirectViewed, HasView, Parts, Pages
  <2>4. /\ past' \in [view : OrNone(Views), lost : BOOLEAN, refused : BOOLEAN, autos : Nat]
        /\ past'.autos = past.autos
    BY <1>1, <2>1, NoneAndSome DEF Parts
  <2>5. Parts'
    BY <1>1, <1>2, <1>3, <2>1, <2>2, <2>4 DEF Parts
  <2>6. Situations' /\ SocketsAgree'
    BY <1>1, <1>2, <1>5, <1>6, <2>1, <2>3 DEF Mounted, Situations, SocketsAgree, WatchesTheHost
  <2>7. AskedInOrder' /\ FewAutos' /\ ViewIsKept'
    BY <1>1, <1>2, <2>3, <2>4 DEF Mounted, AskedInOrder, FewAutos, ViewIsKept, HasView, Idle
  <2>8. HeldSeatIsTheOneAskedFor' /\ NoRequestStorm'
    BY <2>3, <2>4 DEF IInv, HeldSeatIsTheOneAskedFor, NoRequestStorm
  <2> QED BY <2>5, <2>6, <2>7, <2>8, Together DEF Mounted
<1>7. CASE Counts(r) /\ r.view # "host"
  <2>1. /\ app' = Redirected(app, r.view) /\ seat' = Connecting
        /\ past' = [past EXCEPT !.view = r.view, !.lost = FALSE]
    BY <1>7 DEF HostGrants, OpenSeatView
  <2>2. r.view \in Seats /\ r.view # "none" /\ r.view \in OrNone(Seats)
    BY <1>2, <1>7, NoneIsNoView, NoneAndSome DEF Views
  <2>3. app' \in Pages
    <3>1. app.clients + 1 \in 1..2
      BY <1>5, <1>7
    <3>2. app.url \in OrNone(Views) /\ "none" \in OrNone(Views) /\ 0 \in Nat
      BY <1>1, NoneAndSome DEF Parts, Pages
    <3>3. app.lastAttempt \in OrNone(Seats)
      BY <1>5, <1>7, <2>2
    <3> QED BY <1>1, <2>1, <2>2, <3>1, <3>2, <3>3 DEF Redirected, Parts, Pages
  <2>4. /\ app'.joined /\ app'.pending = "none" /\ app'.joinId = 0 /\ app'.steady /\ ~app'.directView
        /\ app'.timer = "none" /\ app'.active = "seat" /\ app'.joinSeq = app.joinSeq
        /\ app'.target = r.view /\ app'.rejoin = r.view /\ app'.url = r.view /\ app'.granted = r.view
        /\ app'.autoJoin = app.autoJoin /\ app'.hostReq = app.hostReq
    BY <1>1, <1>2, <1>5, <1>7, <2>1 DEF Redirected, HasView, Parts, Pages
  <2>5. /\ past' \in [view : OrNone(Views), lost : BOOLEAN, refused : BOOLEAN, autos : Nat]
        /\ past'.autos = past.autos
    BY <1>1, <1>2, <2>1, NoneAndSome DEF Parts
  <2>6. seat' \in Sockets /\ seat'.st = "connecting" /\ ~seat'.ever
    BY <2>1 DEF Connecting, Sockets
  <2>7. Parts'
    BY <1>1, <1>2, <1>3, <2>3, <2>5, <2>6 DEF Parts
  <2>8. Situations' /\ SocketsAgree'
    BY <1>1, <1>2, <2>2, <2>4, <2>6 DEF Mounted, Situations, SocketsAgree, ShowsASeat
  <2>9. AskedInOrder' /\ FewAutos' /\ ViewIsKept'
    BY <1>1, <1>2, <2>4, <2>5 DEF Mounted, AskedInOrder, FewAutos, ViewIsKept, HasView, Idle
  <2>10. HeldSeatIsTheOneAskedFor' /\ NoRequestStorm'
    BY <2>4, <2>5 DEF IInv, HeldSeatIsTheOneAskedFor, NoRequestStorm
  <2> QED BY <2>7, <2>8, <2>9, <2>10, Together DEF Mounted
<1> QED BY <1>4, <1>6, <1>7

\* The page stops asking: a refusal that counts, or no answer at all.
LEMMA GivingUpKeeps ==
    ASSUME IInv, app.up, app.pending # "none", app' = GiveUp(app), NEW S \in SUBSET asked, asked' = S,
           past' \in [view : OrNone(Views), lost : BOOLEAN, refused : BOOLEAN, autos : Nat],
           past'.autos = past.autos, past'.view = past.view, past'.lost = past.lost,
           UNCHANGED <<host, seat, drops, picks>>
    PROVE  IInv'
<1>1. Parts /\ Mounted
  BY Types DEF Parts, IInv
<1>2. AwaitsAnAnswer
  BY <1>1 DEF Mounted, Situations
<1>3. app' \in Pages
  BY <1>1, GiveUpType DEF Parts
<1>4. /\ app'.pending = "none" /\ app'.joinId = 0 /\ app'.rejoin = "none" /\ ~app'.joined /\ ~app'.directView
      /\ app'.timer = "none" /\ app'.active = "host" /\ app'.clients = app.clients
      /\ app'.joinSeq = app.joinSeq /\ app'.session = app.session
      /\ app'.autoJoin = app.autoJoin /\ app'.hostReq = app.hostReq
  BY <1>1, <1>2 DEF AwaitsAnAnswer, GiveUp, RetireJoinIntent, HasView, Parts, Pages
<1>5. Parts'
  BY <1>1, <1>3 DEF Parts
<1>6. Situations' /\ SocketsAgree'
  BY <1>1, <1>2, <1>4 DEF Mounted, Situations, SocketsAgree, AwaitsAnAnswer, HasView
<1>7. AskedInOrder' /\ FewAutos' /\ ViewIsKept'
  BY <1>1, <1>2, <1>4 DEF Mounted, AskedInOrder, FewAutos, ViewIsKept, AwaitsAnAnswer, HasView, Parts
<1>8. HeldSeatIsTheOneAskedFor' /\ NoRequestStorm'
  BY <1>4 DEF IInv, HeldSeatIsTheOneAskedFor, NoRequestStorm
<1> QED BY <1>5, <1>6, <1>7, <1>8, Together DEF Mounted

LEMMA RefusalKeeps == ASSUME IInv, NEW r \in asked, HostRefuses(r) PROVE IInv'
<1>1. Parts /\ Mounted
  BY Types DEF Parts, IInv, HostRefuses, Answers
<1>2. /\ app.up /\ asked' = asked \ {r} /\ UNCHANGED <<host, seat, drops, picks>>
      /\ r.id # 0 /\ r.id \in Nat
  BY <1>1 DEF HostRefuses, Answers, Mounted, AskedInOrder, Parts
<1>3. Counts(r) \in BOOLEAN
  BY DEF Counts
<1>4. /\ past' \in [view : OrNone(Views), lost : BOOLEAN, refused : BOOLEAN, autos : Nat]
      /\ past'.autos = past.autos /\ past'.view = past.view /\ past'.lost = past.lost
  BY <1>1, <1>3 DEF HostRefuses, Parts
<1>5. CASE Counts(r)
  <2>1. app' = GiveUp(app) /\ app.pending # "none"
    BY <1>1, <1>2, <1>5 DEF HostRefuses, Counts, Mounted, Situations
  <2>2. asked' \in SUBSET asked
    BY <1>2
  <2> QED BY <1>2, <1>4, <2>1, <2>2, GivingUpKeeps
<1>6. CASE ~Counts(r)
  <2>1. UNCHANGED <<app, host, seat>>
    BY <1>2, <1>6 DEF HostRefuses
  <2>2. Parts'
    BY <1>1, <1>2, <1>4, <2>1 DEF Parts
  <2>3. Mounted'
    BY <1>1, <1>2, <1>4, <2>1 DEF Mounted, Situations, SocketsAgree, ShowsASeat, WatchesTheHost, AwaitsAnAnswer,
                                  WaitsToStartOver, HoldsASeat, AskedInOrder, FewAutos, ViewIsKept, HasView, Idle
  <2>4. HeldSeatIsTheOneAskedFor' /\ NoRequestStorm'
    BY <1>4, <2>1 DEF IInv, HeldSeatIsTheOneAskedFor, NoRequestStorm
  <2> QED BY <2>2, <2>3, <2>4, Together
<1> QED BY <1>5, <1>6

LEMMA TimeoutKeeps == ASSUME IInv, JoinTimesOut PROVE IInv'
<1>1. Parts
  BY Types DEF Parts
<1>2. /\ app.up /\ app.pending # "none" /\ app' = GiveUp(app) /\ asked' = asked
      /\ past' = [past EXCEPT !.refused = TRUE] /\ UNCHANGED <<host, seat, drops, picks>>
  BY DEF JoinTimesOut
<1>3. /\ past' \in [view : OrNone(Views), lost : BOOLEAN, refused : BOOLEAN, autos : Nat]
      /\ past'.autos = past.autos /\ past'.view = past.view /\ past'.lost = past.lost
  BY <1>1, <1>2 DEF Parts
<1>4. asked \in SUBSET asked
  OBVIOUS
<1> QED BY <1>2, <1>3, <1>4, GivingUpKeeps

LEMMA SeatOpeningKeeps == ASSUME IInv, SeatOpens PROVE IInv'
<1>1. Parts /\ Mounted
  BY Types DEF Parts, IInv, SeatOpens
<1>2. /\ app.up /\ seat.st = "connecting" /\ seat' = Opened /\ UNCHANGED <<host, asked, drops, picks, past>>
      /\ app' = [app EXCEPT !.steady = @ \/ app.joined]
  BY DEF SeatOpens
<1>3. app.joined = TRUE /\ app.timer = "none" /\ app.active = "seat"
  BY <1>1, <1>2 DEF Mounted, SocketsAgree, Situations, ShowsASeat, Parts, Pages
<1>4. (app.steady \/ app.joined) = TRUE
  BY <1>3
<1>5. app' = [app EXCEPT !.steady = TRUE]
  BY <1>2, <1>4
<1>6. seat' \in Sockets /\ seat'.st = "open" /\ seat'.ever
  BY <1>2 DEF Opened, Sockets
<1>7. Parts'
  <2>1. app' \in Pages
    BY <1>1, <1>5 DEF Parts, Pages
  <2> QED BY <1>1, <1>2, <1>6, <2>1 DEF Parts
<1>8. Situations' /\ SocketsAgree'
  BY <1>1, <1>2, <1>3, <1>5, <1>6 DEF Mounted, Situations, SocketsAgree, ShowsASeat, HasView, Parts, Pages
<1>9. AskedInOrder' /\ FewAutos' /\ ViewIsKept'
  BY <1>1, <1>2, <1>5 DEF Mounted, AskedInOrder, FewAutos, ViewIsKept, HasView, Idle, Parts, Pages
<1>10. HeldSeatIsTheOneAskedFor' /\ NoRequestStorm'
  BY <1>1, <1>2, <1>5 DEF IInv, HeldSeatIsTheOneAskedFor, NoRequestStorm, Parts, Pages
<1> QED BY <1>7, <1>8, <1>9, <1>10, Together DEF Mounted

\* The host's socket is open behind a seat, so a seat's failure is always held.
LEMMA SeatFailingKeeps == ASSUME IInv, SeatFails PROVE IInv'
<1>1. Parts /\ Mounted
  BY Types DEF Parts, IInv, SeatFails
<1>2. /\ app.up /\ seat.st = "connecting" /\ seat' = Closed(seat) /\ UNCHANGED <<host, asked, picks, past>>
      /\ drops' = drops + 1 /\ drops < MaxDrops
  BY DEF SeatFails
<1>3. app.joined /\ app.timer = "none" /\ app.active = "seat" /\ app.target # "none" /\ host.st = "open" /\ ~seat.ever
  BY <1>1, <1>2 DEF Mounted, SocketsAgree, Situations, ShowsASeat
<1>4. app' = [app EXCEPT !.steady = FALSE, !.timer = "hold"]
  BY <1>3 DEF SeatFails, HoldSeatView
<1>5. seat' \in Sockets /\ seat'.st = "closed"
  BY <1>1, <1>2 DEF Closed, Sockets, Parts
<1>6. drops' \in 0..MaxDrops
  BY <1>1, <1>2, BoundsAssumption DEF Parts
<1>7. Parts'
  <2>1. app' \in Pages
    BY <1>1, <1>4 DEF Parts, Pages
  <2> QED BY <1>1, <1>2, <1>5, <1>6, <2>1 DEF Parts
<1>8. Situations' /\ SocketsAgree'
  BY <1>1, <1>2, <1>3, <1>4, <1>5 DEF Mounted, Situations, SocketsAgree, ShowsASeat, HoldsASeat, HasView, Parts, Pages
<1>9. AskedInOrder' /\ FewAutos' /\ ViewIsKept'
  BY <1>1, <1>2, <1>3, <1>4 DEF Mounted, AskedInOrder, FewAutos, ViewIsKept, HasView, Idle, Parts, Pages
<1>10. HeldSeatIsTheOneAskedFor' /\ NoRequestStorm'
  BY <1>1, <1>2, <1>4 DEF IInv, HeldSeatIsTheOneAskedFor, NoRequestStorm, Parts, Pages
<1> QED BY <1>7, <1>8, <1>9, <1>10, Together DEF Mounted

LEMMA SeatDropKeeps == ASSUME IInv, SeatDrops PROVE IInv'
<1>1. Parts /\ Mounted
  BY Types DEF Parts, IInv, SeatDrops
<1>2. /\ app.up /\ seat.st = "open" /\ seat' = Closed(seat) /\ UNCHANGED <<host, asked, picks>>
      /\ drops' = drops + 1 /\ drops < MaxDrops /\ app' = Drop(app) /\ Lost(seat)
  BY DEF SeatDrops
<1>3. app.timer = "none" /\ app.active = "seat" /\ host.st = "open" /\ host.ever /\ seat.ever
  BY <1>1, <1>2 DEF Mounted, SocketsAgree, Situations, ShowsASeat
<1>4. app' = Restarting(app)
  BY <1>1, <1>2, <1>3, DropCases DEF Parts
<1>5. seat' \in Sockets /\ seat'.st = "closed"
  BY <1>1, <1>2 DEF Closed, Sockets, Parts
<1>6. drops' \in 0..MaxDrops
  BY <1>1, <1>2, BoundsAssumption DEF Parts
<1>7. past' = [past EXCEPT !.lost = TRUE] /\ past'.lost
  <2>1. (past.lost \/ seat.ever) = TRUE
    BY <1>3
  <2> QED BY <1>1, <1>2, <2>1 DEF Lost, Parts
<1> QED BY <1>1, <1>2, <1>3, <1>4, <1>5, <1>6, <1>7, RestartingKeeps DEF Parts

LEMMA HoldFiringKeeps == ASSUME IInv, HoldFires PROVE IInv'
<1>1. Parts /\ Mounted
  BY Types DEF Parts, IInv, HoldFires
<1>2. /\ app.up /\ app.timer = "hold" /\ app' = [app EXCEPT !.timer = "none"]
      /\ seat' = Connecting /\ UNCHANGED <<host, asked, drops, picks, past>>
  BY DEF HoldFires, OpenSeatView
<1>3. app.joined /\ app.active = "seat" /\ host.st = "open"
  BY <1>1, <1>2 DEF Mounted, Situations, ShowsASeat, HoldsASeat
<1>4. seat' \in Sockets /\ seat'.st = "connecting" /\ ~seat'.ever
  BY <1>2 DEF Connecting, Sockets
<1>5. Parts'
  <2>1. app' \in Pages
    BY <1>1, <1>2 DEF Parts, Pages
  <2> QED BY <1>1, <1>2, <1>4, <2>1 DEF Parts
<1>6. Situations' /\ SocketsAgree'
  BY <1>1, <1>2, <1>3, <1>4 DEF Mounted, Situations, SocketsAgree, ShowsASeat, HasView, Parts, Pages
<1>7. AskedInOrder' /\ FewAutos' /\ ViewIsKept'
  BY <1>1, <1>2, <1>3 DEF Mounted, AskedInOrder, FewAutos, ViewIsKept, HasView, Idle, Parts, Pages
<1>8. HeldSeatIsTheOneAskedFor' /\ NoRequestStorm'
  BY <1>1, <1>2 DEF IInv, HeldSeatIsTheOneAskedFor, NoRequestStorm, Parts, Pages
<1> QED BY <1>5, <1>6, <1>7, <1>8, Together DEF Mounted

LEMMA ReconnectingKeeps == ASSUME IInv, ReconnectToHost PROVE IInv'
<1> DEFINE b == app.rejoin # "none"
<1>1. Parts /\ Mounted
  BY Types DEF Parts, IInv, ReconnectToHost
<1>2. /\ app.up /\ app.timer = "reconnect" /\ host' = Connecting /\ seat' = [st |-> "none", ever |-> FALSE]
      /\ app' = [app EXCEPT !.timer = "none", !.active = "host", !.clients = 1, !.joinSeq = 0, !.joinId = 0,
                            !.autoJoin = b, !.hostReq = b]
      /\ asked' = {} /\ past' = [past EXCEPT !.autos = 0, !.refused = FALSE] /\ UNCHANGED <<drops, picks>>
  BY DEF ReconnectToHost
<1>3. ~app.joined /\ ~app.directView /\ app.pending = "none"
  BY <1>1, <1>2 DEF Mounted, Situations, WaitsToStartOver, WatchesTheHost, AwaitsAnAnswer
<1>4. app' \in Pages
  <2>1. b \in BOOLEAN /\ 0 \in Nat /\ 1 \in 1..2
    OBVIOUS
  <2> HIDE DEF b
  <2>2. app \in Pages /\ "none" \in OrNone(Views) /\ "none" \in OrNone(Seats)
    BY <1>1, NoneAndSome DEF Parts
  <2>3. [app EXCEPT !.timer = "none", !.active = "host", !.clients = 1] \in Pages
    BY <2>1, <2>2 DEF Pages
  <2>4. \A c \in Pages : [c EXCEPT !.joinSeq = 0, !.joinId = 0, !.autoJoin = b, !.hostReq = b] \in Pages
    BY <2>1 DEF Pages
  <2>5. app' = [[app EXCEPT !.timer = "none", !.active = "host", !.clients = 1]
                  EXCEPT !.joinSeq = 0, !.joinId = 0, !.autoJoin = b, !.hostReq = b]
    BY <1>2
  <2> QED BY <2>3, <2>4, <2>5
<1>5. /\ app'.timer = "none" /\ app'.active = "host" /\ app'.clients = 1 /\ app'.joinId = 0
      /\ ~app'.joined /\ ~app'.directView /\ app'.pending = "none" /\ app'.rejoin = app.rejoin
      /\ app'.session = app.session
  BY <1>1, <1>2, <1>3 DEF Parts, Pages
<1>6. app'.autoJoin = b /\ app'.hostReq = b
  BY <1>1, <1>2 DEF Parts, Pages
<1>7. host' \in Sockets /\ seat' \in Sockets /\ host'.st = "connecting" /\ seat'.st = "none"
  BY <1>2 DEF Connecting, Sockets
<1>8. /\ past' \in [view : OrNone(Views), lost : BOOLEAN, refused : BOOLEAN, autos : Nat]
      /\ past'.autos = 0 /\ past'.view = past.view /\ past'.lost = past.lost
  BY <1>1, <1>2 DEF Parts
<1>9. Parts'
  BY <1>1, <1>2, <1>4, <1>7, <1>8 DEF Parts
<1>10. app.session = NoSession
  BY <1>1, <1>2 DEF Mounted, Situations, WaitsToStartOver
<1>11. Situations' /\ SocketsAgree'
  BY <1>5, <1>7, <1>10 DEF Situations, SocketsAgree
<1>12. AskedInOrder' /\ ViewIsKept'
  BY <1>1, <1>2, <1>3, <1>8 DEF Mounted, AskedInOrder, ViewIsKept, HasView
<1>13. FewAutos'
  <2>1. Latched(app'.autoJoin) + Latched(app'.hostReq) >= 0
    BY <1>6 DEF Latched
  <2> QED BY <1>5, <1>6, <1>8, <2>1 DEF FewAutos, Latched
<1>14. HeldSeatIsTheOneAskedFor' /\ NoRequestStorm'
  BY <1>5, <1>8 DEF HeldSeatIsTheOneAskedFor, NoRequestStorm
<1> QED BY <1>9, <1>11, <1>12, <1>13, <1>14, Together DEF Mounted

LEMMA UnmountKeeps == ASSUME IInv, Unmount PROVE IInv'
<1>1. Parts
  BY Types DEF Parts
<1>2. /\ app' = [app EXCEPT !.up = FALSE, !.timer = "none"]
      /\ host' = Closed(host) /\ seat' = Closed(seat) /\ UNCHANGED <<asked, drops, picks, past>>
  BY DEF Unmount
<1>3. app' \in Pages /\ ~app'.up
  BY <1>1, <1>2 DEF Parts, Pages
<1>4. host' \in Sockets /\ seat' \in Sockets
  BY <1>1, <1>2 DEF Parts, Sockets, Closed
<1>5. Parts'
  BY <1>1, <1>2, <1>3, <1>4 DEF Parts
<1>6. HeldSeatIsTheOneAskedFor' /\ NoRequestStorm'
  BY <1>1, <1>2 DEF IInv, HeldSeatIsTheOneAskedFor, NoRequestStorm, Parts, Pages
<1> QED BY <1>3, <1>5, <1>6, Together

LEMMA StutteringKeeps == ASSUME IInv, UNCHANGED vars PROVE IInv'
<1>1. Parts
  BY Types DEF Parts
<1>2. Parts' /\ HeldSeatIsTheOneAskedFor' /\ NoRequestStorm'
  BY <1>1 DEF vars, Parts, IInv, HeldSeatIsTheOneAskedFor, NoRequestStorm
<1>3. ASSUME app'.up PROVE Mounted'
  BY <1>3 DEF vars, IInv, Mounted, Situations, SocketsAgree, ShowsASeat, WatchesTheHost, AwaitsAnAnswer,
              WaitsToStartOver, HoldsASeat, AskedInOrder, FewAutos, ViewIsKept, HasView, Idle
<1> QED BY <1>2, <1>3, Together

LEMMA NextInv == ASSUME IInv, [Next]_vars PROVE IInv'
<1>1. CASE UNCHANGED vars
  BY <1>1, StutteringKeeps
<1>2. CASE Gone
  BY <1>2, StutteringKeeps DEF Gone
<1>3. CASE Next /\ ~Gone
  BY <1>3, OpeningKeeps, NotifyingKeeps, HostDropKeeps, PickingKeeps, GrantKeeps, RefusalKeeps, TimeoutKeeps,
     SeatOpeningKeeps, SeatFailingKeeps, SeatDropKeeps, HoldFiringKeeps, ReconnectingKeeps, UnmountKeeps
  DEF Next
<1> QED BY <1>1, <1>2, <1>3

----------------------------------------------------------------------------
(* The theorems.                                                           *)

\* Whatever is lost, tapped, answered or left unanswered, the page is in one of
\* the situations above.
THEOREM Invariant == Spec => []IInv
BY InitInv, NextInv, PTL DEF Spec

\* The page's cells keep their values, and it never lists more than two sockets
\* (allClients).
THEOREM TypeCorrect == Spec => []TypeOK
BY Invariant, PTL DEF IInv

\* Every drop of the socket on show schedules a retry (onActiveSocketGone,
\* holdSeatView), so that no page is left with nothing under way.
THEOREM NeverStrandedAlways == Spec => []NeverStranded
<1>1. IInv => NeverStranded
  <2> SUFFICES ASSUME IInv, app.up, app.timer = "none" PROVE NeverStranded
    BY DEF NeverStranded
  <2>1. Parts /\ Mounted
    BY Types DEF Parts, IInv
  <2>2. CASE app.active = "host"
    BY <2>1, <2>2 DEF NeverStranded, Mounted, SocketsAgree, Parts, Sockets
  <2>3. CASE app.active = "seat"
    BY <2>1, <2>3 DEF NeverStranded, Mounted, SocketsAgree
  <2> QED BY <2>1, <2>2, <2>3 DEF Parts, Pages
<1> QED BY <1>1, Invariant, PTL

\* The host's socket stays open behind a seat that is shown or held, so that the
\* host keeps the seat.
THEOREM HostSocketStays == Spec => []HeldSeatKeepsItsHost
<1>1. IInv => HeldSeatKeepsItsHost
  BY DEF IInv, Mounted, Situations, ShowsASeat, HeldSeatKeepsItsHost
<1> QED BY <1>1, Invariant, PTL

\* Answers to attempts the page gave up never move it to another seat (the
\* join's id in mirrorClient.ts).
THEOREM RightSeat == Spec => []HeldSeatIsTheOneAskedFor
BY Invariant, PTL DEF IInv

\* The banner "Reconnecting" shows exactly when no view is live.
THEOREM HonestPhase == Spec => []PhaseIsHonest
<1>1. IInv => PhaseIsHonest
  <2> SUFFICES ASSUME IInv, app.up PROVE PhaseIsHonest
    BY DEF PhaseIsHonest
  <2>1. Parts /\ Mounted
    BY Types DEF Parts, IInv
  <2> QED BY <2>1 DEF PhaseIsHonest, Mounted, Situations, SocketsAgree, WatchesTheHost, WaitsToStartOver,
                      HoldsASeat, Parts, Pages
<1> QED BY <1>1, Invariant, PTL

\* One connection sees at most two joins the page sends by itself
\* (autoJoinAttempted, hostViewRequested).
THEOREM NoStorm == Spec => []NoRequestStorm
BY Invariant, PTL DEF IInv

\* A page that has or holds a view never asks again by itself before a socket
\* that had opened is lost (holdSeatView instead of reconnectToHost).
THEOREM JoinsOnlyAfterALoss == Spec => NoJoinWithoutALostSocket
<1>1. IInv /\ [Next]_vars => [AsksByItself => past.lost \/ past.view = "none"]_vars
  <2> SUFFICES ASSUME IInv, Next, AsksByItself PROVE past.lost \/ past.view = "none"
    OBVIOUS
  <2>1. Parts
    BY Types DEF Parts
  <2>2. app'.joinSeq > app.joinSeq /\ picks' = picks
    BY DEF AsksByItself
  <2>3. ASSUME NEW s \in Rosters, HostNotifies(s) PROVE past.lost \/ past.view = "none"
    <3> DEFINE a == [app EXCEPT !.session = s]
    <3>1. /\ a \in Pages /\ a.joinSeq = app.joinSeq /\ (Idle(a) <=> Idle(app))
      BY <2>1 DEF Parts, Pages, Idle, HasView
    <3>2. app' = Resume(a) /\ Mounted
      BY <2>3 DEF HostNotifies, IInv
    <3> HIDE DEF a
    <3>3. app' # a
      BY <2>1, <2>2, <3>1 DEF Parts, Pages
    <3>4. Idle(a)
      BY <3>1, <3>2, <3>3, ResumeCases DEF AsksFor
    <3> QED BY <3>1, <3>2, <3>4 DEF Mounted, ViewIsKept, Idle
  <2>4. CASE HostOpens
    <3>1. app' = app
      BY <2>1, <2>4, ResumeCases DEF HostOpens, IInv, Mounted, SocketsAgree, Parts
    <3> QED BY <2>1, <2>2, <3>1 DEF Parts, Pages
  <2>5. ASSUME NEW v \in Views, UserPicks(v) PROVE FALSE
    BY <2>1, <2>2, <2>5 DEF UserPicks, Parts
  <2>6. ASSUME app'.joinSeq = app.joinSeq \/ app'.joinSeq = 0 PROVE FALSE
    BY <2>1, <2>2, <2>6 DEF Parts, Pages
  <2>7. ASSUME NEW b \in Pages PROVE Drop(b).joinSeq = b.joinSeq /\ GiveUp(b).joinSeq = b.joinSeq
    BY DEF Drop, GiveUp, RetireJoinIntent, Pages
  <2>8. CASE HostDrops
    <3> DEFINE b == [app EXCEPT !.timer = IF app.target # "none" THEN "none" ELSE @]
    <3>1. b \in Pages /\ b.joinSeq = app.joinSeq
      BY <2>1 DEF Parts, Pages
    <3>2. app' = Drop(app) \/ app' = Drop(b)
      BY <2>8 DEF HostDrops
    <3> QED BY <2>1, <2>6, <2>7, <3>1, <3>2 DEF Parts
  <2>9. ASSUME NEW r \in asked, HostGrants(r) PROVE FALSE
    BY <2>1, <2>6, <2>9 DEF HostGrants, Redirected, DirectViewed, Parts, Pages
  <2>10. ASSUME NEW r \in asked, HostRefuses(r) PROVE FALSE
    BY <2>1, <2>6, <2>7, <2>10 DEF HostRefuses, Parts
  <2>11. CASE JoinTimesOut \/ SeatDrops
    BY <2>1, <2>6, <2>7, <2>11 DEF JoinTimesOut, SeatDrops, Parts
  <2>12. CASE SeatFails
    <3>1. app' = Drop(app) \/ app'.joinSeq = app.joinSeq
      BY <2>1, <2>12 DEF SeatFails, HoldSeatView, Parts, Pages
    <3> QED BY <2>1, <2>6, <2>7, <3>1 DEF Parts
  <2>13. CASE SeatOpens \/ HoldFires \/ ReconnectToHost \/ Unmount \/ Gone
    BY <2>1, <2>6, <2>13 DEF SeatOpens, HoldFires, ReconnectToHost, Unmount, Gone, vars, Parts, Pages
  <2> QED BY <2>3, <2>4, <2>5, <2>8, <2>9, <2>10, <2>11, <2>12, <2>13 DEF Next
<1> QED BY <1>1, Invariant, PTL DEF Spec, NoJoinWithoutALostSocket
=============================================================================
