----------------------------- MODULE MirrorApp -----------------------------
(***************************************************************************)
(* The browser page of one viewer: MirrorApp.vue with the join ids of      *)
(* mirrorClient.ts and the rejoin rules of reconnectPolicy.ts.             *)
(*                                                                         *)
(* A page opens a socket to the host, asks for a view (a seat of its own   *)
(* or the host's row), and is redirected to the seat's socket or watches   *)
(* the host in place. The host socket stays open behind a seat: closing it *)
(* is what makes the host release the seat. Every lost socket starts a     *)
(* retry, and the page asks again by itself for the view it had.           *)
(*                                                                         *)
(* A seat is its name; the picker's ids, the texts, the delays of the      *)
(* ladder and the scene itself are left out. `past` is a history variable. *)
(***************************************************************************)
EXTENDS Naturals, FiniteSets

CONSTANTS Seats,      \* names of seats a viewer may take, strings
          MaxDrops,   \* bound: sockets that fail or close
          MaxPicks    \* bound: rows the viewer taps

ASSUME SeatsAssumption == {"host", "none"} \cap Seats = {}
ASSUME BoundsAssumption == MaxDrops \in Nat /\ MaxPicks \in Nat

VARIABLES app, host, seat, asked, drops, picks, past
vars == <<app, host, seat, asked, drops, picks, past>>

Views == Seats \cup {"host"}
OrNone(S) == S \cup {"none"}

Sockets == [st : {"none", "connecting", "open", "closed"}, ever : BOOLEAN]
Connecting == [st |-> "connecting", ever |-> FALSE]
Opened == [st |-> "open", ever |-> TRUE]
Closed(sock) == [sock EXCEPT !.st = "closed"]

\* A host session: whether it is a multiplayer screen, whether the roster has
\* the host's row, and each seat's row ("absent" when it has none).
Rows == {"ready", "blocked", "absent"}
NoSession == [known |-> FALSE, mp |-> FALSE, hostRow |-> FALSE, row |-> [s \in Seats |-> "absent"]]
Menu == [NoSession EXCEPT !.known = TRUE]
Rosters == {Menu} \cup [known : {TRUE}, mp : {TRUE}, hostRow : BOOLEAN, row : [Seats -> Rows]]

----------------------------------------------------------------------------
(* The page's cells. `url` is the ?name= marker and with it the intent: a  *)
(* seat's name, "host" for the empty marker, "none" when it is absent.     *)

Loaded(url) ==
    [up |-> TRUE, url |-> url, granted |-> "none", active |-> "host", clients |-> 1,
     joined |-> FALSE, directView |-> FALSE, pending |-> "none", joinId |-> 0, joinSeq |-> 0,
     rejoin |-> "none", lastAttempt |-> "none", autoJoin |-> FALSE, hostReq |-> FALSE,
     steady |-> TRUE, timer |-> "none", target |-> "none", session |-> NoSession]

Init ==
    /\ app \in {Loaded(u) : u \in OrNone(Views)}
    /\ host = Connecting
    /\ seat = [st |-> "none", ever |-> FALSE]
    /\ asked = {}
    /\ drops = 0 /\ picks = 0
    /\ past = [view |-> "none", lost |-> FALSE, refused |-> FALSE, autos |-> 0]

----------------------------------------------------------------------------
(* Steps of the page, as functions from its cells to its cells.            *)

HasView(a) == a.joined \/ a.directView
Idle(a) == ~HasView(a) /\ a.pending = "none"

SubmitJoin(a, v) ==
    IF a.pending # "none" THEN a
    ELSE [a EXCEPT !.target = "none", !.url = v, !.autoJoin = TRUE, !.pending = v,
                   !.lastAttempt = v, !.joinSeq = @ + 1, !.joinId = a.joinSeq + 1]

FindAutoRejoinSeat(a) == a.rejoin # "none" /\ a.session.row[a.rejoin] = "ready"

\* A seat the page remembers is taken back when the host offers it again.
\* MaybeAutoRejoinLatched does so only under the latch of the URL's join.
MaybeAutoRejoinLatched(a) ==
    IF Idle(a) /\ FindAutoRejoinSeat(a) /\ ~a.autoJoin THEN SubmitJoin(a, a.rejoin) ELSE a
MaybeAutoRejoin(a) ==
    IF Idle(a) /\ FindAutoRejoinSeat(a) THEN SubmitJoin(a, a.rejoin) ELSE a

MaybeAutoJoin(a) ==
    IF Idle(a) /\ a.url \in Seats /\ a.session.mp /\ ~a.autoJoin THEN SubmitJoin(a, a.url) ELSE a

MaybeAutoHostView(a) ==
    IF Idle(a) /\ a.url = "host" /\ ~a.hostReq /\ a.session.mp /\ a.session.hostRow
    THEN SubmitJoin([a EXCEPT !.hostReq = TRUE], "host") ELSE a

\* What every notification of a connected active socket ends with.
Resume(a) == MaybeAutoHostView(MaybeAutoJoin(MaybeAutoRejoin(a)))

\* A refused or unanswered attempt takes its mark out of the URL, unless that
\* is the view the page was granted before.
RetireJoinIntent(a) ==
    [a EXCEPT !.joinId = 0, !.url = IF a.granted = a.url THEN @ ELSE "none"]

\* The page stops asking by itself. GiveUpKeepingTarget forgets to.
GiveUpKeepingTarget(a) == [RetireJoinIntent(a) EXCEPT !.pending = "none", !.lastAttempt = "none"]
GiveUp(a) == [RetireJoinIntent(a) EXCEPT !.pending = "none", !.lastAttempt = "none", !.rejoin = "none"]

\* The active socket is gone: start over from the host, once per loss.
\* DropOfAView retries only for a page that had a view.
DropOfAView(a) ==
    IF a.timer # "none" \/ ~HasView(a) THEN [a EXCEPT !.pending = "none", !.joinId = 0, !.session = NoSession]
    ELSE [a EXCEPT !.steady = FALSE, !.joined = FALSE, !.directView = FALSE, !.session = NoSession,
                   !.target = "none", !.timer = "reconnect"]
Drop(a) ==
    IF a.timer # "none" THEN a
    ELSE [a EXCEPT !.steady = FALSE, !.joined = FALSE, !.directView = FALSE, !.pending = "none",
                   !.joinId = 0, !.session = NoSession, !.target = "none", !.timer = "reconnect"]

\* A seat socket that never opened says nothing about the seat: keep it.
HoldSeatView(a) ==
    IF a.timer # "none" THEN a ELSE [a EXCEPT !.steady = FALSE, !.timer = "hold"]

OpenSeatView == seat' = Connecting

\* Joins the page sent in this step are with the host.
Asks == asked' = IF app'.joinSeq > app.joinSeq
                 THEN asked \cup {[id |-> app'.joinSeq, view |-> app'.pending]} ELSE asked
\* History: a join nobody tapped for.
Remembers == past' = IF app'.joinSeq > app.joinSeq THEN [past EXCEPT !.autos = @ + 1] ELSE past
Lost(sock) == past' = [past EXCEPT !.lost = @ \/ sock.ever]

----------------------------------------------------------------------------
(* The host socket.                                                        *)

HostOpens ==
    /\ app.up /\ host.st = "connecting"
    /\ host' = Opened
    /\ app' = Resume(app)
    /\ UNCHANGED <<seat, asked, drops, picks, past>>

\* A session, or any other notification, of the active host socket.
HostNotifies(s) ==
    /\ app.up /\ host.st = "open" /\ app.active = "host"
    /\ app' = Resume([app EXCEPT !.session = s])
    /\ Asks /\ Remembers
    /\ UNCHANGED <<host, seat, drops, picks>>

\* The host socket fails or closes. Behind a seat it takes the seat's socket
\* with it, and a retry of that socket alone.
HostDrops ==
    /\ app.up /\ host.st \in {"connecting", "open"} /\ drops < MaxDrops
    /\ host' = Closed(host)
    /\ IF app.active = "host" THEN app' = Drop(app) /\ UNCHANGED seat
       ELSE /\ app' = Drop([app EXCEPT !.timer = IF app.target # "none" THEN "none" ELSE @])
            /\ seat' = Closed(seat)
    /\ drops' = drops + 1
    /\ Lost(host)
    /\ UNCHANGED <<asked, picks>>

----------------------------------------------------------------------------
(* Asking for a view and the host's answers.                               *)

\* The picker shows on a multiplayer screen to a connected page that waits for
\* nothing; its blocked rows are disabled.
ShowsPicker == app.active = "host" /\ host.st = "open" /\ Idle(app) /\ app.session.mp
Offered(v) == IF v = "host" THEN app.session.hostRow ELSE app.session.row[v] # "blocked"

\* The viewer taps a row (or types a name that has none).
UserPicks(v) ==
    /\ app.up /\ ShowsPicker /\ Offered(v) /\ picks < MaxPicks
    /\ app' = SubmitJoin(app, v)
    /\ picks' = picks + 1
    /\ Asks
    /\ past' = [past EXCEPT !.refused = FALSE]
    /\ UNCHANGED <<host, seat, drops>>

Redirected(a, v) ==
    [a EXCEPT !.granted = a.url, !.rejoin = a.lastAttempt, !.joined = TRUE, !.pending = "none", !.joinId = 0,
              !.steady = TRUE, !.target = v, !.active = "seat", !.clients = @ + 1]
DirectViewed(a) ==
    [a EXCEPT !.granted = a.url, !.directView = TRUE, !.pending = "none", !.joinId = 0, !.steady = TRUE]

\* An answer counts only while its id is the join in flight; CountsWhileAsking
\* takes any answer while some join is.
CountsWhileAsking(r) == app.joinId # 0
Counts(r) == r.id = app.joinId
Answers(r) ==
    /\ app.up /\ host.st = "open" /\ app.active = "host"
    /\ r \in asked /\ asked' = asked \ {r}
    /\ UNCHANGED <<host, drops, picks>>

\* The host runs one join of a connection at a time and refuses another.
Served(r) == \A q \in asked : r.id <= q.id

HostGrants(r) ==
    /\ Answers(r) /\ Served(r)
    /\ IF ~Counts(r) THEN UNCHANGED <<app, seat, past>>
       ELSE IF r.view = "host" THEN
            /\ app' = DirectViewed(app)
            /\ past' = [past EXCEPT !.view = "host", !.lost = FALSE]
            /\ UNCHANGED seat
       ELSE /\ app' = Redirected(app, r.view)
            /\ OpenSeatView
            /\ past' = [past EXCEPT !.view = r.view, !.lost = FALSE]

HostRefuses(r) ==
    /\ Answers(r)
    /\ app' = IF Counts(r) THEN GiveUp(app) ELSE app
    /\ past' = [past EXCEPT !.refused = @ \/ Counts(r)]
    /\ UNCHANGED seat

\* The host answers nothing for the length of the join timeout.
JoinTimesOut ==
    /\ app.up /\ app.pending # "none"
    /\ app' = GiveUp(app)
    /\ past' = [past EXCEPT !.refused = TRUE]
    /\ UNCHANGED <<host, seat, asked, drops, picks>>

----------------------------------------------------------------------------
(* The seat's socket and the two retries.                                  *)

SeatOpens ==
    /\ app.up /\ seat.st = "connecting"
    /\ seat' = Opened
    /\ app' = [app EXCEPT !.steady = @ \/ app.joined]
    /\ UNCHANGED <<host, asked, drops, picks, past>>

\* SeatFailsRestarting is the loop the hold was written against.
SeatFailsRestarting ==
    /\ app.up /\ seat.st = "connecting" /\ drops < MaxDrops
    /\ seat' = Closed(seat)
    /\ app' = Drop(app)
    /\ drops' = drops + 1
    /\ UNCHANGED <<host, asked, picks, past>>
SeatFails ==
    /\ app.up /\ seat.st = "connecting" /\ drops < MaxDrops
    /\ seat' = Closed(seat)
    /\ app' = IF app.target # "none" /\ ~seat.ever /\ host.st = "open" THEN HoldSeatView(app) ELSE Drop(app)
    /\ drops' = drops + 1
    /\ UNCHANGED <<host, asked, picks, past>>

\* The seat closes after it opened, or says that it is exiting.
SeatDrops ==
    /\ app.up /\ seat.st = "open" /\ drops < MaxDrops
    /\ seat' = Closed(seat)
    /\ app' = Drop(app)
    /\ drops' = drops + 1
    /\ Lost(seat)
    /\ UNCHANGED <<host, asked, picks>>

HoldFires ==
    /\ app.up /\ app.timer = "hold"
    /\ app' = [app EXCEPT !.timer = "none"]
    /\ OpenSeatView
    /\ UNCHANGED <<host, asked, drops, picks, past>>

ReconnectToHost ==
    /\ app.up /\ app.timer = "reconnect"
    /\ app' = [app EXCEPT !.timer = "none", !.active = "host", !.clients = 1, !.joinSeq = 0, !.joinId = 0,
                          !.autoJoin = app.rejoin # "none", !.hostReq = app.rejoin # "none"]
    /\ host' = Connecting
    /\ seat' = [st |-> "none", ever |-> FALSE]
    /\ asked' = {}
    /\ past' = [past EXCEPT !.autos = 0, !.refused = FALSE]
    /\ UNCHANGED <<drops, picks>>

Unmount ==
    /\ app.up
    /\ app' = [app EXCEPT !.up = FALSE, !.timer = "none"]
    /\ host' = Closed(host) /\ seat' = Closed(seat)
    /\ UNCHANGED <<asked, drops, picks, past>>
Gone == ~app.up /\ UNCHANGED vars

Next ==
    \/ HostOpens
    \/ \E s \in Rosters : HostNotifies(s)
    \/ HostDrops
    \/ \E v \in Views : UserPicks(v)
    \/ \E r \in asked : HostGrants(r)
    \/ \E r \in asked : HostRefuses(r)
    \/ JoinTimesOut
    \/ SeatOpens
    \/ SeatFails
    \/ SeatDrops
    \/ HoldFires
    \/ ReconnectToHost
    \/ Unmount
    \/ Gone

Spec == Init /\ [][Next]_vars

----------------------------------------------------------------------------
(* What must hold.                                                         *)

\* The cells have their values; the page never lists more than the host's
\* socket and one seat's, however long a hold goes on (the dead socket of a
\* retry is closed and dropped from allClients).
TypeOK ==
    /\ app \in [up : BOOLEAN, url : OrNone(Views), granted : OrNone(Views), active : {"host", "seat"},
                clients : 1..2, joined : BOOLEAN, directView : BOOLEAN, pending : OrNone(Views),
                joinId : Nat, joinSeq : Nat, rejoin : OrNone(Seats), lastAttempt : OrNone(Views),
                autoJoin : BOOLEAN, hostReq : BOOLEAN, steady : BOOLEAN,
                timer : {"none", "hold", "reconnect"}, target : OrNone(Seats), session : Rosters \cup {NoSession}]
    /\ host \in Sockets /\ seat \in Sockets
    /\ asked \subseteq [id : Nat, view : Views]
    /\ drops \in 0..MaxDrops /\ picks \in 0..MaxPicks
    /\ past \in [view : OrNone(Views), lost : BOOLEAN, refused : BOOLEAN, autos : Nat]

\* A mounted page always has a way forward: a retry is armed, or the socket it
\* shows is opening or open ("every drop schedules a reconnect").
NeverStranded ==
    app.up => \/ app.timer # "none"
              \/ (IF app.active = "host" THEN host ELSE seat).st \in {"connecting", "open"}

\* A page that holds a seat has not lost the host's socket, which is what
\* keeps the host from releasing that seat.
HeldSeatKeepsItsHost == app.up /\ app.joined => host.st \in {"connecting", "open"}

\* A live view is never shown under "Reconnecting", and a page that waits to
\* retry never claims to be well.
PhaseIsHonest ==
    app.up => /\ (app.joined /\ seat.st = "open") \/ app.directView => app.steady
              /\ app.timer # "none" => ~app.steady

\* The seat a page holds is the one it asked for last, also when the answers of
\* attempts it gave up arrive late: route, remembered seat and URL agree.
HeldSeatIsTheOneAskedFor ==
    app.joined => app.target = app.rejoin /\ app.url = app.rejoin /\ app.granted = app.rejoin

\* One connection to the host sees at most one join by each of the two ways a
\* page asks by itself (for a seat, for the host's row): a refused or
\* unanswered one is not repeated on every roster the host sends.
NoRequestStorm == past.autos <= 2

\* The page asks by itself again only after a socket that had opened was lost.
\* A seat's socket that never opened must not restart the join: each restart
\* made the host launch another game ("32 full game-process launches").
AsksByItself == app'.joinSeq > app.joinSeq /\ picks' = picks
NoJoinWithoutALostSocket == [][AsksByItself => past.lost \/ past.view = "none"]_vars

\* What the comment above reconnectToHost's latches says: a viewer who watched
\* the host's row and lost the socket takes that row again by itself.
HostViewerRetakesTheHostRow ==
    [][AsksByItself /\ past.view = "host" /\ app.url = "host" => app'.pending = "host"]_vars

\* What the comment in onJoinRejected says: a refused attempt (and an unanswered
\* one, "same disarm") disarms the page: from there the viewer taps himself.
RefusalDisarms == [][AsksByItself => ~past.refused]_vars

----------------------------------------------------------------------------
(* Fairness: timers fire, a socket being opened settles, and the host goes *)
(* on sending rosters in which every seat is ready.                        *)

AllReady == [known |-> TRUE, mp |-> TRUE, hostRow |-> TRUE, row |-> [s \in Seats |-> "ready"]]
TimersFire == WF_vars(JoinTimesOut) /\ WF_vars(HoldFires) /\ WF_vars(ReconnectToHost)
SocketsSettle == WF_vars(HostOpens) /\ WF_vars(SeatOpens)
LiveSpec == Spec /\ TimersFire /\ SocketsSettle /\ WF_vars(HostNotifies(AllReady))

\* A seat the page remembers comes back by itself, unless the page is told no
\* or hears nothing (which clears it) or the viewer watches the host instead.
SeatComesBack == app.rejoin # "none" ~> (app.joined \/ app.directView \/ app.rejoin = "none" \/ ~app.up)
=============================================================================
