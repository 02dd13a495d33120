--------------------------- MODULE HostingTracker ---------------------------
(***************************************************************************)
(* ConnectionHostingTracker: while a browser or a seat needs supervision,  *)
(* it watches the game's screens and ends hosting five seconds after the   *)
(* game left lobby and run, or when the network host itself ends.          *)
(*                                                                         *)
(* The counts that drive it are published outside the publisher's lock and *)
(* arrive in any order.  _hostingEndGate is modelled as a lock, for a new  *)
(* demand marshals to the game's main thread while it holds it.            *)
(***************************************************************************)
EXTENDS Integers

CONSTANTS
    MaxCount,        \* bound: browsers, and seats, at once
    MaxPublications  \* bound: counts published by each source

ASSUME BoundsAssumption == MaxCount \in Nat /\ MaxPublications \in Nat

Sources == {"browsers", "seats"}
NoGen == 0
Messages == [source : Sources, count : 0..MaxCount, gen : 1..MaxPublications]

VARIABLES
    screen,    \* the game's screen: "menu", "lobby" or "run"
    hostActive,\* IsHostActive
    main,      \* the main thread: "free", or "ending" in ResetSession
    count,     \* how many browsers and seats there are
    published, \* the generation of each source's latest count
    sent,      \* counts that have not arrived
    known,     \* _browserDemandGeneration, _ownedSeatDemandGeneration
    demand,    \* _browserDemand, _ownedSeatDemand
    active,    \* _activeGeneration
    gate,      \* the demand that holds _hostingEndGate, and how far it is
    sub,       \* the generation of _subscription and _timer
    evals,     \* generations with an evaluation due on the next frame
    unread,    \* the last evaluation due could not be scheduled or read
    left,      \* _leftAt: "none", "recent", or "expired" after five seconds
    hosted,    \* _hasHosted
    disposed   \* _disposed

world == <<screen, hostActive, main>>
supply == <<count, published, sent>>
accepted == <<known, demand, active>>
watch == <<gate, sub, evals, unread>>
verdict == <<left, hosted>>
vars == <<world, supply, accepted, watch, verdict, disposed>>

Free == [step |-> "free", gen |-> NoGen]

TypeOK ==
    /\ screen \in {"menu", "lobby", "run"} /\ hostActive \in BOOLEAN
    /\ main \in {"free", "ending"}
    /\ count \in [Sources -> 0..MaxCount]
    /\ published \in [Sources -> 0..MaxPublications]
    /\ sent \subseteq Messages
    /\ known \in [Sources -> 0..MaxPublications]
    /\ demand \in [Sources -> 0..MaxCount]
    /\ active \in Nat
    /\ gate \in [step : {"free", "subscribe", "keep", "marshal"}, gen : Nat]
    /\ sub \in Nat /\ evals \subseteq Nat
    /\ unread \in BOOLEAN
    /\ left \in {"none", "recent", "expired"} /\ hosted \in BOOLEAN
    /\ disposed \in BOOLEAN

Init ==
    /\ screen = "menu" /\ hostActive = FALSE /\ main = "free"
    /\ count = [x \in Sources |-> 0] /\ published = [x \in Sources |-> 0] /\ sent = {}
    /\ known = [x \in Sources |-> 0] /\ demand = [x \in Sources |-> 0] /\ active = NoGen
    /\ gate = Free /\ sub = NoGen /\ evals = {} /\ unread = FALSE
    /\ left = "none" /\ hosted = FALSE /\ disposed = FALSE

HasDemand == \E x \in Sources : demand[x] > 0

----------------------------------------------------------------------------
(* Browsers and seats come and go; each new count is published, numbered   *)
(* under the publisher's lock and sent outside it                          *)

Publishes(x, n) ==
    /\ count' = [count EXCEPT ![x] = n]
    /\ published' = [published EXCEPT ![x] = @ + 1]
    /\ sent' = sent \cup {[source |-> x, count |-> n, gen |-> published[x] + 1]}

\* A publication is kept in reserve for the end of each.
Comes(x) ==
    /\ count[x] < MaxCount
    /\ published[x] + count[x] + 2 <= MaxPublications
    /\ Publishes(x, count[x] + 1)
    /\ UNCHANGED <<world, accepted, watch, verdict, disposed>>

\* Mutant: a count that is not clamped at zero.
GoesUnclamped(x) ==
    /\ published[x] < MaxPublications
    /\ Publishes(x, count[x] - 1)
    /\ UNCHANGED <<world, accepted, watch, verdict, disposed>>

Goes(x) ==
    /\ count[x] > 0
    /\ Publishes(x, count[x] - 1)
    /\ UNCHANGED <<world, accepted, watch, verdict, disposed>>

\* EndHosting stops the seats it can; the manager publishes a count that changed.
SeatsEnd ==
    \/ UNCHANGED supply
    \/ \E n \in 0..MaxCount : n < count["seats"] /\ Publishes("seats", n)

----------------------------------------------------------------------------
(* SetDemand                                                               *)

\* Mutant: a count is taken whatever its generation.
NeverStale(m) == FALSE
Stale(m) == m.gen < known[m.source]

Stops == sub' = NoGen /\ left' = "none" /\ UNCHANGED <<gate, evals, unread>>
Starts ==
    /\ gate' = [step |-> "subscribe", gen |-> active']
    /\ UNCHANGED <<sub, evals, unread, left>>

DemandArrives(m) ==
    /\ m \in sent /\ sent' = sent \ {m}
    /\ gate = Free
    /\ IF disposed \/ Stale(m)
       THEN UNCHANGED <<accepted, watch, left>>
       ELSE /\ known' = [known EXCEPT ![m.source] = m.gen]
            /\ demand' = [demand EXCEPT ![m.source] = m.count]
            /\ IF HasDemand = HasDemand'
               THEN UNCHANGED <<active, watch, left>>
               ELSE /\ active' = active + 1
                    /\ IF HasDemand' THEN Starts ELSE Stops
    /\ UNCHANGED <<world, count, published, hosted, disposed>>

\* The screen trigger may be unavailable: then nothing is watched.
Subscribes ==
    /\ gate.step = "subscribe"
    /\ gate' \in {Free, [gate EXCEPT !.step = "keep"]}
    /\ UNCHANGED <<world, supply, accepted, sub, evals, unread, verdict, disposed>>

\* Mutant: the subscription is kept without asking again.
KeepsBlindly ==
    /\ gate.step = "keep"
    /\ sub' = gate.gen /\ gate' = [gate EXCEPT !.step = "marshal"]
    /\ UNCHANGED <<world, supply, accepted, evals, unread, verdict, disposed>>

\* The tracker may have been disposed of meanwhile: the subscription is kept only
\* while it is still wanted.
Keeps ==
    /\ gate.step = "keep"
    /\ IF ~disposed /\ HasDemand /\ active = gate.gen
       THEN sub' = gate.gen /\ gate' = [gate EXCEPT !.step = "marshal"]
       ELSE gate' = Free /\ UNCHANGED sub
    /\ UNCHANGED <<world, supply, accepted, evals, unread, verdict, disposed>>

\* ScheduleEvaluation: one frame later on the main thread.  It may throw.
Schedules(g) == \/ evals' = evals \cup {g} /\ UNCHANGED unread
                \/ evals' = evals /\ unread' = TRUE

\* The first evaluation waits for the main thread, with the gate held.
Marshals ==
    /\ gate.step = "marshal" /\ main = "free"
    /\ Schedules(gate.gen)
    /\ gate' = Free
    /\ UNCHANGED <<world, supply, accepted, sub, verdict, disposed>>

----------------------------------------------------------------------------
(* The main thread                                                         *)

\* The generation whose handler the game's screen event reaches: that of the
\* subscription kept, or of the one made and not kept yet.
Subscribed == IF gate.step = "keep" THEN gate.gen ELSE sub

ScreenChanges ==
    /\ main = "free"
    /\ screen' \in {"menu", "lobby", "run"} \ {screen}
    /\ IF Subscribed # NoGen THEN Schedules(Subscribed) ELSE UNCHANGED <<evals, unread>>
    /\ UNCHANGED <<hostActive, main, supply, accepted, gate, sub, verdict, disposed>>

HostStarts ==
    /\ main = "free" /\ ~hostActive /\ hostActive' = TRUE
    /\ UNCHANGED <<screen, main, supply, accepted, watch, verdict, disposed>>

\* Mutant: a return to the lobby or the run does not stop the countdown.
AppliesKeepingCountdown ==
    IF hostActive /\ screen # "menu" THEN hosted' = TRUE /\ UNCHANGED left
    ELSE /\ left' = IF hosted /\ screen = "menu" /\ left = "none" THEN "recent" ELSE left
         /\ UNCHANGED hosted
Applies ==
    IF hostActive /\ screen # "menu" THEN hosted' = TRUE /\ left' = "none"
    ELSE /\ left' = IF hosted /\ screen = "menu" /\ left = "none" THEN "recent" ELSE left
         /\ UNCHANGED hosted

\* EvaluateFacts: a read that throws is skipped, and what an evaluation for an
\* earlier demand read is dropped.
Evaluates(g) ==
    /\ main = "free" /\ g \in evals /\ evals' = evals \ {g}
    /\ IF disposed \/ ~HasDemand \/ active # g
       THEN UNCHANGED <<unread, verdict>>
       ELSE \/ unread' = TRUE /\ UNCHANGED verdict
            \/ unread' = FALSE /\ Applies
    /\ UNCHANGED <<world, supply, accepted, gate, sub, disposed>>

\* The game's Disconnect: HostingEnded is raised on the main thread.
HostEnds ==
    /\ main = "free" /\ hostActive /\ hostActive' = FALSE
    /\ main' = IF disposed THEN "free" ELSE "ending"
    /\ UNCHANGED <<screen, supply, accepted, watch, verdict, disposed>>

OnNativeHostingEnded ==
    /\ main = "ending" /\ main' = "free"
    /\ gate = Free
    /\ IF disposed THEN UNCHANGED <<supply, verdict>>
       ELSE left' = "none" /\ hosted' = FALSE /\ SeatsEnd
    /\ UNCHANGED <<screen, hostActive, accepted, watch, disposed>>

----------------------------------------------------------------------------
(* The timer, and the end of the mod                                       *)

FiveSecondsPass ==
    /\ left = "recent" /\ left' = "expired"
    /\ UNCHANGED <<world, supply, accepted, watch, hosted, disposed>>

\* Mutant: the expiry forgets to start over.
TickLeavesLatch ==
    /\ gate = Free
    /\ sub # NoGen /\ ~disposed /\ HasDemand /\ active = sub
    /\ left = "expired" /\ left' = "none"
    /\ SeatsEnd
    /\ UNCHANGED <<world, accepted, watch, hosted, disposed>>

Tick ==
    /\ gate = Free
    /\ sub # NoGen /\ ~disposed /\ HasDemand /\ active = sub
    /\ left = "expired" /\ left' = "none"
    /\ hosted' = FALSE
    /\ SeatsEnd
    /\ UNCHANGED <<world, accepted, watch, disposed>>

\* Not under the gate.
Dispose ==
    /\ ~disposed /\ disposed' = TRUE
    /\ active' = active + 1
    /\ sub' = NoGen
    /\ UNCHANGED <<world, supply, known, demand, gate, evals, unread, verdict>>

----------------------------------------------------------------------------
MainThread == (\E g \in evals : Evaluates(g)) \/ OnNativeHostingEnded

Next ==
    \/ \E x \in Sources : Comes(x) \/ Goes(x)
    \/ \E m \in sent : DemandArrives(m)
    \/ Subscribes \/ Keeps \/ Marshals
    \/ ScreenChanges \/ HostStarts \/ HostEnds \/ MainThread
    \/ FiveSecondsPass \/ Tick \/ Dispose

Spec == Init /\ [][Next]_vars

\* The thread that brings a demand, the game's frames, the clock and the timer go on.
Fairness ==
    /\ WF_vars(Subscribes) /\ WF_vars(Keeps) /\ WF_vars(Marshals)
    /\ WF_vars(MainThread) /\ WF_vars(FiveSecondsPass) /\ WF_vars(Tick)

FairSpec == Spec /\ Fairness

----------------------------------------------------------------------------
(* Properties                                                              *)

\* Whatever order the counts arrive in, once all have arrived the tracker's demand is
\* the number of browsers and seats there are: "an old queued zero may run after a
\* replacement seat has already been added".
DemandSettles == ~disposed /\ sent = {} => demand = count

\* The subscription and the timer are those of the present demand, and are gone with
\* it and with the tracker, even when that ends while one is being made.
SupervisionFollowsDemand ==
    sub # NoGen => ~disposed /\ HasDemand /\ sub = active

\* A countdown runs only for a demand and a session that was hosted, and only while
\* the game is in neither lobby nor run, or an evaluation that will stop it is due (or
\* was lost): a run that loads, or a new demand, is never ended by an earlier one's.
CountdownHasAReason ==
    ~disposed /\ left # "none" =>
        /\ hosted /\ HasDemand
        /\ screen = "menu" \/ active \in evals \/ unread \/ main = "ending"

\* A session that was hosted ends if the game stays in the menu: supervised, with its
\* facts readable and its main thread free, it is not kept alive for ever.
HostingEndsAfterLeaving ==
    <>[](screen = "menu" /\ sub # NoGen /\ ~unread /\ main = "free") => <>[]~hosted

\* CouchCoopGameFacts.Session.cs: "the marshal waits on the main thread, and the main
\* thread may be waiting on that lock", which is why no marshal is made under a lock
\* the main thread takes.
MarshalIsNotAwaitedByTheMainThread == ~(gate.step = "marshal" /\ main = "ending")

=============================================================================
