----------------------------- MODULE AssetCache -----------------------------
(***************************************************************************)
(* The asset cache of the browser page: the service worker (public/sw.js)  *)
(* with its Cache Storage, the browser's HTTP cache below it, the pages    *)
(* that load documents and assets through it, and the host that may be     *)
(* restarted with another frontend build or another build of the game.     *)
(*                                                                         *)
(* An asset's URL names the game build its page was told (?b=); the host   *)
(* answers it with the bytes of the game it runs. Every await of the       *)
(* worker is a point where another of its jobs may run. A cache that was   *)
(* deleted while a job held it is still usable and reaches nobody.         *)
(***************************************************************************)
EXTENDS Naturals, FiniteSets, Sequences, SequencesExt

CONSTANTS Tabs,
          Urls,        \* what the pages load: the Bundle of their build, or the game's assets
          Builds, Games,
          Jobs,        \* bound: one for each reconciliation the worker may have at once
          Kept,        \* the URLs whose responses the HTTP cache keeps
          Bumps,       \* whether a new frontend build ships a new cache format
          MaxEntries,  \* the entry budget of the asset cache
          TrimEvery,   \* puts between two checks of the budget
          MaxMoves     \* bound: how often, together, the host is restarted with other
                       \* files, a tab navigates, and the worker is stopped or reset

ASSUME BuildsAssumption == 1 \in Builds /\ 1 \in Games /\ Builds \cup Games \subseteq Nat \ {0}
ASSUME BoundsAssumption == /\ Bumps \in BOOLEAN /\ MaxEntries \in Nat
                           /\ TrimEvery \in Nat \ {0} /\ MaxMoves \in Nat

VARIABLES host,       \* [build, game]: what the host serves
          worker,     \* [version, registered, puts]: the active service worker; history:
                      \* forgot, puts were dropped from the count since the last listing
          store,      \* [Versions -> [stamp, identity, assets]]: the caches of each format
          http,       \* the HTTP cache: resources with the bytes they got
          tabs,       \* [Tabs -> [page, build, had, told, nav]]: each tab's document, the
                      \* tokens its page had, the one it told the worker last, and the
                      \* job, if any, that holds its next document
          job,        \* [Jobs -> [kind, pc, live, value, seen]]: handleNavigation with a
                      \* document, or an identity message, in reconcileStamp
          req,        \* [Tabs -> request]: an asset the worker fetches for the tab
          trim,       \* [pc, live, drop]: trimAssetCache, when a put has started it
          resetting,  \* whether the caches were wiped and the worker is going
          moves       \* what is left of the bound
vars == <<host, worker, store, http, tabs, job, req, trim, resetting, moves>>

Signals == {"stamp", "identity"}
Versions == IF Bumps THEN Builds ELSE {1}
Ships(b) == IF Bumps THEN b ELSE 1
Bundle == "bundle"                     \* the script of the frontend build itself
Scripts == [url : {Bundle}, of : Builds]
Keys == [url : Urls, of : Builds \cup Games]

\* History, of an entry and of a request: before, it was asked for before a signal
\* moved that the worker recorded since.
Entries == [key : Keys, before : BOOLEAN]

EmptyStore == [stamp |-> 0, identity |-> 0, assets |-> <<>>]
ClosedTab == [page |-> "closed", build |-> 0, had |-> {}, told |-> 0, nav |-> {}]
Loaded(b) == [ClosedTab EXCEPT !.page = "loaded", !.build = b]
NoJob == [kind |-> "stamp", pc |-> "none", live |-> FALSE, value |-> 0, seen |-> 0]
NoReq == [active |-> FALSE, live |-> FALSE, key |-> [url |-> Bundle, of |-> 0], before |-> FALSE]
NoTrim == [pc |-> "none", live |-> FALSE, drop |-> <<>>]

Init ==
    /\ host = [build |-> 1, game |-> 1]
    /\ worker = [version |-> 1, registered |-> FALSE, puts |-> 0, forgot |-> FALSE]
    /\ store = [v \in Versions |-> EmptyStore]
    /\ http = {}
    /\ tabs = [t \in Tabs |-> ClosedTab]
    /\ job = [i \in Jobs |-> NoJob]
    /\ req = [t \in Tabs |-> NoReq]
    /\ trim = NoTrim
    /\ resetting = FALSE
    /\ moves = MaxMoves

TakesMove == moves > 0 /\ moves' = moves - 1
Own == store[worker.version]
Cached == {e.key : e \in ToSet(Own.assets)}
Pcs == {"none", "reading", "recording", "wiping"}

\* caches.delete: the jobs that hold the cache go on with one nobody reads.
Detached == /\ req' = [t \in Tabs |-> [req[t] EXCEPT !.live = FALSE]]
            /\ trim' = [trim EXCEPT !.live = FALSE]

----------------------------------------------------------------------------
(* The host and the documents.                                             *)

HostMoves(b, g) ==
    /\ TakesMove
    /\ b >= host.build /\ <<b, g>> # <<host.build, host.game>>
    /\ host' = [build |-> b, game |-> g]
    /\ UNCHANGED <<worker, store, http, tabs, job, req, trim, resetting>>

Free == {i \in Jobs : job[i].pc = "none"}
Starts(i, kind, value) ==
    i \in Free /\ job' = [job EXCEPT ![i] = [NoJob EXCEPT !.kind = kind, !.pc = "reading", !.value = value]]

\* A page is opened, or reloaded, whatever its tab still waits for: the document
\* of the host's build is held until its stamp is reconciled, and the old page
\* lives on. A document that the tab gave up is reconciled all the same. Without a
\* worker the document is just loaded.
Navigate(t) ==
    /\ IF worker.registered
       THEN /\ TakesMove
            /\ \E i \in Jobs : Starts(i, "stamp", host.build) /\ tabs' = [tabs EXCEPT ![t].nav = {i}]
       ELSE tabs' = [tabs EXCEPT ![t] = Loaded(host.build)] /\ UNCHANGED <<job, moves>>
    /\ UNCHANGED <<host, worker, store, http, req, trim, resetting>>

\* handleNavigation: the network fails and the offline page is shown.
ShowOffline(t) ==
    /\ TakesMove
    /\ worker.registered
    /\ tabs' = [tabs EXCEPT ![t] = ClosedTab]
    /\ UNCHANGED <<host, worker, store, http, job, req, trim, resetting>>

\* The session envelope: the page mints its URLs with the host's token from now
\* on and tells its worker, if it has one, once per value.
SessionEnvelope(t) ==
    LET tells == worker.registered /\ tabs[t].told # host.game
    IN  /\ tabs[t].page = "loaded"
        /\ host.game \notin tabs[t].had \/ tells
        /\ tabs' = [tabs EXCEPT ![t].had = @ \cup {host.game}, ![t].told = IF tells THEN host.game ELSE @]
        /\ IF tells THEN \E i \in Jobs : Starts(i, "identity", host.game) ELSE job' = job
        /\ UNCHANGED <<host, worker, store, http, req, trim, resetting, moves>>

----------------------------------------------------------------------------
(* reconcileStamp, step by step.                                           *)

\* Nothing left to reconcile: the document becomes the page of the tab that still
\* waits for it.
JobEnds(i) ==
    /\ job' = [job EXCEPT ![i] = NoJob]
    /\ tabs' = [t \in Tabs |-> IF i \in tabs[t].nav THEN Loaded(job[i].value) ELSE tabs[t]]

ReadSignal(i) ==
    LET known == Own[job[i].kind]
    IN  /\ job[i].pc = "reading"
        /\ IF known = job[i].value THEN JobEnds(i)
           ELSE /\ job' = [job EXCEPT ![i].pc = "recording", ![i].live = TRUE, ![i].seen = known]
                /\ UNCHANGED tabs
        /\ UNCHANGED <<host, worker, store, http, req, trim, resetting, moves>>

\* What was asked for so far is from before the move.
Dated(assets) == [n \in DOMAIN assets |-> [assets[n] EXCEPT !.before = TRUE]]
Recorded(s, signal, value, moved) ==
    [s EXCEPT ![signal] = value, !.assets = IF moved THEN Dated(s.assets) ELSE s.assets]

\* A first observation only records.
Moved(seen) == seen # 0
RecordSignal(i) ==
    LET moved == job[i].live /\ Moved(job[i].seen)
    IN  /\ job[i].pc = "recording"
        /\ store' = IF job[i].live
                    THEN [store EXCEPT ![worker.version] = Recorded(@, job[i].kind, job[i].value, moved)]
                    ELSE store
        /\ req' = [t \in Tabs |-> [req[t] EXCEPT !.before = @ \/ (moved /\ req[t].active)]]
        /\ IF Moved(job[i].seen) THEN job' = [job EXCEPT ![i].pc = "wiping", ![i].live = FALSE] /\ UNCHANGED tabs
           ELSE JobEnds(i)
        /\ UNCHANGED <<host, worker, http, trim, resetting, moves>>

WipeAssets(i) ==
    /\ job[i].pc = "wiping"
    /\ store' = [store EXCEPT ![worker.version].assets = <<>>]
    /\ Detached
    /\ JobEnds(i)
    /\ UNCHANGED <<host, worker, http, resetting, moves>>

----------------------------------------------------------------------------
(* Assets.                                                                 *)

\* handleAsset misses: the cache is open, the request goes to the network. A page
\* may ask with a URL that it minted with an earlier token.
UrlFor(t, u) == [url : {u}, of : IF u = Bundle THEN {tabs[t].build} ELSE tabs[t].had]
Request(t, u) ==
    /\ worker.registered /\ tabs[t].page = "loaded" /\ ~req[t].active
    /\ \E key \in UrlFor(t, u) \ Cached :
           req' = [req EXCEPT ![t] = [active |-> TRUE, live |-> TRUE, key |-> key, before |-> FALSE]]
    /\ UNCHANGED <<host, worker, store, http, tabs, job, trim, resetting, moves>>

\* The HTTP cache answers what it has, the host anything else: a script by its
\* hashed name, a resource whatever game the URL names.
Known(key) == \E h \in http : h.key = key
Reachable(key) == key \notin Scripts \/ key.of = host.build
Fetched(key) == IF Known(key) THEN (CHOOSE h \in http : h.key = key).bytes ELSE host.game

\* cache.delete drops the entry of a URL, if there is one; cache.put drops it and
\* appends.
PlaceOf(assets, key) == CHOOSE i \in DOMAIN assets : assets[i].key = key
Without(assets, key) ==
    IF \E i \in DOMAIN assets : assets[i].key = key THEN RemoveAt(assets, PlaceOf(assets, key)) ELSE assets
Put(assets, e) == Append(Without(assets, e.key), e)

\* noteAssetPut: every TrimEvery puts a trim starts, unless one is running.
\* NoteAssetPutOn goes on counting.
BudgetTrim(due) ==
    trim' = IF due /\ trim.pc = "none" THEN [trim EXCEPT !.pc = "listing"] ELSE trim
NoteAssetPutOn(n) ==
    LET due == worker.puts + n >= TrimEvery
    IN  worker' = [worker EXCEPT !.puts = @ + n] /\ BudgetTrim(due)
NoteAssetPut(n) ==
    LET due == worker.puts + n >= TrimEvery
    IN  /\ worker' = [worker EXCEPT !.puts = IF due THEN 0 ELSE @ + n,
                                    !.forgot = @ \/ (due /\ trim.pc = "dropping")]
        /\ BudgetTrim(due)

\* StillHeld: the put goes to the cache that was opened before the request.
\* StillHeldByName opens the cache again, by its name.
StillHeldByName(t) == TRUE
StillHeld(t) == req[t].live
ReachesHttpCache(key) ==
    http' = IF key.url \in Kept THEN http \cup {[key |-> key, bytes |-> Fetched(key)]} ELSE http
ResponseArrives(t) ==
    LET r == req[t]
    IN  /\ r.active /\ Reachable(r.key)
        /\ ReachesHttpCache(r.key)
        /\ store' = IF StillHeld(t)
                    THEN [store EXCEPT ![worker.version].assets =
                              Put(@, [key |-> r.key, before |-> r.before])]
                    ELSE store
        /\ req' = [req EXCEPT ![t] = NoReq]
        /\ NoteAssetPut(1)
        /\ UNCHANGED <<host, tabs, job, resetting, moves>>

\* No room for the put: the budget is charged in full.
PutFails(t) ==
    /\ req[t].active /\ Reachable(req[t].key)
    /\ ReachesHttpCache(req[t].key)
    /\ req' = [req EXCEPT ![t] = NoReq]
    /\ NoteAssetPut(TrimEvery)
    /\ UNCHANGED <<host, store, tabs, job, resetting, moves>>

\* The network fails, or the response may not be stored.
NotCacheable(t) ==
    /\ req[t].active
    /\ req' = [req EXCEPT ![t] = NoReq]
    /\ UNCHANGED <<host, worker, store, http, tabs, job, trim, resetting, moves>>

\* trimAssetCache: the entries are listed, the oldest ones beyond the budget
\* are deleted one after another. PlanTrimLate lets one too many be.
PlanTrimLate(n) == IF n > MaxEntries + 1 THEN n - MaxEntries ELSE 0
PlanTrim(n) == IF n > MaxEntries THEN n - MaxEntries ELSE 0
ListEntries ==
    LET n == PlanTrim(Len(Own.assets))
    IN  /\ trim.pc = "listing"
        /\ trim' = IF n = 0 THEN NoTrim
                   ELSE [pc |-> "dropping", live |-> TRUE, drop |-> [i \in 1..n |-> Own.assets[i].key]]
        /\ worker' = [worker EXCEPT !.forgot = FALSE]
        /\ UNCHANGED <<host, store, http, tabs, job, req, resetting, moves>>
DropOldest ==
    /\ trim.pc = "dropping"
    /\ store' = IF trim.live
                THEN [store EXCEPT ![worker.version].assets = Without(@, Head(trim.drop))]
                ELSE store
    /\ trim' = IF Len(trim.drop) = 1 THEN NoTrim ELSE [trim EXCEPT !.drop = Tail(@)]
    /\ UNCHANGED <<host, worker, http, tabs, job, req, resetting, moves>>

----------------------------------------------------------------------------
(* The worker's life.                                                      *)

NoHandler == Free = Jobs /\ \A t \in Tabs : ~req[t].active
AtRest == NoHandler /\ ~resetting /\ trim.pc = "none"

\* A page registers the worker that the host ships: install, skipWaiting, activate
\* with a trim, which the worker's events wait for, and the page is claimed.
Activate(t) ==
    LET v == Ships(host.build)
        n == Len(store[v].assets)
    IN  /\ tabs[t].page = "loaded" /\ AtRest
        /\ ~worker.registered \/ worker.version # v
        /\ worker' = [version |-> v, registered |-> TRUE, puts |-> 0, forgot |-> FALSE]
        /\ store' = [store EXCEPT ![v].assets = SubSeq(@, PlanTrim(n) + 1, n)]
        /\ UNCHANGED <<host, http, tabs, job, req, trim, resetting, moves>>

\* The browser stops an idle worker, with a trim that no event waits for; what it
\* had in memory is gone when it runs again.
StopIdle ==
    /\ TakesMove
    /\ worker.registered /\ NoHandler /\ ~resetting
    /\ worker.puts # 0 \/ trim.pc # "none"
    /\ worker' = [worker EXCEPT !.puts = 0, !.forgot = TRUE]
    /\ trim' = NoTrim
    /\ UNCHANGED <<host, store, http, tabs, job, req, resetting>>

\* couchcoop-sw-reset: every cache of ours, whatever its format, then the
\* worker itself.
ResetWipes(t) ==
    /\ TakesMove
    /\ tabs[t].page = "loaded" /\ worker.registered /\ ~resetting
    /\ store' = [v \in Versions |-> EmptyStore]
    /\ Detached
    /\ resetting' = TRUE
    /\ job' = [i \in Jobs |-> [job[i] EXCEPT !.live = FALSE]]
    /\ UNCHANGED <<host, worker, http, tabs>>
Unregister ==
    /\ resetting /\ NoHandler
    /\ worker' = [worker EXCEPT !.registered = FALSE]
    /\ resetting' = FALSE
    /\ UNCHANGED <<host, store, http, tabs, job, req, trim, moves>>

Next ==
    \/ \E b \in Builds, g \in Games : HostMoves(b, g)
    \/ \E t \in Tabs : \/ Navigate(t) \/ ShowOffline(t) \/ SessionEnvelope(t)
                       \/ \E u \in Urls : Request(t, u)
                       \/ ResponseArrives(t) \/ PutFails(t) \/ NotCacheable(t)
                       \/ Activate(t) \/ ResetWipes(t)
    \/ \E i \in Jobs : ReadSignal(i) \/ RecordSignal(i) \/ WipeAssets(i)
    \/ ListEntries \/ DropOldest \/ StopIdle \/ Unregister

Spec == Init /\ [][Next]_vars

----------------------------------------------------------------------------
(* What must hold.                                                         *)

\* The types; no URL is cached twice.
TypeOK ==
    /\ host \in [build : Builds, game : Games]
    /\ worker \in [version : Versions, registered : BOOLEAN, puts : 0..(TrimEvery - 1), forgot : BOOLEAN]
    /\ \A v \in Versions : /\ store[v].stamp \in Builds \cup {0} /\ store[v].identity \in Games \cup {0}
                           /\ ToSet(store[v].assets) \subseteq Entries
                           /\ \A i, j \in DOMAIN store[v].assets :
                                  store[v].assets[i].key = store[v].assets[j].key => i = j
    /\ \A t \in Tabs : tabs[t].page \in {"closed", "loaded"} /\ tabs[t].had \subseteq Games
    /\ \A i \in Jobs : job[i].pc \in Pcs
    /\ trim.pc \in {"none", "listing", "dropping"} /\ ToSet(trim.drop) \subseteq Keys
    /\ resetting \in BOOLEAN

\* "Drop the whole asset cache when it moved": once a new build or identity is on
\* record and its wipe has landed, nothing is left that was asked for before the
\* move, and nothing of it comes back, whatever was under way: other
\* reconciliations of the same or of another value, and requests that hold the
\* cache that was deleted.
NothingOutlivesAMove ==
    (\A i \in Jobs : job[i].pc # "wiping") => \A e \in ToSet(Own.assets) : ~e.before

\* The budget is "checked amortized": what the cache has beyond it the worker has
\* counted, unless the count was dropped, with a worker that was stopped or while
\* a trim was at work.
BeyondTheBudgetIsCounted ==
    worker.registered /\ ~worker.forgot /\ trim.pc = "none" =>
        Len(Own.assets) <= MaxEntries + worker.puts

\* The same without the exception: a worker at rest never has more than the budget
\* and the puts since the last check.
BudgetIsSoft == AtRest /\ worker.registered => Len(Own.assets) < MaxEntries + TrimEvery

\* "The wipe has to land first or it would delete the very entries that load
\* just repopulated": no wipe for a stamp deletes the script of that very build, if
\* it was asked for after the stamp was recorded.
WipeComesBeforeTheLoad ==
    [][\A i \in Jobs : job[i].kind = "stamp" /\ job[i].pc = "wiping" /\ job'[i].pc = "none" =>
           \A e \in ToSet(Own.assets) : e.key = [url |-> Bundle, of |-> job[i].value] => e.before]_vars

\* The documented clean slate: activation deletes the caches of other formats.
NoOrphanCaches ==
    AtRest /\ worker.registered => \A v \in Versions \ {worker.version} : store[v] = EmptyStore

\* The documented contract of the URL: nothing that caches by URL serves the
\* bytes of one game for another's. A page that has the host's own token and
\* asks for an asset gets what the host would send.
UrlNamesItsBytes ==
    \A t \in Tabs, h \in http :
        tabs[t].page = "loaded" /\ host.game \in tabs[t].had /\ h.key.of = host.game => h.bytes = host.game
=============================================================================
