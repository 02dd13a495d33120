---------------------------- MODULE AtlasBakePool ----------------------------
(***************************************************************************)
(* The worker pool that cuts sprites out of atlas pages off the main       *)
(* thread: the pool's half (atlasBakePool.ts) and the workers' half        *)
(* (atlasBakeWorker.ts), with the messages between them.                   *)
(*                                                                         *)
(* The main thread runs one handler at a time; a handler that changes      *)
(* anything ends in pumpPool, one step per pending job looked at, while    *)
(* the workers go on. Messages of one worker arrive in order; terminating *)
(* a worker discards those that have not arrived. A job is a page and a    *)
(* number; sizes are in units the instance chooses.                        *)
(***************************************************************************)
EXTENDS Naturals, FiniteSets, Sequences, SequencesExt, FiniteSetsExt

CONSTANTS MaxWorkers,            \* what resolveAtlasBakePoolSize answers
          Pages, Size,           \* atlas pages and [Pages -> bytes]
          PerPage,               \* bound: [Pages -> number of jobs for the page]
          Budget, KeepBytes,     \* bytes: of the pool, of one worker
          HoldSlot, BigBytes,    \* the tier: big pages are held apart, or dropped when idle
          AmortizeQueueRegions,
          PostMayThrow           \* whether postMessage may throw

ASSUME SizesAssumption ==
    /\ Size \in [Pages -> Nat \ {0}] /\ PerPage \in [Pages -> Nat] /\ BigBytes <= KeepBytes + 1
    /\ MaxWorkers \in Nat /\ HoldSlot \in BOOLEAN /\ PostMayThrow \in BOOLEAN

Workers == 1..MaxWorkers
Jobs == UNION {{p} \X (1..PerPage[p]) : p \in Pages}
NoJob == <<>>
PageOf(j) == j[1]
NoTask == [job |-> NoJob, keepPage |-> FALSE]

VARIABLES spawned,    \* workers that could be made
          dead,       \* workers the pool has lost
          pending,    \* sequence of jobs
          inFlight,   \* [Workers -> Jobs \cup {NoJob}]: what the pool gave each worker
          pages, loading, \* [Workers -> SUBSET Pages]: held as reported, being loaded
          loadsPerUrl, deadPages,
          pump,       \* the pump: which job it looks at (0: not running), the workers it took for alive
          settled,    \* [Jobs -> answer]: what each job's caller was told last
          task, phase,\* [Workers -> ...]: the job in a worker's hand and how far it is
          held,       \* [Workers -> Seq(Pages)]: pages of a worker, least recently used first
          pinned, armed, bad, \* [Workers -> SUBSET Pages]: pinned, with a drop timer, never again
          out         \* [Workers -> Seq(message)]: on the way to the pool
mainVars == <<spawned, dead, pending, inFlight, pages, loading, loadsPerUrl, deadPages, pump, settled>>
workerVars == <<task, phase, held, pinned, armed, bad>>
vars == <<mainVars, workerVars, out>>

Idle == pump.at = 0
Alive == spawned \ dead
PumpFor(jobs, alive) == [at |-> IF jobs = <<>> \/ alive = {} THEN 0 ELSE 1, alive |-> alive, again |-> FALSE]
Bytes(ps) == FoldSet(LAMBDA p, n: Size[p] + n, 0, ps)
Open == {j \in Jobs : settled[j] = "open"}
HasRoom == Cardinality(Open) < (IF Alive = {} THEN 1 ELSE Cardinality(Alive))

\* The jobs that were sent to a worker that was lost already.
Stranded == {j \in Jobs : \E w \in dead : inFlight[w] = j}

Init ==
    /\ \E n \in 0..MaxWorkers: spawned = 1..n
    /\ dead = {} /\ pending = <<>> /\ deadPages = {}
    /\ inFlight = [w \in Workers |-> NoJob]
    /\ pages = [w \in Workers |-> {}] /\ loading = [w \in Workers |-> {}]
    /\ loadsPerUrl = [p \in Pages |-> 0]
    /\ pump = PumpFor(<<>>, {})
    /\ settled = [j \in Jobs |-> "none"]
    /\ task = [w \in Workers |-> NoTask] /\ phase = [w \in Workers |-> "idle"]
    /\ held = [w \in Workers |-> <<>>]
    /\ pinned = [w \in Workers |-> {}] /\ armed = [w \in Workers |-> {}] /\ bad = [w \in Workers |-> {}]
    /\ out = [w \in Workers |-> <<>>]

----------------------------------------------------------------------------
(* The pool.                                                               *)

Settle(js, answer) ==
    settled' = [j \in Jobs |-> IF j \in js THEN answer ELSE settled[j]]

\* A region or a strip. The baker keeps at most as many bakes open as the
\* pool has workers; it draws a refused one itself.
bakeAtlasRegionInWorker(j) ==
    /\ Idle /\ settled[j] = "none"
    /\ \A k \in 1..(j[2] - 1): settled[<<j[1], k>>] # "none"
    /\ HasRoom
    /\ IF Alive = {} \/ PageOf(j) \in deadPages
       THEN /\ settled' = [settled EXCEPT ![j] = "refused"]
            /\ UNCHANGED <<pending, pump>>
       ELSE /\ settled' = [settled EXCEPT ![j] = "open"]
            /\ pending' = Append(pending, j)
            /\ pump' = PumpFor(pending', Alive)
    /\ UNCHANGED <<spawned, dead, inFlight, pages, loading, loadsPerUrl, deadPages, workerVars, out>>

HoldsPage(w, p) == p \in pages[w] \cup loading[w]
Busy(w) == inFlight[w] # NoJob
PendingCount(p) == Cardinality({i \in 1..Len(pending) : PageOf(pending[i]) = p})
PageBytesKnown(p) == loadsPerUrl[p] > 0
Loading(w) == {q \in loading[w] : PageBytesKnown(q)}
Committed == MapThenSumSet(LAMBDA w: Bytes(pages[w]) + Bytes(Loading(w)), Alive)
CanLoadNew(p) ==
    \/ \A w \in pump.alive: ~HoldsPage(w, p)
    \/ /\ PageBytesKnown(p) /\ Committed + Size[p] <= Budget
       /\ PendingCount(p) >= AmortizeQueueRegions

\* An idle holder of the page, else the idle worker that holds least, in the
\* order they were made; none, when no copy may be loaded.
chooseAtlasBakeWorker(p) ==
    LET idle == {w \in pump.alive : ~Busy(w)}
        holders == {w \in idle : HoldsPage(w, p)}
        least == {w \in idle : \A v \in idle: Bytes(pages[w]) <= Bytes(pages[v])}
        First(ws) == {w \in ws : \A v \in ws: w <= v}
    IN  IF holders # {} THEN First(holders)
        ELSE IF CanLoadNew(p) THEN First(least) ELSE {}

\* placePending at one job of the queue: it goes inline when its page is dead,
\* to a worker when one may take it, and is left where it is otherwise.
\* AtEndPast looks one place past the end of the queue.
Here == pending[pump.at]
Rest == RemoveAt(pending, pump.at)
AtEndPast(n) ==
    IF pump.at <= n + 1 THEN pump ELSE
    IF pump.again THEN PumpFor(pending', Alive') ELSE PumpFor(<<>>, {})
AtEnd(n) ==
    IF pump.at <= n THEN pump ELSE
    IF pump.again THEN PumpFor(pending', Alive') ELSE PumpFor(<<>>, {})

GoesInline ==
    /\ ~Idle /\ PageOf(Here) \in deadPages
    /\ pending' = Rest
    /\ Settle({Here}, "null")
    /\ UNCHANGED <<spawned, dead, inFlight, pages, loading, loadsPerUrl, deadPages, workerVars, out>>
    /\ pump' = AtEnd(Len(Rest))

StaysPending ==
    /\ ~Idle /\ PageOf(Here) \notin deadPages
    /\ chooseAtlasBakeWorker(PageOf(Here)) = {}
    /\ UNCHANGED <<spawned, dead, pending, inFlight, pages, loading, loadsPerUrl, deadPages, settled,
                   workerVars, out>>
    /\ pump' = IF pump.at < Len(pending) THEN [pump EXCEPT !.at = @ + 1] ELSE AtEnd(0)

\* A page that was decoded twice is kept, whatever the queue says.
KeepPage(j) ==
    \/ \E i \in 1..Len(Rest): PageOf(Rest[i]) = PageOf(j)
    \/ loadsPerUrl[PageOf(j)] >= 2

\* A terminated worker takes no message. A page counts as being loaded from
\* the moment its first job is sent.
Placed(w) ==
    /\ pending' = Rest
    /\ inFlight' = [inFlight EXCEPT ![w] = Here]
    /\ IF w \in dead THEN UNCHANGED <<task, phase>>
       ELSE /\ task' = [task EXCEPT ![w] = [job |-> Here, keepPage |-> KeepPage(Here)]]
            /\ phase' = [phase EXCEPT ![w] = "sent"]
    /\ UNCHANGED <<spawned, dead, pages, loadsPerUrl, deadPages, settled, held, pinned, armed, bad, out>>
    /\ pump' = AtEnd(Len(Rest))
Commits(w) ==
    loading' = IF PageOf(Here) \in pages[w] THEN loading
               ELSE [loading EXCEPT ![w] = @ \cup {PageOf(Here)}]
Send(w) ==
    /\ Placed(w)
    /\ Commits(w)

\* What the pool does about a lost worker: its job is the next one, or, with
\* no worker left, every job goes back to its caller.
Forgotten(w) ==
    /\ dead' = dead \cup {w}
    /\ pages' = [pages EXCEPT ![w] = {}] /\ loading' = [loading EXCEPT ![w] = {}]
    /\ out' = [out EXCEPT ![w] = <<>>]
Lose(w, jobs) ==
    /\ Forgotten(w)
    /\ inFlight' = [inFlight EXCEPT ![w] = NoJob]
    /\ IF Alive \ {w} = {}
       THEN pending' = <<>> /\ Settle(ToSet(jobs), "null")
       ELSE pending' = jobs /\ UNCHANGED settled
Orphans(w) == IF Busy(w) THEN <<inFlight[w]>> ELSE <<>>
loseWorker(w) == Lose(w, Orphans(w) \o pending)

\* postMessage threw: the worker is lost, inside the pump, which goes on with
\* the workers it had taken for alive and then runs again.
SendThrows(w) ==
    /\ PostMayThrow
    /\ IF w \in dead
       THEN /\ pending' = <<Here>> \o Rest /\ Commits(w)
            /\ UNCHANGED <<dead, pages, inFlight, settled, out>>
       ELSE Lose(w, <<Here>> \o Rest)
    /\ UNCHANGED <<spawned, loadsPerUrl, deadPages, workerVars>>
    /\ pump' = IF pump.at <= Len(pending') THEN [pump EXCEPT !.again = @ \/ w \notin dead] ELSE PumpFor(<<>>, {})

Place ==
    /\ ~Idle /\ PageOf(Here) \notin deadPages
    /\ \E w \in chooseAtlasBakeWorker(PageOf(Here)): Send(w) \/ SendThrows(w)

WorkerErrors(w) ==
    /\ Idle /\ w \in Alive
    /\ loseWorker(w)
    /\ pump' = PumpFor(pending', Alive \ {w})
    /\ UNCHANGED <<spawned, loadsPerUrl, deadPages, workerVars>>

----------------------------------------------------------------------------
(* Messages of a worker, and what the pool does on each.                   *)

Msg(type, p, urls, j, atlas) == [type |-> type, page |-> p, urls |-> urls, job |-> j, atlas |-> atlas]
Post(w, ms) == out' = [out EXCEPT ![w] = @ \o ms]
Receive(w) == out' = [out EXCEPT ![w] = Tail(@)]
Message(w, type) == Idle /\ out[w] # <<>> /\ Head(out[w]).type = type

OnAtlas(w) ==
    /\ Message(w, "atlas") /\ Receive(w)
    /\ LET m == Head(out[w]) IN
       /\ pages' = [pages EXCEPT ![w] = m.urls]
       /\ loading' = [loading EXCEPT ![w] = @ \ m.urls]
       /\ loadsPerUrl' = [loadsPerUrl EXCEPT ![m.page] = @ + 1]
    /\ pump' = PumpFor(pending, Alive)
    /\ UNCHANGED <<spawned, dead, pending, inFlight, deadPages, settled, workerVars>>

OnRelease(w) ==
    /\ Message(w, "release") /\ Receive(w)
    /\ pages' = [pages EXCEPT ![w] = Head(out[w]).urls]
    /\ pump' = PumpFor(pending, Alive)
    /\ UNCHANGED <<spawned, dead, pending, inFlight, loading, loadsPerUrl, deadPages, settled, workerVars>>

\* An answer to a job the pool no longer has in flight there settles nothing.
Answered(w, answer) ==
    LET m == Head(out[w]) IN
    /\ inFlight' = [inFlight EXCEPT ![w] = IF @ = m.job THEN NoJob ELSE @]
    /\ Settle({j \in {m.job} : inFlight[w] = j}, answer)
OnBlob(w) ==
    /\ Message(w, "blob") /\ Receive(w)
    /\ Answered(w, "blob")
    /\ pump' = PumpFor(pending, Alive)
    /\ UNCHANGED <<spawned, dead, pending, pages, loading, loadsPerUrl, deadPages, workerVars>>
OnError(w) ==
    /\ Message(w, "error") /\ Receive(w)
    /\ Answered(w, "null")
    /\ LET m == Head(out[w]) IN
       /\ loading' = [loading EXCEPT ![w] = @ \ {m.page}]
       /\ deadPages' = IF m.atlas THEN deadPages \cup {m.page} ELSE deadPages
    /\ pump' = PumpFor(pending, Alive)
    /\ UNCHANGED <<spawned, dead, pending, pages, loadsPerUrl, workerVars>>

\* onWorkerMessage. WithoutThePump leaves a freed worker unused.
MessageArrives(w) == OnAtlas(w) \/ OnRelease(w) \/ OnBlob(w) \/ OnError(w)
BlobWithoutThePump(w) ==
    /\ Message(w, "blob") /\ Receive(w)
    /\ Answered(w, "blob")
    /\ UNCHANGED <<spawned, dead, pending, pages, loading, loadsPerUrl, deadPages, pump, workerVars>>
WithoutThePump(w) == OnAtlas(w) \/ OnRelease(w) \/ BlobWithoutThePump(w) \/ OnError(w)
onWorkerMessage(w) == MessageArrives(w)

----------------------------------------------------------------------------
(* A worker.                                                               *)

Running(w, ph) == w \in Alive /\ phase[w] = ph
InHand(w) == PageOf(task[w].job)
Urls(s) == ToSet(s)
\* The pages of s that are in ps, in the order of s.
Keep(s, ps) ==
    LET kept[i \in 0..Len(s)] == IF i = 0 THEN <<>>
                                 ELSE IF s[i] \in ps THEN Append(kept[i - 1], s[i]) ELSE kept[i - 1]
    IN  kept[Len(s)]
Finish(w) == task' = [task EXCEPT ![w] = NoTask] /\ phase' = [phase EXCEPT ![w] = "idle"]
Failure(w, atlas) == Msg("error", InHand(w), {}, task[w].job, atlas)

\* The crop, taken in the turn in which the page became available: a job with
\* nothing behind it arms the drop of a page bigger than the worker's share.
\* CropKeepsTheTimers leaves a page that was used again without a timer.
Oversized(p) == ~HoldSlot /\ Size[p] > KeepBytes
CropArms(w) ==
    /\ armed' = [armed EXCEPT ![w] = IF ~task[w].keepPage /\ Oversized(InHand(w)) THEN @ \cup {InHand(w)}
                                     ELSE @ \ {InHand(w)}]
CropKeepsTheTimers(w) == armed' = [armed EXCEPT ![w] = @ \ {InHand(w)}]
Crop(w) == CropArms(w)

UsePage(w) ==
    /\ Running(w, "sent") /\ InHand(w) \in Urls(held[w])
    /\ held' = [held EXCEPT ![w] = Append(Keep(held[w], Pages \ {InHand(w)}), InHand(w))]
    /\ pinned' = [pinned EXCEPT ![w] = IF task[w].keepPage THEN @ \cup {InHand(w)} ELSE @]
    /\ Crop(w)
    /\ phase' = [phase EXCEPT ![w] = "encoding"]
    /\ UNCHANGED <<mainVars, task, bad, out>>

\* pageFor finds no page: it starts to decode one, or knows it cannot.
StartDecode(w) ==
    /\ Running(w, "sent") /\ InHand(w) \notin Urls(held[w])
    /\ IF InHand(w) \in bad[w]
       THEN Post(w, <<Failure(w, TRUE)>>) /\ Finish(w)
       ELSE phase' = [phase EXCEPT ![w] = "decoding"] /\ UNCHANGED <<task, out>>
    /\ UNCHANGED <<mainVars, held, pinned, armed, bad>>

\* evictPages: the pages it gives up, in the order it gives them up. A big
\* page displaces the one in the hold slot; the others share KeepBytes, the
\* unpinned before the pinned, and a sweep for a big page leaves one of them.
IsHoldSlotPage(p) == HoldSlot /\ Size[p] >= BigBytes
EvictionOrder(w, share) ==
    IF ~HoldSlot THEN share
    ELSE Keep(share, Pages \ pinned[w]) \o Keep(share, pinned[w])
EvictPages(w, p) ==
    LET slot == {q \in Pages : IsHoldSlotPage(q)}
        order == EvictionOrder(w, Keep(held[w], Pages \ slot))
        incoming == IF IsHoldSlotPage(p) THEN 0 ELSE Size[p]
        floor == IF IsHoldSlotPage(p) THEN 1 ELSE 0
        Enough(k) == \/ Len(order) - k <= floor
                     \/ Bytes(Urls(SubSeq(order, k + 1, Len(order)))) + incoming <= KeepBytes
        k == Min({n \in 0..Len(order) : Enough(n)})
    IN  (IF IsHoldSlotPage(p) THEN Keep(held[w], slot) ELSE <<>>) \o SubSeq(order, 1, k)

After(w, gone, i) == Urls(held[w]) \ Urls(SubSeq(gone, 1, i))
Releases(w, gone) == [i \in 1..Len(gone) |-> Msg("release", gone[i], After(w, gone, i), NoJob, FALSE)]
Evicted(w, gone) == Keep(held[w], Pages \ Urls(gone))

DecodeEnds(w) ==
    /\ Running(w, "decoding")
    /\ LET p == InHand(w)
           gone == EvictPages(w, p)
           now == Append(Evicted(w, gone), p)
       IN  /\ held' = [held EXCEPT ![w] = now]
           /\ pinned' = [pinned EXCEPT ![w] = (@ \ (Urls(gone) \cup {p})) \cup {q \in {p} : task[w].keepPage}]
           /\ armed' = [armed EXCEPT ![w] = (@ \ (Urls(gone) \cup {p}))
                                              \cup {q \in {p} : ~task[w].keepPage /\ Oversized(q)}]
           /\ Post(w, Append(Releases(w, gone), Msg("atlas", p, Urls(now), NoJob, FALSE)))
    /\ phase' = [phase EXCEPT ![w] = "encoding"]
    /\ UNCHANGED <<mainVars, task, bad>>

\* The fetch or the decode fails, or the read-back does, after the room was made.
DecodeFails(w) ==
    /\ Running(w, "decoding")
    /\ \E gone \in {<<>>, EvictPages(w, InHand(w))}:
          /\ held' = [held EXCEPT ![w] = Evicted(w, gone)]
          /\ pinned' = [pinned EXCEPT ![w] = @ \ Urls(gone)]
          /\ armed' = [armed EXCEPT ![w] = @ \ Urls(gone)]
          /\ Post(w, Append(Releases(w, gone), Failure(w, TRUE)))
    /\ bad' = [bad EXCEPT ![w] = @ \cup {InHand(w)}]
    /\ Finish(w)
    /\ UNCHANGED mainVars

EncodeEnds(w) ==
    /\ Running(w, "encoding")
    /\ \E ok \in BOOLEAN:
          Post(w, <<IF ok THEN Msg("blob", InHand(w), {}, task[w].job, FALSE) ELSE Failure(w, FALSE)>>)
    /\ Finish(w)
    /\ UNCHANGED <<mainVars, held, pinned, armed, bad>>

\* Demand for a page stopped for dropIdleMs. DropIsSilent does not report it.
Dropped(w, p) ==
    /\ w \in Alive /\ p \in armed[w]
    /\ armed' = [armed EXCEPT ![w] = @ \ {p}]
    /\ held' = [held EXCEPT ![w] = Keep(held[w], Pages \ {p})]
    /\ pinned' = [pinned EXCEPT ![w] = @ \ {p}]
    /\ UNCHANGED <<mainVars, task, phase, bad>>
DropIsSilent(w, p) == Dropped(w, p) /\ UNCHANGED out
DropFires(w, p) ==
    /\ Dropped(w, p)
    /\ Post(w, <<Msg("release", p, Urls(held[w]) \ {p}, NoJob, FALSE)>>)

----------------------------------------------------------------------------
Pumps == GoesInline \/ StaysPending \/ Place
WorkerRuns(w) == UsePage(w) \/ StartDecode(w) \/ DecodeEnds(w) \/ DecodeFails(w) \/ EncodeEnds(w)

\* Everything was asked for, or the baker waits for stranded jobs, every other job
\* is answered, and every message has arrived.
Done ==
    /\ Open \subseteq Stranded
    /\ HasRoom => \A j \in Jobs: settled[j] # "none"
    /\ \A w \in Workers: out[w] = <<>>
    /\ UNCHANGED vars

Next ==
    \/ \E j \in Jobs: bakeAtlasRegionInWorker(j)
    \/ Pumps
    \/ \E w \in Workers: \/ WorkerErrors(w) \/ onWorkerMessage(w)
                         \/ WorkerRuns(w)
                         \/ \E p \in Pages: DropFires(w, p)
    \/ Done

Spec == Init /\ [][Next]_vars

(* The event loops run: handlers, messages, decodes, encodes and timers all end. *)
Fairness ==
    /\ WF_vars(Pumps)
    /\ \A w \in Workers: WF_vars(onWorkerMessage(w)) /\ WF_vars(WorkerRuns(w))
    /\ \A w \in Workers, p \in Pages: WF_vars(DropFires(w, p))
FairSpec == Spec /\ Fairness
----------------------------------------------------------------------------
Messages == [type: {"atlas", "release", "blob", "error"}, page: Pages, urls: SUBSET Pages,
             job: Jobs \cup {NoJob}, atlas: BOOLEAN]

TypeOK ==
    /\ spawned \subseteq Workers /\ dead \subseteq spawned
    /\ pending \in Seq(Jobs) /\ inFlight \in [Workers -> Jobs \cup {NoJob}]
    /\ pages \in [Workers -> SUBSET Pages] /\ loading \in [Workers -> SUBSET Pages]
    /\ loadsPerUrl \in [Pages -> Nat] /\ deadPages \subseteq Pages
    /\ pump \in [at: 0..Len(pending), alive: SUBSET Workers, again: BOOLEAN]
    /\ settled \in [Jobs -> {"none", "open", "refused", "null", "blob"}]
    /\ task \in [Workers -> [job: Jobs \cup {NoJob}, keepPage: BOOLEAN]]
    /\ phase \in [Workers -> {"idle", "sent", "decoding", "encoding"}]
    /\ held \in [Workers -> Seq(Pages)] /\ out \in [Workers -> Seq(Messages)]
    /\ \A f \in {pinned, armed, bad}: f \in [Workers -> SUBSET Pages]
    /\ \A w \in Workers: /\ IsInjective(held[w])
                         /\ pinned[w] \cup armed[w] \subseteq Urls(held[w]) /\ armed[w] \cap bad[w] = {}
                         /\ (phase[w] = "idle") <=> (task[w].job = NoJob)

\* Nothing is dropped: an accepted job is in exactly one place, the queue or
\* one worker that runs it, has answered it, or was lost before it was given
\* the job; and a job that was answered is in none.
Owners(j) == {w \in Workers : inFlight[w] = j}
AnswerSent(w, j) == \E i \in 1..Len(out[w]): out[w][i].type \in {"blob", "error"} /\ out[w][i].job = j
NothingStranded ==
    \A j \in Jobs:
       /\ Cardinality({i \in 1..Len(pending) : pending[i] = j}) + Cardinality(Owners(j))
            = IF j \in Open THEN 1 ELSE 0
       /\ \A w \in Owners(j): w \in dead \/ task[w].job = j \/ AnswerSent(w, j)

\* "no waiter waits forever" (atlasBakePool.ts:778), nothing a lost worker was
\* doing is "left stranded" (751): a lost worker has no job.
NoWaiterWaitsForever == Stranded = {}

\* What strands a job is the pump, after it lost a worker of the pass it is in:
\* no error, no message and no new job does, and a stranded job stays so.
OnlyThePumpStrands ==
    [][Stranded' # Stranded => pump.again /\ Stranded \subseteq Stranded']_vars

\* Residency is reported, never estimated: when a worker's messages have
\* arrived, the pool knows what it holds, and it counts as loading only the
\* page of the job it was given.
PoolKnowsTheWorkers ==
    \A w \in Alive: /\ out[w] = <<>> => pages[w] = Urls(held[w])
                    /\ loading[w] \subseteq {PageOf(j) : j \in {inFlight[w]} \ {NoJob}}

\* A worker holds its share and the largest page at most (atlasBakeWorker.ts:81).
Residency ==
    \A w \in Workers: Bytes(Urls(held[w])) <= KeepBytes + Max({Size[p] : p \in Pages})

\* Every accepted job is answered, whichever workers are lost meanwhile, also
\* inside the pump, but those that the pump hands to a worker it has lost: the
\* instance has finitely many jobs, so a time comes at which no other is open.
JobsAreAnswered == (Open # {}) ~> (Open \subseteq Stranded)

\* On a small device a page bigger than a worker's share is given back once
\* its demand stops, unless it had to be decoded twice.
GivenBack ==
    \A w \in Workers: \A p \in {q \in Pages: Oversized(q)}:
       p \in Urls(held[w]) ~> (p \notin Urls(held[w]) \/ w \in dead \/ loadsPerUrl[p] >= 2)

\* "one live copy of a page at a time, always" (atlasBakePool.ts:60), also
\* while it is fetched and decoded.
HasCopy(w, p) == p \in Urls(held[w]) \/ (phase[w] = "decoding" /\ InHand(w) = p)
OneLiveCopy == \A p \in Pages: Cardinality({w \in Alive : HasCopy(w, p)}) <= 1

\* "TWO decodes per page per window, everywhere" (atlasBakePool.ts:80): the
\* idle drop costs a page one decode beyond its first.
AtMostTwoDecodes == \A p \in Pages: loadsPerUrl[p] <= 2
=============================================================================
