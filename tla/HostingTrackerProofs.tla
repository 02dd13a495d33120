------------------------ MODULE HostingTrackerProofs ------------------------
(***************************************************************************)
(* Theorems about HostingTracker, for every number of browsers, seats and  *)
(* published counts.                                                       *)
(***************************************************************************)
EXTENDS HostingTracker, TLAPS

\* A publication is kept in reserve for the end of each browser and seat.
Reserve == \A x \in Sources : published[x] + count[x] <= MaxPublications

TypeInv == TypeOK /\ Reserve

LEMMA InitType == Init => TypeInv
<1> SUFFICES ASSUME Init PROVE TypeInv
  OBVIOUS
<1>1. /\ count \in [Sources -> 0..MaxCount] /\ published \in [Sources -> 0..MaxPublications]
      /\ known \in [Sources -> 0..MaxPublications] /\ demand \in [Sources -> 0..MaxCount]
  BY BoundsAssumption DEF Init
<1>2. sent \subseteq Messages /\ evals \subseteq Nat
  BY DEF Init
<1>3. gate \in [step : {"free", "subscribe", "keep", "marshal"}, gen : Nat]
  BY DEF Init, Free, NoGen
<1>4. TypeOK
  BY <1>1, <1>2, <1>3 DEF Init, TypeOK, NoGen
<1>5. Reserve
  BY BoundsAssumption DEF Init, Reserve
<1> QED BY <1>4, <1>5 DEF TypeInv

\* What is published has its type, and leaves the reserve of the others alone.
LEMMA PublishesType ==
    ASSUME TypeInv, NEW x \in Sources, NEW n \in 0..MaxCount, Publishes(x, n),
           published[x] + n + 1 <= MaxPublications
    PROVE  /\ count' \in [Sources -> 0..MaxCount]
           /\ published' \in [Sources -> 0..MaxPublications]
           /\ sent' \subseteq Messages
           /\ Reserve'
<1> DEFINE m == [source |-> x, count |-> n, gen |-> published[x] + 1]
<1>1. count' \in [Sources -> 0..MaxCount]
  BY DEF TypeInv, TypeOK, Publishes
<1>2. published[x] + 1 \in 1..MaxPublications
  BY BoundsAssumption DEF TypeInv, TypeOK
<1>3. published' \in [Sources -> 0..MaxPublications]
  BY <1>2, BoundsAssumption DEF TypeInv, TypeOK, Publishes
<1>4. m \in Messages
  BY <1>2 DEF Messages
<1>5. sent' \subseteq Messages
  BY <1>4 DEF TypeInv, TypeOK, Publishes
<1>6. Reserve'
  BY <1>1, <1>3, BoundsAssumption DEF TypeInv, TypeOK, Reserve, Publishes
<1> QED BY <1>1, <1>3, <1>5, <1>6

LEMMA SeatsEndType ==
    ASSUME TypeInv, SeatsEnd
    PROVE  /\ count' \in [Sources -> 0..MaxCount]
           /\ published' \in [Sources -> 0..MaxPublications]
           /\ sent' \subseteq Messages
           /\ Reserve'
<1>1. CASE UNCHANGED supply
  BY <1>1 DEF supply, TypeInv, TypeOK, Reserve
<1>2. CASE \E n \in 0..MaxCount : n < count["seats"] /\ Publishes("seats", n)
  <2>1. PICK n \in 0..MaxCount : n < count["seats"] /\ Publishes("seats", n)
    BY <1>2
  <2>2. published["seats"] + n + 1 <= MaxPublications
    BY <2>1, BoundsAssumption DEF TypeInv, TypeOK, Reserve, Sources
  <2> QED BY <2>1, <2>2, PublishesType DEF Sources
<1> QED BY <1>1, <1>2 DEF SeatsEnd

\* What a count that is taken does: it changes no supervision, starts it or stops it.
Taken(m) ==
    /\ ~disposed /\ m.gen >= known[m.source]
    /\ known' = [known EXCEPT ![m.source] = m.gen]
    /\ demand' = [demand EXCEPT ![m.source] = m.count]
    /\ \/ (HasDemand <=> HasDemand') /\ UNCHANGED <<active, watch, left>>
       \/ ~HasDemand /\ HasDemand' /\ active' = active + 1 /\ Starts
       \/ HasDemand /\ ~HasDemand' /\ active' = active + 1 /\ Stops

\* A count that arrives is dropped or taken.
LEMMA ArrivalCases ==
    ASSUME TypeInv, NEW m \in sent, DemandArrives(m)
    PROVE  \/ (disposed \/ m.gen < known[m.source]) /\ UNCHANGED <<accepted, watch, left>>
           \/ Taken(m)
<1>1. CASE disposed \/ Stale(m)
  BY <1>1 DEF DemandArrives, Stale
<1>2. CASE ~(disposed \/ Stale(m))
  <2>1. m.gen >= known[m.source]
    BY <1>2 DEF Stale, TypeInv, TypeOK, Messages
  <2>2. /\ known' = [known EXCEPT ![m.source] = m.gen]
        /\ demand' = [demand EXCEPT ![m.source] = m.count]
        /\ IF HasDemand = HasDemand'
           THEN UNCHANGED <<active, watch, left>>
           ELSE active' = active + 1 /\ IF HasDemand' THEN Starts ELSE Stops
    BY <1>2 DEF DemandArrives
  <2>3. HasDemand \in BOOLEAN /\ HasDemand' \in BOOLEAN
    BY DEF HasDemand
  <2>4. \/ (HasDemand <=> HasDemand') /\ UNCHANGED <<active, watch, left>>
        \/ ~HasDemand /\ HasDemand' /\ active' = active + 1 /\ Starts
        \/ HasDemand /\ ~HasDemand' /\ active' = active + 1 /\ Stops
    BY <2>2, <2>3, Zenon
  <2> QED BY <1>2, <2>1, <2>2, <2>4 DEF Taken
<1> QED BY <1>1, <1>2

\* Every step keeps every variable in its type.
LEMMA NextType ==
    ASSUME TypeInv, [Next]_vars
    PROVE  TypeInv'
<1> USE DEF world, supply, accepted, watch, verdict
<1>1. ASSUME NEW x \in Sources, Comes(x) PROVE TypeInv'
  <2>1. count[x] + 1 \in 0..MaxCount /\ published[x] + (count[x] + 1) + 1 <= MaxPublications
    BY <1>1, BoundsAssumption DEF Comes, TypeInv, TypeOK
  <2>2. Publishes(x, count[x] + 1)
    BY <1>1 DEF Comes
  <2>3. /\ count' \in [Sources -> 0..MaxCount] /\ published' \in [Sources -> 0..MaxPublications]
        /\ sent' \subseteq Messages /\ Reserve'
    BY <2>1, <2>2, PublishesType
  <2> QED BY <1>1, <2>3 DEF Comes, TypeInv, TypeOK
<1>2. ASSUME NEW x \in Sources, Goes(x) PROVE TypeInv'
  <2>1. count[x] - 1 \in 0..MaxCount /\ published[x] + (count[x] - 1) + 1 <= MaxPublications
    BY <1>2, BoundsAssumption DEF Goes, TypeInv, TypeOK, Reserve
  <2>2. Publishes(x, count[x] - 1)
    BY <1>2 DEF Goes
  <2>3. /\ count' \in [Sources -> 0..MaxCount] /\ published' \in [Sources -> 0..MaxPublications]
        /\ sent' \subseteq Messages /\ Reserve'
    BY <2>1, <2>2, PublishesType
  <2> QED BY <1>2, <2>3 DEF Goes, TypeInv, TypeOK
<1>3. ASSUME NEW m \in sent, DemandArrives(m) PROVE TypeInv'
  <2>1. m.source \in Sources /\ m.count \in 0..MaxCount /\ m.gen \in 0..MaxPublications
    BY DEF TypeInv, TypeOK, Messages
  <2>2. sent' \subseteq Messages /\ Reserve'
    BY <1>3 DEF DemandArrives, TypeInv, TypeOK, Reserve
  <2>3. CASE UNCHANGED <<accepted, watch, left>>
    BY <1>3, <2>2, <2>3 DEF DemandArrives, TypeInv, TypeOK
  <2>4. CASE Taken(m)
    <3>1. known' \in [Sources -> 0..MaxPublications] /\ demand' \in [Sources -> 0..MaxCount]
      BY <2>1, <2>4 DEF Taken, TypeInv, TypeOK
    <3>2. CASE UNCHANGED <<active, watch, left>>
      BY <1>3, <2>2, <3>1, <3>2 DEF DemandArrives, TypeInv, TypeOK
    <3>3. CASE active' = active + 1 /\ Starts
      <4>1. active' \in Nat
        BY <3>3 DEF TypeInv, TypeOK
      <4>2. gate' \in [step : {"free", "subscribe", "keep", "marshal"}, gen : Nat]
        BY <3>3, <4>1 DEF Starts
      <4> QED BY <1>3, <2>2, <3>1, <3>3, <4>1, <4>2 DEF DemandArrives, Starts, TypeInv, TypeOK
    <3>4. CASE active' = active + 1 /\ Stops
      BY <1>3, <2>2, <3>1, <3>4 DEF DemandArrives, Stops, NoGen, TypeInv, TypeOK
    <3> QED BY <2>4, <3>2, <3>3, <3>4 DEF Taken
  <2> QED BY <1>3, <2>3, <2>4, ArrivalCases
<1>4. CASE Subscribes
  BY <1>4 DEF Subscribes, Free, NoGen, TypeInv, TypeOK, Reserve
<1>5. CASE Keeps
  BY <1>5 DEF Keeps, Free, NoGen, TypeInv, TypeOK, Reserve
<1>6. CASE Marshals
  BY <1>6 DEF Marshals, Schedules, Free, NoGen, TypeInv, TypeOK, Reserve
<1>7. CASE ScreenChanges
  <2>1. Subscribed \in Nat
    BY DEF Subscribed, TypeInv, TypeOK
  <2> QED BY <1>7, <2>1 DEF ScreenChanges, Schedules, TypeInv, TypeOK, Reserve
<1>8. CASE HostStarts
  BY <1>8 DEF HostStarts, TypeInv, TypeOK, Reserve
<1>9. CASE HostEnds
  BY <1>9 DEF HostEnds, TypeInv, TypeOK, Reserve
<1>10. ASSUME NEW g \in evals, Evaluates(g) PROVE TypeInv'
  BY <1>10 DEF Evaluates, Applies, TypeInv, TypeOK, Reserve
<1>11. CASE OnNativeHostingEnded
  <2>1. /\ count' \in [Sources -> 0..MaxCount] /\ published' \in [Sources -> 0..MaxPublications]
        /\ sent' \subseteq Messages /\ Reserve'
    BY <1>11, SeatsEndType DEF OnNativeHostingEnded, TypeInv, TypeOK, Reserve
  <2> QED BY <1>11, <2>1 DEF OnNativeHostingEnded, TypeInv, TypeOK
<1>12. CASE FiveSecondsPass
  BY <1>12 DEF FiveSecondsPass, TypeInv, TypeOK, Reserve
<1>13. CASE Tick
  <2>1. /\ count' \in [Sources -> 0..MaxCount] /\ published' \in [Sources -> 0..MaxPublications]
        /\ sent' \subseteq Messages /\ Reserve'
    BY <1>13, SeatsEndType DEF Tick
  <2> QED BY <1>13, <2>1 DEF Tick, TypeInv, TypeOK
<1>14. CASE Dispose
  BY <1>14 DEF Dispose, NoGen, TypeInv, TypeOK, Reserve
<1>15. CASE UNCHANGED vars
  BY <1>15 DEF vars, TypeInv, TypeOK, Reserve
<1> QED BY <1>1, <1>2, <1>3, <1>4, <1>5, <1>6, <1>7, <1>8, <1>9, <1>10, <1>11, <1>12, <1>13,
           <1>14, <1>15 DEF Next, MainThread

\* Every variable of the tracker has its type in every reachable state.
THEOREM TypeCorrect == Spec => []TypeOK
<1>1. TypeInv => TypeOK
  BY DEF TypeInv
<1> QED BY <1>1, InitType, NextType, PTL DEF Spec

----------------------------------------------------------------------------
(* The demand                                                              *)

\* The latest count of a source is on its way, or is what the tracker has.
LatestIsOnItsWay ==
    ~disposed => \A x \in Sources :
        \/ \E m \in sent : m.source = x /\ m.gen = published[x]
        \/ known[x] = published[x] /\ demand[x] = count[x]

\* No count is from the future, and the latest of a source is its present one.
SentIsPublished ==
    /\ \A m \in sent : /\ m.gen <= published[m.source]
                       /\ m.gen = published[m.source] => m.count = count[m.source]
    /\ \A x \in Sources : known[x] <= published[x]

DemandInv == TypeInv /\ LatestIsOnItsWay /\ SentIsPublished

\* A new publication becomes the latest.
LEMMA PublishesDemand ==
    ASSUME DemandInv, TypeInv', NEW x \in Sources, NEW n \in Int, Publishes(x, n),
           UNCHANGED known
    PROVE  /\ \A y \in Sources : y # x => count'[y] = count[y] /\ published'[y] = published[y]
           /\ \E m \in sent' : m.source = x /\ m.gen = published'[x]
           /\ sent \subseteq sent'
           /\ SentIsPublished'
<1> DEFINE new == [source |-> x, count |-> n, gen |-> published[x] + 1]
<1>1. /\ \A y \in Sources : y # x => count'[y] = count[y] /\ published'[y] = published[y]
      /\ count'[x] = n /\ published'[x] = published[x] + 1
  BY DEF Publishes, DemandInv, TypeInv, TypeOK
<1>2. new \in sent' /\ sent \subseteq sent' /\ \A m \in sent' : m \in sent \/ m = new
  BY DEF Publishes
<1>3. \A m \in sent : /\ m.source \in Sources /\ m.gen \in Nat
                      /\ published[m.source] \in Nat /\ m.gen <= published[m.source]
                      /\ m.gen = published[m.source] => m.count = count[m.source]
  BY DEF DemandInv, TypeInv, TypeOK, Messages, SentIsPublished
<1>4. \A y \in Sources : known[y] \in Nat /\ published[y] \in Nat /\ known[y] <= published[y]
  BY DEF DemandInv, TypeInv, TypeOK, SentIsPublished
<1>5. ASSUME NEW m \in sent'
      PROVE  m.gen <= published'[m.source] /\ (m.gen = published'[m.source] => m.count = count'[m.source])
  <2>1. CASE m = new
    BY <1>1, <1>4, <2>1
  <2>2. CASE m \in sent
    <3>1. /\ m.source \in Sources /\ m.gen \in Nat /\ published[m.source] \in Nat
          /\ m.gen <= published[m.source]
      BY <1>3, <2>2
    <3>2. CASE m.source = x
      <4>1. m.gen < published'[m.source]
        BY <1>1, <3>1, <3>2
      <4> QED BY <4>1, <3>1, <1>1, <3>2
    <3>3. CASE m.source # x
      BY <1>1, <1>3, <2>2, <3>1, <3>3
    <3> QED BY <3>2, <3>3
  <2> QED BY <1>2, <2>1, <2>2
<1>6. \A y \in Sources : known'[y] <= published'[y]
  BY <1>1, <1>4
<1>7. SentIsPublished'
  BY <1>5, <1>6 DEF SentIsPublished
<1>8. \E m \in sent' : m.source = x /\ m.gen = published'[x]
  BY <1>1, <1>2
<1> QED BY <1>1, <1>2, <1>7, <1>8

\* A step that publishes, and leaves demand and disposal alone, keeps the invariant.
LEMMA PublishingKeepsDemand ==
    ASSUME DemandInv, TypeInv', NEW x \in Sources, NEW n \in Int, Publishes(x, n),
           UNCHANGED <<accepted, disposed>>
    PROVE  DemandInv'
<1>1. /\ \A y \in Sources : y # x => count'[y] = count[y] /\ published'[y] = published[y]
      /\ \E m \in sent' : m.source = x /\ m.gen = published'[x]
      /\ sent \subseteq sent'
      /\ SentIsPublished'
  BY PublishesDemand DEF accepted
<1>2. ASSUME ~disposed', NEW y \in Sources
      PROVE  \/ \E m \in sent' : m.source = y /\ m.gen = published'[y]
             \/ known'[y] = published'[y] /\ demand'[y] = count'[y]
  <2>1. CASE y = x
    BY <1>1, <2>1
  <2>2. CASE y # x
    BY <1>1, <1>2, <2>2 DEF DemandInv, LatestIsOnItsWay, accepted
  <2> QED BY <2>1, <2>2
<1>3. LatestIsOnItsWay'
  BY <1>2 DEF LatestIsOnItsWay
<1> QED BY <1>1, <1>3 DEF DemandInv

\* A step that touches none of it keeps the invariant.
LEMMA OthersKeepDemand ==
    ASSUME DemandInv, TypeInv', UNCHANGED <<supply, known, demand>>, disposed => disposed'
    PROVE  DemandInv'
BY DEF DemandInv, LatestIsOnItsWay, SentIsPublished, supply

LEMMA SeatsEndKeepsDemand ==
    ASSUME DemandInv, TypeInv', SeatsEnd, UNCHANGED <<accepted, disposed>>
    PROVE  DemandInv'
<1>1. CASE UNCHANGED supply
  BY <1>1, OthersKeepDemand DEF accepted
<1>2. CASE \E n \in 0..MaxCount : n < count["seats"] /\ Publishes("seats", n)
  <2>1. PICK n \in 0..MaxCount : Publishes("seats", n)
    BY <1>2
  <2>2. n \in Int /\ "seats" \in Sources
    BY BoundsAssumption DEF Sources
  <2> QED BY <2>1, <2>2, PublishingKeepsDemand
<1> QED BY <1>1, <1>2 DEF SeatsEnd

\* A count that arrives is older than what is known, or is taken; the latest is never lost.
LEMMA ArrivalKeepsDemand ==
    ASSUME DemandInv, TypeInv', NEW m \in sent, DemandArrives(m)
    PROVE  DemandInv'
<1>1. /\ sent' = sent \ {m} /\ count' = count /\ published' = published
      /\ disposed' = disposed
  BY DEF DemandArrives
<1>2. /\ m.source \in Sources /\ m.gen \in Nat /\ published[m.source] \in Nat
      /\ known[m.source] \in Nat /\ m.gen <= published[m.source]
      /\ m.gen = published[m.source] => m.count = count[m.source]
      /\ known[m.source] <= published[m.source]
  BY DEF DemandInv, TypeInv, TypeOK, Messages, SentIsPublished
<1>3. CASE (disposed \/ m.gen < known[m.source]) /\ UNCHANGED <<accepted, watch, left>>
  <2>1. SentIsPublished'
    BY <1>1, <1>3 DEF DemandInv, SentIsPublished, accepted
  <2>2. ASSUME ~disposed', NEW y \in Sources
        PROVE  \/ \E k \in sent' : k.source = y /\ k.gen = published'[y]
               \/ known'[y] = published'[y] /\ demand'[y] = count'[y]
    <3>1. m.gen < published[m.source]
      BY <1>1, <1>2, <1>3, <2>2
    <3>2. CASE \E k \in sent : k.source = y /\ k.gen = published[y]
      BY <1>1, <1>2, <3>1, <3>2
    <3>3. CASE known[y] = published[y] /\ demand[y] = count[y]
      BY <1>1, <1>3, <3>3 DEF accepted
    <3> QED BY <1>1, <2>2, <3>2, <3>3 DEF DemandInv, LatestIsOnItsWay
  <2>3. LatestIsOnItsWay'
    BY <2>2 DEF LatestIsOnItsWay
  <2> QED BY <2>1, <2>3 DEF DemandInv
<1>4. CASE Taken(m)
  <2>1. /\ known'[m.source] = m.gen /\ demand'[m.source] = m.count
        /\ \A y \in Sources : y # m.source => known'[y] = known[y] /\ demand'[y] = demand[y]
    BY <1>2, <1>4 DEF Taken, DemandInv, TypeInv, TypeOK
  <2>2. SentIsPublished'
    BY <1>1, <1>2, <2>1 DEF DemandInv, SentIsPublished
  <2>3. ASSUME ~disposed', NEW y \in Sources
        PROVE  \/ \E k \in sent' : k.source = y /\ k.gen = published'[y]
               \/ known'[y] = published'[y] /\ demand'[y] = count'[y]
    <3>1. CASE y = m.source /\ m.gen = published[y]
      BY <1>1, <1>2, <2>1, <3>1
    <3>2. CASE y = m.source /\ m.gen # published[y]
      <4>1. known[y] # published[y]
        BY <1>2, <1>4, <3>2 DEF Taken
      <4>2. PICK k \in sent : k.source = y /\ k.gen = published[y]
        BY <1>1, <2>3, <4>1 DEF DemandInv, LatestIsOnItsWay
      <4> QED BY <1>1, <3>2, <4>2
    <3>3. CASE y # m.source
      BY <1>1, <2>1, <2>3, <3>3 DEF DemandInv, LatestIsOnItsWay
    <3> QED BY <3>1, <3>2, <3>3
  <2>4. LatestIsOnItsWay'
    BY <2>3 DEF LatestIsOnItsWay
  <2> QED BY <2>2, <2>4 DEF DemandInv
<1> QED BY <1>3, <1>4, ArrivalCases DEF DemandInv

LEMMA NextDemand ==
    ASSUME DemandInv, [Next]_vars
    PROVE  DemandInv'
<1>1. TypeInv'
  BY NextType DEF DemandInv
<1>2. ASSUME NEW x \in Sources, Comes(x) \/ Goes(x) PROVE DemandInv'
  <2>1. count[x] \in Int
    BY BoundsAssumption DEF DemandInv, TypeInv, TypeOK
  <2>2. PICK n \in Int : Publishes(x, n)
    BY <1>2, <2>1 DEF Comes, Goes
  <2>3. UNCHANGED <<accepted, disposed>>
    BY <1>2 DEF Comes, Goes
  <2> QED BY <1>1, <2>2, <2>3, PublishingKeepsDemand
<1>3. ASSUME NEW m \in sent, DemandArrives(m) PROVE DemandInv'
  BY <1>1, <1>3, ArrivalKeepsDemand
<1>4. CASE Subscribes \/ Keeps \/ Marshals \/ ScreenChanges \/ HostStarts \/ HostEnds \/ FiveSecondsPass
  BY <1>1, <1>4, OthersKeepDemand
     DEF Subscribes, Keeps, Marshals, ScreenChanges, HostStarts, HostEnds, FiveSecondsPass, accepted
<1>5. ASSUME NEW g \in evals, Evaluates(g) PROVE DemandInv'
  BY <1>1, <1>5, OthersKeepDemand DEF Evaluates, accepted
<1>6. CASE OnNativeHostingEnded
  <2>1. CASE disposed
    BY <1>1, <1>6, <2>1, OthersKeepDemand DEF OnNativeHostingEnded, accepted
  <2>2. CASE ~disposed
    BY <1>1, <1>6, <2>2, SeatsEndKeepsDemand DEF OnNativeHostingEnded
  <2> QED BY <2>1, <2>2
<1>7. CASE Tick
  BY <1>1, <1>7, SeatsEndKeepsDemand DEF Tick
<1>8. CASE Dispose
  BY <1>1, <1>8, OthersKeepDemand DEF Dispose
<1>9. CASE UNCHANGED vars
  BY <1>1, <1>9, OthersKeepDemand DEF vars, accepted
<1> QED BY <1>2, <1>3, <1>4, <1>5, <1>6, <1>7, <1>8, <1>9 DEF Next, MainThread

\* Once every count has arrived, the tracker's demand is the number of browsers and
\* seats there are, in whatever order the counts came.
THEOREM DemandIsRight == Spec => []DemandSettles
<1>1. Init => DemandInv
  BY InitType DEF Init, DemandInv, LatestIsOnItsWay, SentIsPublished
<1>2. DemandInv => DemandSettles
  BY DEF DemandInv, LatestIsOnItsWay, DemandSettles, TypeInv, TypeOK
<1> QED BY <1>1, <1>2, NextDemand, PTL DEF Spec

----------------------------------------------------------------------------
(* Supervision and countdown                                               *)

\* Evaluations and the demand that holds the gate are of generations there have been.
GenerationsArePast ==
    /\ \A g \in evals : 0 < g /\ g <= active
    /\ gate.step # "free" => 0 < gate.gen /\ gate.gen <= active

\* The demand that holds the gate is the present one, unless the tracker was disposed of.
GateIsCurrent ==
    gate.step # "free" =>
        /\ ~disposed => HasDemand /\ gate.gen = active
        /\ gate.step \in {"subscribe", "keep"} => sub = NoGen
        /\ ~disposed /\ gate.step = "marshal" => sub = gate.gen

\* A countdown, or an evaluation that may begin one, is watched by the screen handler.
CountdownIsWatched ==
    ~disposed /\ HasDemand /\ (left # "none" \/ active \in evals)
        => Subscribed = active /\ active # NoGen

\* What was hosted has a host, or the main thread is about to say that it ended.
HostedHasHost == ~disposed /\ hosted => hostActive \/ main = "ending"

WatchInv ==
    /\ TypeInv /\ GenerationsArePast /\ GateIsCurrent /\ SupervisionFollowsDemand
    /\ CountdownIsWatched /\ HostedHasHost /\ CountdownHasAReason

\* What matters of the types here.
LEMMA WatchTypes ==
    ASSUME TypeInv
    PROVE  /\ gate.step \in {"free", "subscribe", "keep", "marshal"} /\ gate.gen \in Nat
           /\ active \in Nat /\ sub \in Nat /\ Subscribed \in Nat /\ evals \subseteq Nat
           /\ main \in {"free", "ending"}
BY DEF TypeInv, TypeOK, Subscribed

\* A step that leaves the demand, the gate, the subscription, the evaluations and the
\* verdict alone keeps the invariant, if the host and the main thread still agree with it.
LEMMA OthersKeepWatch ==
    ASSUME WatchInv, TypeInv', UNCHANGED <<accepted, watch, hosted, disposed>>, UNCHANGED <<screen, main, hostActive>>,
           left' = left \/ left' = "none" \/ left # "none"
    PROVE  WatchInv'
<1>1. (HasDemand' <=> HasDemand) /\ Subscribed' = Subscribed
  BY DEF HasDemand, Subscribed, accepted, watch
<1> QED
  BY <1>1 DEF WatchInv, GenerationsArePast, GateIsCurrent, SupervisionFollowsDemand,
     CountdownIsWatched, HostedHasHost, CountdownHasAReason, accepted, watch

LEMMA ArrivalKeepsWatch ==
    ASSUME WatchInv, TypeInv', NEW m \in sent, DemandArrives(m)
    PROVE  WatchInv'
<1>1. gate = Free /\ UNCHANGED <<world, hosted, disposed>>
  BY DEF DemandArrives
<1>2. gate.step = "free"
  BY <1>1 DEF Free
<1>3. CASE UNCHANGED <<accepted, watch, left>>
  BY <1>1, <1>3, OthersKeepWatch DEF world
<1>4. CASE Taken(m)
  <2>1. CASE (HasDemand <=> HasDemand') /\ UNCHANGED <<active, watch, left>>
    <3>1. Subscribed' = Subscribed
      BY <2>1 DEF Subscribed, watch
    <3> QED BY <1>1, <2>1, <3>1
      DEF WatchInv, GenerationsArePast, GateIsCurrent, SupervisionFollowsDemand,
          CountdownIsWatched, HostedHasHost, CountdownHasAReason, world, watch
  <2>2. CASE ~HasDemand /\ HasDemand' /\ active' = active + 1 /\ Starts
    <3>1. ~disposed /\ sub = NoGen /\ left = "none"
      BY <1>4, <2>2, Zenon DEF Taken, WatchInv, SupervisionFollowsDemand, CountdownHasAReason
    <3>2. gate'.step = "subscribe" /\ gate'.gen = active' /\ UNCHANGED <<sub, evals, unread, left>>
      BY <2>2 DEF Starts
    <3>3. active' \in Nat /\ active' > 0 /\ \A g \in evals : 0 < g /\ g < active'
      BY <2>2, WatchTypes DEF WatchInv, GenerationsArePast
    <3>4. GenerationsArePast' /\ GateIsCurrent'
      BY <2>2, <3>1, <3>2, <3>3, WatchTypes DEF GenerationsArePast, GateIsCurrent, WatchInv
    <3>5. SupervisionFollowsDemand' /\ CountdownIsWatched' /\ CountdownHasAReason'
      BY <3>1, <3>2, <3>3 DEF SupervisionFollowsDemand, CountdownIsWatched, CountdownHasAReason
    <3>6. HostedHasHost'
      BY <1>1 DEF WatchInv, HostedHasHost, world
    <3> QED BY <3>4, <3>5, <3>6 DEF WatchInv
  <2>3. CASE HasDemand /\ ~HasDemand' /\ active' = active + 1 /\ Stops
    <3>1. sub' = NoGen /\ left' = "none" /\ UNCHANGED <<gate, evals, unread>>
      BY <2>3 DEF Stops
    <3>2. GenerationsArePast' /\ GateIsCurrent'
      BY <1>2, <2>3, <3>1, WatchTypes DEF WatchInv, GenerationsArePast, GateIsCurrent
    <3>3. SupervisionFollowsDemand' /\ CountdownIsWatched' /\ CountdownHasAReason'
      BY <2>3, <3>1 DEF SupervisionFollowsDemand, CountdownIsWatched, CountdownHasAReason
    <3>4. HostedHasHost'
      BY <1>1 DEF WatchInv, HostedHasHost, world
    <3> QED BY <3>2, <3>3, <3>4 DEF WatchInv
  <2> QED BY <1>4, <2>1, <2>2, <2>3 DEF Taken
<1> QED BY <1>3, <1>4, ArrivalCases DEF WatchInv

\* A demand that holds the gate goes on.
LEMMA GateKeepsWatch ==
    ASSUME WatchInv, TypeInv', Subscribes \/ Keeps \/ Marshals
    PROVE  WatchInv'
<1>1. /\ UNCHANGED <<world, accepted, verdict, disposed>>
      /\ HasDemand' <=> HasDemand
  BY DEF Subscribes, Keeps, Marshals, HasDemand, accepted
<1>2. HostedHasHost'
  BY <1>1 DEF WatchInv, HostedHasHost, world, verdict
<1>3. CASE Subscribes
  <2>1. /\ gate.step = "subscribe" /\ UNCHANGED <<sub, evals, unread>>
        /\ gate'.step = "free" \/ (gate'.step = "keep" /\ gate'.gen = gate.gen)
    BY <1>3, WatchTypes DEF Subscribes, Free, WatchInv, TypeInv, TypeOK
  <2>2. GenerationsArePast' /\ GateIsCurrent'
    BY <1>1, <2>1, WatchTypes DEF WatchInv, GenerationsArePast, GateIsCurrent, accepted
  <2>3. SupervisionFollowsDemand' /\ CountdownHasAReason'
    BY <1>1, <2>1 DEF WatchInv, SupervisionFollowsDemand, CountdownHasAReason, world, accepted, verdict
  <2>4. ~disposed => Subscribed = NoGen /\ active # NoGen
    BY <2>1, WatchTypes DEF WatchInv, GateIsCurrent, GenerationsArePast, Subscribed, NoGen
  <2>5. CountdownIsWatched'
    BY <1>1, <2>1, <2>4 DEF WatchInv, CountdownIsWatched, accepted, verdict
  <2> QED BY <1>2, <2>2, <2>3, <2>5 DEF WatchInv
<1>4. CASE Keeps
  <2>1. /\ gate.step = "keep" /\ UNCHANGED <<evals, unread>> /\ sub = NoGen
        /\ \/ /\ ~disposed /\ HasDemand /\ active = gate.gen
              /\ sub' = gate.gen /\ gate'.step = "marshal" /\ gate'.gen = gate.gen
           \/ ~(~disposed /\ HasDemand /\ active = gate.gen) /\ sub' = sub /\ gate'.step = "free"
    BY <1>4, WatchTypes DEF Keeps, Free, WatchInv, GateIsCurrent, TypeInv, TypeOK
  <2>2. GenerationsArePast' /\ GateIsCurrent'
    BY <1>1, <2>1, WatchTypes DEF WatchInv, GenerationsArePast, GateIsCurrent, accepted
  <2>3. SupervisionFollowsDemand' /\ CountdownHasAReason'
    BY <1>1, <2>1 DEF WatchInv, SupervisionFollowsDemand, CountdownHasAReason, world, accepted, verdict
  <2>4. CountdownIsWatched'
    BY <1>1, <2>1, WatchTypes
       DEF WatchInv, CountdownIsWatched, GateIsCurrent, GenerationsArePast, Subscribed, NoGen, accepted
  <2> QED BY <1>2, <2>2, <2>3, <2>4 DEF WatchInv
<1>5. CASE Marshals
  <2>1. /\ gate.step = "marshal" /\ gate'.step = "free" /\ sub' = sub
        /\ (evals' = evals \cup {gate.gen} /\ unread' = unread) \/ (evals' = evals /\ unread' = TRUE)
    BY <1>5 DEF Marshals, Schedules, Free
  <2>2. GenerationsArePast' /\ GateIsCurrent'
    BY <1>1, <2>1, WatchTypes DEF WatchInv, GenerationsArePast, GateIsCurrent, accepted
  <2>3. SupervisionFollowsDemand' /\ CountdownHasAReason'
    BY <1>1, <2>1 DEF WatchInv, SupervisionFollowsDemand, CountdownHasAReason, world, accepted, verdict
  <2>4. CountdownIsWatched'
    BY <1>1, <2>1, WatchTypes
       DEF WatchInv, CountdownIsWatched, GateIsCurrent, GenerationsArePast, Subscribed, NoGen, accepted
  <2> QED BY <1>2, <2>2, <2>3, <2>4 DEF WatchInv
<1> QED BY <1>3, <1>4, <1>5

\* The game's screen reaches the handler that is subscribed.
LEMMA ScreenKeepsWatch ==
    ASSUME WatchInv, TypeInv', ScreenChanges
    PROVE  WatchInv'
<1>1. /\ UNCHANGED <<hostActive, main, accepted, gate, sub, verdict, disposed>> /\ main = "free"
      /\ HasDemand' <=> HasDemand
      /\ Subscribed' = Subscribed
  BY DEF ScreenChanges, HasDemand, Subscribed, accepted
<1>2. Subscribed # NoGen => 0 < Subscribed /\ Subscribed <= active
  BY WatchTypes DEF WatchInv, GenerationsArePast, SupervisionFollowsDemand, Subscribed, NoGen
<1>3. \/ Subscribed = NoGen /\ evals' = evals /\ unread' = unread
      \/ Subscribed # NoGen /\ evals' = evals \cup {Subscribed} /\ unread' = unread
      \/ Subscribed # NoGen /\ evals' = evals /\ unread' = TRUE
  BY DEF ScreenChanges, Schedules
<1>4. GenerationsArePast' /\ GateIsCurrent'
  BY <1>1, <1>2, <1>3, WatchTypes DEF WatchInv, GenerationsArePast, GateIsCurrent, accepted
<1>5. SupervisionFollowsDemand' /\ HostedHasHost'
  BY <1>1 DEF WatchInv, SupervisionFollowsDemand, HostedHasHost, accepted, verdict
<1>6. CountdownIsWatched'
  BY <1>1, <1>3 DEF WatchInv, CountdownIsWatched, accepted, verdict
<1>7. CountdownHasAReason'
  <2>1. ASSUME ~disposed, left # "none" PROVE hosted /\ HasDemand /\ (active \in evals' \/ unread')
    <3>1. hosted /\ HasDemand
      BY <2>1, Zenon DEF WatchInv, CountdownHasAReason
    <3>2. Subscribed = active /\ active # NoGen
      BY <2>1, <3>1 DEF WatchInv, CountdownIsWatched
    <3>3. active \in evals' \/ unread'
      BY <1>3, <3>2
    <3> QED BY <3>1, <3>3
  <2> QED BY <1>1, <2>1 DEF CountdownHasAReason, accepted, verdict
<1> QED BY <1>4, <1>5, <1>6, <1>7 DEF WatchInv

\* An evaluation begins a countdown in the menu, and a return to lobby or run stops it.
LEMMA EvaluationKeepsWatch ==
    ASSUME WatchInv, TypeInv', NEW g \in evals, Evaluates(g)
    PROVE  WatchInv'
<1>1. /\ UNCHANGED <<world, accepted, gate, sub, disposed>> /\ main = "free" /\ evals' = evals \ {g}
      /\ HasDemand' <=> HasDemand
      /\ Subscribed' = Subscribed
  BY DEF Evaluates, HasDemand, Subscribed, accepted
<1>2. GenerationsArePast' /\ GateIsCurrent'
  BY <1>1, WatchTypes DEF WatchInv, GenerationsArePast, GateIsCurrent, accepted
<1>3. SupervisionFollowsDemand'
  BY <1>1 DEF WatchInv, SupervisionFollowsDemand, accepted
<1>4. CASE (disposed \/ ~HasDemand \/ active # g) /\ UNCHANGED <<unread, verdict>>
  <2>1. HostedHasHost' /\ CountdownIsWatched'
    BY <1>1, <1>4 DEF WatchInv, HostedHasHost, CountdownIsWatched, world, accepted, verdict
  <2>2. CountdownHasAReason'
    BY <1>1, <1>4 DEF WatchInv, CountdownHasAReason, world, accepted, verdict
  <2> QED BY <1>2, <1>3, <2>1, <2>2 DEF WatchInv
<1>5. CASE ~disposed /\ HasDemand /\ active = g /\ unread' = TRUE /\ UNCHANGED verdict
  <2>1. HostedHasHost' /\ CountdownIsWatched'
    BY <1>1, <1>5 DEF WatchInv, HostedHasHost, CountdownIsWatched, world, accepted, verdict
  <2>2. CountdownHasAReason'
    BY <1>1, <1>5 DEF WatchInv, CountdownHasAReason, world, accepted, verdict
  <2> QED BY <1>2, <1>3, <2>1, <2>2 DEF WatchInv
<1>6. CASE ~disposed /\ HasDemand /\ active = g /\ unread' = FALSE /\ Applies
  <2>1. CountdownIsWatched'
    BY <1>1, <1>6 DEF WatchInv, CountdownIsWatched, accepted
  <2>2. CASE hostActive /\ screen # "menu"
    BY <1>1, <1>2, <1>3, <1>6, <2>1, <2>2
       DEF Applies, WatchInv, HostedHasHost, CountdownHasAReason, world
  <2>3. CASE ~(hostActive /\ screen # "menu")
    <3>1. hosted' = hosted /\ left' = IF hosted /\ screen = "menu" /\ left = "none" THEN "recent" ELSE left
      BY <1>6, <2>3 DEF Applies
    <3>2. HostedHasHost'
      BY <1>1, <3>1 DEF WatchInv, HostedHasHost, world
    <3>3. hosted => hostActive
      BY <1>1, <1>6 DEF WatchInv, HostedHasHost
    <3>4. left' # "none" => hosted
      BY <1>6, <3>1 DEF WatchInv, CountdownHasAReason
    <3>5. hosted => screen = "menu"
      BY <2>3, <3>3
    <3>6. CountdownHasAReason'
      BY <1>1, <1>6, <3>1, <3>4, <3>5 DEF CountdownHasAReason, world
    <3> QED BY <1>2, <1>3, <2>1, <3>2, <3>6 DEF WatchInv
  <2> QED BY <2>2, <2>3
<1> QED BY <1>4, <1>5, <1>6 DEF Evaluates

\* The end of hosting, by the game or by the timer, clears the verdict.
LEMMA EndKeepsWatch ==
    ASSUME WatchInv, TypeInv', OnNativeHostingEnded \/ Tick
    PROVE  WatchInv'
<1>1. /\ UNCHANGED <<screen, hostActive, accepted, watch, disposed>>
      /\ disposed \/ (left' = "none" /\ hosted' = FALSE)
      /\ HasDemand' <=> HasDemand
      /\ Subscribed' = Subscribed
  BY DEF OnNativeHostingEnded, Tick, HasDemand, Subscribed, accepted, watch, world
<1>2. GenerationsArePast' /\ GateIsCurrent' /\ SupervisionFollowsDemand'
  BY <1>1 DEF WatchInv, GenerationsArePast, GateIsCurrent, SupervisionFollowsDemand, accepted, watch
<1>3. CountdownIsWatched' /\ HostedHasHost' /\ CountdownHasAReason'
  BY <1>1 DEF WatchInv, CountdownIsWatched, HostedHasHost, CountdownHasAReason, accepted, watch
<1> QED BY <1>2, <1>3 DEF WatchInv

LEMMA NextWatch ==
    ASSUME WatchInv, [Next]_vars
    PROVE  WatchInv'
<1>1. TypeInv'
  BY NextType DEF WatchInv
<1>2. ASSUME NEW x \in Sources, Comes(x) \/ Goes(x) PROVE WatchInv'
  BY <1>1, <1>2, OthersKeepWatch DEF Comes, Goes, world, verdict
<1>3. ASSUME NEW m \in sent, DemandArrives(m) PROVE WatchInv'
  BY <1>1, <1>3, ArrivalKeepsWatch
<1>4. CASE Subscribes \/ Keeps \/ Marshals
  BY <1>1, <1>4, GateKeepsWatch
<1>5. CASE ScreenChanges
  BY <1>1, <1>5, ScreenKeepsWatch
<1>6. CASE HostStarts \/ HostEnds
  <2>1. /\ UNCHANGED <<screen, accepted, watch, verdict, disposed>>
        /\ HasDemand' <=> HasDemand
        /\ Subscribed' = Subscribed
    BY <1>6 DEF HostStarts, HostEnds, HasDemand, Subscribed, accepted, watch
  <2>2. hostActive' = TRUE \/ main' = "ending" \/ disposed
    BY <1>6 DEF HostStarts, HostEnds
  <2>3. main = "free"
    BY <1>6 DEF HostStarts, HostEnds
  <2>4. GenerationsArePast' /\ GateIsCurrent' /\ SupervisionFollowsDemand'
    BY <2>1 DEF WatchInv, GenerationsArePast, GateIsCurrent, SupervisionFollowsDemand, accepted, watch
  <2>5. CountdownIsWatched' /\ HostedHasHost'
    BY <2>1, <2>2 DEF WatchInv, CountdownIsWatched, HostedHasHost, accepted, watch, verdict
  <2>6. CountdownHasAReason'
    BY <2>1, <2>3 DEF WatchInv, CountdownHasAReason, accepted, watch, verdict
  <2> QED BY <1>1, <2>4, <2>5, <2>6 DEF WatchInv
<1>7. ASSUME NEW g \in evals, Evaluates(g) PROVE WatchInv'
  BY <1>1, <1>7, EvaluationKeepsWatch
<1>8. CASE OnNativeHostingEnded \/ Tick
  BY <1>1, <1>8, EndKeepsWatch
<1>9. CASE FiveSecondsPass
  BY <1>1, <1>9, OthersKeepWatch DEF FiveSecondsPass, world
<1>10. CASE Dispose
  <2>1. /\ disposed' = TRUE /\ sub' = NoGen /\ active' = active + 1
        /\ UNCHANGED <<gate, evals>>
    BY <1>10 DEF Dispose
  <2>2. GenerationsArePast' /\ GateIsCurrent'
    BY <2>1, WatchTypes DEF WatchInv, GenerationsArePast, GateIsCurrent
  <2>3. /\ SupervisionFollowsDemand' /\ CountdownIsWatched' /\ HostedHasHost'
        /\ CountdownHasAReason'
    BY <2>1 DEF SupervisionFollowsDemand, CountdownIsWatched, HostedHasHost, CountdownHasAReason
  <2> QED BY <1>1, <2>2, <2>3 DEF WatchInv
<1>11. CASE UNCHANGED vars
  BY <1>1, <1>11, OthersKeepWatch DEF vars, world, verdict
<1> QED BY <1>2, <1>3, <1>4, <1>5, <1>6, <1>7, <1>8, <1>9, <1>10, <1>11 DEF Next, MainThread

LEMMA InitWatch == Init => WatchInv
BY InitType DEF Init, WatchInv, GenerationsArePast, GateIsCurrent, SupervisionFollowsDemand,
   CountdownIsWatched, HostedHasHost, CountdownHasAReason, Free, Subscribed

\* The subscription and the timer are always those of the present demand, and a tracker
\* that was disposed of, or has no demand, has none.
THEOREM SupervisionIsCurrent == Spec => []SupervisionFollowsDemand
<1>1. WatchInv => SupervisionFollowsDemand
  BY DEF WatchInv
<1> QED BY <1>1, InitWatch, NextWatch, PTL DEF Spec

\* A countdown to the end of hosting always has a hosted session that was left, or an
\* evaluation on its way that stops it.
THEOREM CountdownIsJustified == Spec => []CountdownHasAReason
<1>1. WatchInv => CountdownHasAReason
  BY DEF WatchInv
<1> QED BY <1>1, InitWatch, NextWatch, PTL DEF Spec
=============================================================================
