-------------------------- MODULE AssetCacheProofs --------------------------
(***************************************************************************)
(* Theorems about the asset cache, for any number of tabs, URLs, builds,    *)
(* games, reconciliations at once, restarts and budgets: the types, that    *)
(* nothing outlives a move, and that what exceeds the budget is counted.    *)
(***************************************************************************)
EXTENDS AssetCache, SequenceTheorems, TLAPS

----------------------------------------------------------------------------
(* Types.                                                                  *)

StampOf(k) == IF k = "stamp" THEN Builds ELSE Games
HostSet == [build : Builds, game : Games]
WorkerSet == [version : Versions, registered : BOOLEAN, puts : 0..(TrimEvery - 1), forgot : BOOLEAN]
StoreSet == [stamp : Builds \cup {0}, identity : Games \cup {0}, assets : Seq(Entries)]
TabSet == [page : {"closed", "loaded"}, build : Builds \cup {0}, had : SUBSET Games,
           told : Games \cup {0}, nav : SUBSET Jobs]
JobSet == [kind : Signals, pc : Pcs, live : BOOLEAN, value : Nat, seen : Nat]
ReqSet == [active : BOOLEAN, live : BOOLEAN,
           key : [url : Urls \cup {Bundle}, of : Builds \cup Games \cup {0}], before : BOOLEAN]
TrimSet == [pc : {"none", "listing", "dropping"}, live : BOOLEAN, drop : Seq(Keys)]

KeysDiffer(s) == \A i, j \in DOMAIN s : s[i].key = s[j].key => i = j

HostTyped == host \in HostSet
WorkerTyped == worker \in WorkerSet
StoreTyped == store \in [Versions -> StoreSet] /\ \A v \in Versions : KeysDiffer(store[v].assets)
HttpTyped == http \subseteq [key : Keys, bytes : Builds \cup Games]
JobTyped ==
    /\ job \in [Jobs -> JobSet]
    /\ \A i \in Jobs : job[i].pc # "none" => job[i].value \in StampOf(job[i].kind)

\* A page has a build, and what holds a tab's next document reconciles a stamp.
TabsTyped ==
    /\ tabs \in [Tabs -> TabSet]
    /\ \A t \in Tabs : tabs[t].page = "loaded" => tabs[t].build # 0
    /\ \A t \in Tabs : \A i \in tabs[t].nav : job[i].pc # "none" /\ job[i].kind = "stamp"
ReqTyped == req \in [Tabs -> ReqSet] /\ \A t \in Tabs : req[t].active => req[t].key \in Keys
TrimTyped == trim \in TrimSet /\ (trim.pc = "dropping" => trim.drop # <<>>)
AllTyped ==
    /\ HostTyped /\ WorkerTyped /\ StoreTyped /\ HttpTyped /\ TabsTyped /\ JobTyped /\ ReqTyped /\ TrimTyped
    /\ resetting \in BOOLEAN

----------------------------------------------------------------------------
(* What outlives a move.                                                   *)

Wiping == \E i \in Jobs : job[i].pc = "wiping"
NoneBefore(assets) == \A e \in ToSet(assets) : ~e.before

\* What is from before a move is in the worker's own cache, or asked for while
\* that was open, and a wipe is coming for it.
Clean ==
    /\ \A v \in Versions : v # worker.version \/ ~Wiping => NoneBefore(store[v].assets)
    /\ ~Wiping => \A t \in Tabs : req[t].active /\ req[t].live => ~req[t].before

----------------------------------------------------------------------------
(* The budget.                                                             *)

KeysIn(assets) == {e.key : e \in ToSet(assets)}
Dropping == trim.pc = "dropping" /\ trim.live

\* What a trim has yet to drop is there, once.
Planned ==
    Dropping => /\ \A i \in DOMAIN trim.drop : trim.drop[i] \in KeysIn(Own.assets)
                /\ \A i, j \in DOMAIN trim.drop : trim.drop[i] = trim.drop[j] => i = j

Counted ==
    worker.registered /\ ~worker.forgot /\ trim.pc # "listing" =>
        Len(Own.assets) <= MaxEntries + worker.puts + (IF Dropping THEN Len(trim.drop) ELSE 0)

----------------------------------------------------------------------------
(* What is left of the entries when one is deleted or put.                 *)

LEMMA RemovedAt ==
    ASSUME NEW S, NEW s \in Seq(S), NEW p \in 1..Len(s)
    PROVE  /\ RemoveAt(s, p) \in Seq(S) /\ Len(s) \in Nat /\ Len(RemoveAt(s, p)) = Len(s) - 1
           /\ DOMAIN RemoveAt(s, p) = 1..(Len(s) - 1)
           /\ \A i \in 1..(Len(s) - 1) : RemoveAt(s, p)[i] = IF i < p THEN s[i] ELSE s[i + 1]
<1> DEFINE n == Len(s)
<1> DEFINE a == SubSeq(s, 1, p - 1)
<1> DEFINE b == SubSeq(s, p + 1, n)
<1>1. n \in Nat /\ p \in 1..n /\ \A i \in 1..n : s[i] \in S
  BY LenProperties, ElementOfSeq
<1>2. a \in Seq(S) /\ Len(a) = p - 1 /\ \A i \in 1..(p - 1) : a[i] = s[i]
  <2>1. \A i \in 1..(p - 1) : s[i] \in S
    BY <1>1
  <2>2. 1 \in Int /\ p - 1 \in Int
    BY <1>1
  <2>3. /\ a \in Seq(S) /\ Len(a) = IF 1 <= p - 1 THEN (p - 1) - 1 + 1 ELSE 0
        /\ \A i \in 1..((p - 1) - 1 + 1) : a[i] = s[1 + i - 1]
    BY <2>1, <2>2, SubSeqProperties
  <2> HIDE DEF a, n
  <2> QED BY <1>1, <2>3
<1>3. b \in Seq(S) /\ Len(b) = n - p /\ \A i \in 1..(n - p) : b[i] = s[p + i]
  <2>1. \A i \in (p + 1)..n : s[i] \in S
    BY <1>1
  <2>2. p + 1 \in Int /\ n \in Int
    BY <1>1
  <2>3. /\ b \in Seq(S) /\ Len(b) = IF p + 1 <= n THEN n - (p + 1) + 1 ELSE 0
        /\ \A i \in 1..(n - (p + 1) + 1) : b[i] = s[(p + 1) + i - 1]
    BY <2>1, <2>2, SubSeqProperties
  <2> HIDE DEF b, n
  <2> QED BY <1>1, <2>3
<1>4. PICK t : t = RemoveAt(s, p)
  OBVIOUS
<1>5. t = a \o b
  BY <1>4 DEF RemoveAt
<1> HIDE DEF a, b, n
<1>6. /\ t \in Seq(S) /\ Len(t) = Len(a) + Len(b)
      /\ \A i \in 1..(Len(a) + Len(b)) : t[i] = IF i <= Len(a) THEN a[i] ELSE b[i - Len(a)]
  BY <1>2, <1>3, <1>5, ConcatProperties
<1>7. Len(t) = n - 1 /\ DOMAIN t = 1..(n - 1)
  BY <1>1, <1>2, <1>3, <1>6, LenProperties
<1>8. ASSUME NEW i \in 1..(n - 1) PROVE t[i] = IF i < p THEN s[i] ELSE s[i + 1]
  <2>1. CASE i < p
    BY <1>1, <1>2, <1>3, <1>6, <2>1
  <2>2. CASE ~(i < p)
    <3>1. i - (p - 1) \in 1..(n - p) /\ p + (i - (p - 1)) = i + 1 /\ i \in 1..(Len(a) + Len(b)) /\ ~(i <= Len(a))
      BY <1>1, <1>2, <1>3, <2>2
    <3>2. t[i] = b[i - (p - 1)]
      BY <1>2, <1>6, <3>1
    <3> QED BY <1>3, <2>2, <3>1, <3>2
  <2> QED BY <2>1, <2>2
<1> QED BY <1>1, <1>4, <1>6, <1>7, <1>8 DEF n

LEMMA WithoutKeeps ==
    ASSUME NEW s \in Seq(Entries), KeysDiffer(s), NEW key
    PROVE  /\ Without(s, key) \in Seq(Entries) /\ KeysDiffer(Without(s, key))
           /\ ToSet(Without(s, key)) \subseteq {e \in ToSet(s) : e.key # key}
<1>1. CASE ~\E i \in DOMAIN s : s[i].key = key
  <2>1. Without(s, key) = s
    BY <1>1 DEF Without
  <2> QED BY <1>1, <2>1 DEF ToSet
<1>2. CASE \E i \in DOMAIN s : s[i].key = key
  <2> DEFINE n == Len(s)
  <2>1. PICK p \in DOMAIN s : p = PlaceOf(s, key) /\ s[p].key = key
    BY <1>2 DEF PlaceOf
  <2>2. DOMAIN s = 1..n /\ n \in Nat /\ p \in 1..n
    BY <2>1
  <2> DEFINE t == RemoveAt(s, p)
  <2>3. Without(s, key) = t
    BY <1>2, <2>1 DEF Without
  <2>4. /\ t \in Seq(Entries) /\ DOMAIN t = 1..(n - 1)
        /\ \A i \in 1..(n - 1) : t[i] = IF i < p THEN s[i] ELSE s[i + 1]
    BY <2>2, RemovedAt
  <2>5. ASSUME NEW i \in DOMAIN t
        PROVE  t[i] \in ToSet(s) /\ t[i].key # key
    <3>1. PICK j \in 1..n : t[i] = s[j] /\ j # p
      BY <2>2, <2>4
    <3> QED BY <2>1, <2>2, <3>1 DEF KeysDiffer, ToSet
  <2>6. KeysDiffer(t)
    <3> HIDE DEF t
    <3> SUFFICES ASSUME NEW i \in 1..(n - 1), NEW j \in 1..(n - 1), t[i].key = t[j].key PROVE i = j
      BY <2>4 DEF KeysDiffer
    <3>1. PICK a \in 1..n : a = (IF i < p THEN i ELSE i + 1) /\ t[i] = s[a]
      BY <2>2, <2>4
    <3>2. PICK b \in 1..n : b = (IF j < p THEN j ELSE j + 1) /\ t[j] = s[b]
      BY <2>2, <2>4
    <3>3. a = b
      BY <2>2, <3>1, <3>2 DEF KeysDiffer
    <3> QED BY <2>2, <3>1, <3>2, <3>3
  <2> QED BY <2>3, <2>4, <2>5, <2>6 DEF ToSet
<1> QED BY <1>1, <1>2

LEMMA PutKeeps ==
    ASSUME NEW s \in Seq(Entries), KeysDiffer(s), NEW e \in Entries
    PROVE  /\ Put(s, e) \in Seq(Entries) /\ KeysDiffer(Put(s, e))
           /\ ToSet(Put(s, e)) \subseteq ToSet(s) \cup {e}
<1> DEFINE w == Without(s, e.key)
<1>1. w \in Seq(Entries) /\ KeysDiffer(w) /\ ToSet(w) \subseteq {x \in ToSet(s) : x.key # e.key}
  BY WithoutKeeps
<1> HIDE DEF w
<1>2. Put(s, e) = Append(w, e)
  BY DEF Put, w
<1>3. PICK t : t = Append(w, e)
  OBVIOUS
<1>4. /\ t \in Seq(Entries) /\ Len(t) = Len(w) + 1 /\ DOMAIN t = 1..(Len(w) + 1) /\ Len(w) \in Nat
      /\ DOMAIN w = 1..Len(w)
      /\ \A i \in 1..Len(w) : t[i] = w[i]
      /\ t[Len(w) + 1] = e
  BY <1>1, <1>3
<1>5. \A i \in 1..Len(w) : w[i] \in ToSet(s) /\ w[i].key # e.key
  BY <1>1, <1>4 DEF ToSet
<1>6. KeysDiffer(t)
  BY <1>1, <1>4, <1>5 DEF KeysDiffer
<1>7. ToSet(t) \subseteq ToSet(s) \cup {e}
  BY <1>4, <1>5 DEF ToSet
<1> QED BY <1>2, <1>3, <1>4, <1>6, <1>7

\* How many entries there are afterwards, and of what.
LEMMA WithoutCounts ==
    ASSUME NEW s \in Seq(Entries), KeysDiffer(s), NEW key
    PROVE  /\ Len(s) \in Nat /\ Len(Without(s, key)) \in Nat
           /\ Len(Without(s, key)) = IF key \in KeysIn(s) THEN Len(s) - 1 ELSE Len(s)
           /\ \A k \in KeysIn(s) : k # key => k \in KeysIn(Without(s, key))
<1> DEFINE n == Len(s)
<1>1. n \in Nat /\ DOMAIN s = 1..n
  OBVIOUS
<1>2. key \in KeysIn(s) <=> \E i \in DOMAIN s : s[i].key = key
  BY DEF KeysIn, ToSet
<1>3. CASE ~\E i \in DOMAIN s : s[i].key = key
  <2>1. Without(s, key) = s
    BY <1>3 DEF Without
  <2> QED BY <1>1, <1>2, <1>3, <2>1
<1>4. CASE \E i \in DOMAIN s : s[i].key = key
  <2>1. PICK p \in 1..n : p = PlaceOf(s, key) /\ s[p].key = key
    BY <1>1, <1>4 DEF PlaceOf
  <2>2. PICK t : t = RemoveAt(s, p)
    OBVIOUS
  <2>3. Without(s, key) = t
    BY <1>4, <2>1, <2>2 DEF Without
  <2>4. /\ t \in Seq(Entries) /\ DOMAIN t = 1..(n - 1) /\ Len(t) = n - 1
        /\ \A i \in 1..(n - 1) : t[i] = IF i < p THEN s[i] ELSE s[i + 1]
    BY <2>1, <2>2, RemovedAt
  <2>6. ASSUME NEW k \in KeysIn(s), k # key PROVE k \in KeysIn(t)
    <3>1. PICK i \in 1..n : s[i].key = k
      BY <1>1 DEF KeysIn, ToSet
    <3>2. i # p
      BY <2>1, <2>6, <3>1
    <3>3. PICK j \in 1..(n - 1) : j = IF i < p THEN i ELSE i - 1
      BY <1>1, <2>1, <3>1, <3>2
    <3>4. t[j] = s[i]
      BY <1>1, <2>1, <2>4, <3>2, <3>3
    <3>5. t[j] \in ToSet(t) /\ t[j].key = k
      BY <2>4, <3>1, <3>3, <3>4 DEF ToSet
    <3> QED BY <3>5 DEF KeysIn
  <2>8. key \in KeysIn(s)
    BY <1>2, <1>4
  <2>5. Len(t) \in Nat /\ Len(t) = Len(s) - 1
    BY <1>1, <2>1, <2>4
  <2>7. \A k \in KeysIn(s) : k # key => k \in KeysIn(t)
    BY <2>6
  <2> QED BY <1>1, <2>3, <2>5, <2>7, <2>8
<1> QED BY <1>3, <1>4

LEMMA PutCounts ==
    ASSUME NEW s \in Seq(Entries), KeysDiffer(s), NEW e \in Entries
    PROVE  /\ Len(s) \in Nat /\ Len(Put(s, e)) \in Nat /\ Len(Put(s, e)) <= Len(s) + 1
           /\ KeysIn(s) \subseteq KeysIn(Put(s, e))
<1>1. PICK w : w = Without(s, e.key)
  OBVIOUS
<1>2. /\ w \in Seq(Entries) /\ Len(s) \in Nat /\ Len(w) <= Len(s)
      /\ \A k \in KeysIn(s) : k # e.key => k \in KeysIn(w)
  BY <1>1, WithoutCounts, WithoutKeeps
<1>3. PICK t : t = Append(w, e)
  OBVIOUS
<1>4. /\ t \in Seq(Entries) /\ Len(t) = Len(w) + 1 /\ DOMAIN t = 1..(Len(w) + 1) /\ Len(w) \in Nat
      /\ DOMAIN w = 1..Len(w)
      /\ \A i \in 1..Len(w) : t[i] = w[i]
      /\ t[Len(w) + 1] = e
  BY <1>2, <1>3
<1>5. Put(s, e) = t
  BY <1>1, <1>3 DEF Put
<1>6. e \in ToSet(t) /\ ToSet(w) \subseteq ToSet(t)
  BY <1>4 DEF ToSet
<1>7. KeysIn(s) \subseteq KeysIn(t)
  BY <1>2, <1>6 DEF KeysIn
<1> QED BY <1>2, <1>4, <1>5, <1>7

\* A trim on activation keeps the last entries.
LEMMA LastOnes ==
    ASSUME NEW s \in Seq(Entries), KeysDiffer(s)
    PROVE  LET t == SubSeq(s, PlanTrim(Len(s)) + 1, Len(s))
           IN  t \in Seq(Entries) /\ KeysDiffer(t) /\ ToSet(t) \subseteq ToSet(s) /\ Len(t) \in Nat /\ Len(t) <= MaxEntries
<1>1. PICK n \in Nat : n = Len(s) /\ DOMAIN s = 1..n
  OBVIOUS
<1>2. PICK p \in Nat : p = PlanTrim(n) /\ p <= n /\ n - p <= MaxEntries
  <2>1. CASE n > MaxEntries
    BY <2>1, BoundsAssumption DEF PlanTrim
  <2>2. CASE ~(n > MaxEntries)
    BY <2>2, BoundsAssumption DEF PlanTrim
  <2> QED BY <2>1, <2>2
<1>3. \A i \in (p + 1)..n : s[i] \in Entries
  BY <1>1, ElementOfSeq
<1>4. PICK t : t = SubSeq(s, p + 1, n)
  OBVIOUS
<1>5. /\ t \in Seq(Entries) /\ DOMAIN t = 1..Len(t)
      /\ Len(t) = IF p + 1 <= n THEN n - (p + 1) + 1 ELSE 0
      /\ \A i \in 1..(n - (p + 1) + 1) : t[i] = s[(p + 1) + i - 1]
  <2>1. p + 1 \in Int /\ n \in Int
    OBVIOUS
  <2> QED BY <1>3, <1>4, <2>1, SubSeqProperties, LenProperties
<1>6. Len(t) = n - p
  BY <1>2, <1>5
<1>7. \A i \in 1..(n - p) : i \in 1..(n - (p + 1) + 1) /\ (p + 1) + i - 1 = p + i /\ p + i \in 1..n
  BY <1>2
<1>8. DOMAIN t = 1..(n - p) /\ \A i \in 1..(n - p) : t[i] = s[p + i] /\ p + i \in DOMAIN s
  BY <1>1, <1>5, <1>6, <1>7
<1>9. KeysDiffer(t)
  <2> SUFFICES ASSUME NEW i \in 1..(n - p), NEW j \in 1..(n - p), t[i].key = t[j].key PROVE i = j
    BY <1>8 DEF KeysDiffer
  <2>1. PICK x \in DOMAIN s : x = p + i /\ t[i] = s[x]
    BY <1>8
  <2>2. PICK y \in DOMAIN s : y = p + j /\ t[j] = s[y]
    BY <1>8
  <2>3. x = y
    BY <2>1, <2>2 DEF KeysDiffer
  <2> QED BY <1>2, <2>1, <2>2, <2>3
<1>10. ToSet(t) \subseteq ToSet(s)
  BY <1>8 DEF ToSet
<1>11. Len(t) \in Nat /\ Len(t) <= MaxEntries
  BY <1>2, <1>6
<1>12. t = SubSeq(s, PlanTrim(Len(s)) + 1, Len(s))
  BY <1>1, <1>2, <1>4
<1>13. t \in Seq(Entries) /\ KeysDiffer(t) /\ ToSet(t) \subseteq ToSet(s) /\ Len(t) \in Nat /\ Len(t) <= MaxEntries
  BY <1>5, <1>9, <1>10, <1>11
<1> QED BY <1>12, <1>13, Zenon

\* Dating the entries changes nothing else.
LEMMA DatedKeeps ==
    ASSUME NEW s \in Seq(Entries), KeysDiffer(s)
    PROVE  /\ Dated(s) \in Seq(Entries) /\ KeysDiffer(Dated(s)) /\ Len(Dated(s)) = Len(s)
           /\ KeysIn(Dated(s)) = KeysIn(s)
<1>1. PICK t : t = Dated(s)
  OBVIOUS
<1>2. Len(s) \in Nat /\ DOMAIN s = 1..Len(s) /\ \A i \in 1..Len(s) : s[i] \in Entries
  BY ElementOfSeq
<1>3. t = [i \in 1..Len(s) |-> [s[i] EXCEPT !.before = TRUE]]
  BY <1>1, <1>2 DEF Dated
<1>4. \A i \in 1..Len(s) : t[i] \in Entries /\ t[i].key = s[i].key
  BY <1>2, <1>3 DEF Entries
<1>5. t \in [1..Len(s) -> Entries] /\ DOMAIN t = 1..Len(s)
  BY <1>3, <1>4
<1>6. t \in Seq(Entries) /\ Len(t) = Len(s)
  BY <1>2, <1>5
<1>7. KeysDiffer(t)
  BY <1>2, <1>4, <1>5 DEF KeysDiffer
<1>8. KeysIn(t) = KeysIn(s)
  BY <1>2, <1>4, <1>5 DEF KeysIn, ToSet
<1> QED BY <1>1, <1>6, <1>7, <1>8

----------------------------------------------------------------------------
(* The types are kept, whatever the tabs do.                               *)

LEMMA NumbersAreTyped ==
    /\ 1 \in Builds /\ 1 \in Games /\ \A b \in Builds : b \in Nat /\ b # 0
    /\ \A g \in Games : g \in Nat /\ g # 0
    /\ Versions \subseteq Nat /\ 1 \in Versions /\ \A b \in Builds : Ships(b) \in Versions
    /\ MaxEntries \in Nat /\ TrimEvery \in Nat \ {0} /\ MaxMoves \in Nat /\ Bumps \in BOOLEAN
BY BuildsAssumption, BoundsAssumption DEF Versions, Ships

LEMMA EmptyIsTyped ==
    /\ EmptyStore \in StoreSet /\ KeysDiffer(EmptyStore.assets) /\ ToSet(EmptyStore.assets) = {}
    /\ ClosedTab \in TabSet /\ NoJob \in JobSet /\ NoReq \in ReqSet /\ NoTrim \in TrimSet
    /\ NoJob.pc = "none" /\ ~NoReq.active /\ NoTrim.pc = "none"
    /\ ClosedTab.page = "closed" /\ ClosedTab.nav = {}
    /\ EmptyStore.assets = <<>>
BY NumbersAreTyped DEF EmptyStore, StoreSet, KeysDiffer, ToSet, ClosedTab, TabSet, NoJob, JobSet, Signals, Pcs,
                       NoReq, ReqSet, NoTrim, TrimSet

LEMMA InitTyped == Init => AllTyped
<1> SUFFICES ASSUME Init PROVE AllTyped
  OBVIOUS
<1>1. HostTyped /\ WorkerTyped
  BY NumbersAreTyped DEF Init, HostTyped, HostSet, WorkerTyped, WorkerSet
<1>2. StoreTyped /\ HttpTyped /\ TabsTyped
  BY EmptyIsTyped DEF Init, StoreTyped, HttpTyped, TabsTyped
<1>3. JobTyped /\ ReqTyped /\ TrimTyped
  BY EmptyIsTyped DEF Init, JobTyped, ReqTyped, TrimTyped
<1> QED BY <1>1, <1>2, <1>3 DEF Init, AllTyped

LEMMA Unchanged ==
    ASSUME AllTyped
    PROVE  /\ UNCHANGED host => HostTyped'
           /\ UNCHANGED worker => WorkerTyped'
           /\ UNCHANGED store => StoreTyped'
           /\ UNCHANGED http => HttpTyped'
           /\ UNCHANGED tabs /\ UNCHANGED job => TabsTyped'
           /\ UNCHANGED job => JobTyped'
           /\ UNCHANGED req => ReqTyped'
           /\ UNCHANGED trim => TrimTyped'
BY DEF AllTyped, HostTyped, WorkerTyped, StoreTyped, HttpTyped, TabsTyped, JobTyped, ReqTyped, TrimTyped

LEMMA OwnIsTyped ==
    ASSUME AllTyped
    PROVE  /\ worker.version \in Versions /\ Own \in StoreSet /\ Own.assets \in Seq(Entries) /\ KeysDiffer(Own.assets)
           /\ Own.stamp \in Builds \cup {0} /\ Own.identity \in Games \cup {0} /\ Len(Own.assets) \in Nat
<1>1. worker.version \in Versions /\ Own \in StoreSet /\ KeysDiffer(Own.assets)
  BY DEF AllTyped, WorkerTyped, StoreTyped, WorkerSet, Own
<1>2. Own.assets \in Seq(Entries) /\ Own.stamp \in Builds \cup {0} /\ Own.identity \in Games \cup {0}
  BY <1>1 DEF StoreSet
<1> QED BY <1>1, <1>2, LenProperties

\* The assets of the own store are replaced.
LEMMA AssetsReplaced ==
    ASSUME AllTyped, NEW a \in Seq(Entries), KeysDiffer(a),
           store' = [store EXCEPT ![worker.version].assets = a]
    PROVE  /\ StoreTyped'
           /\ \A v \in Versions : store'[v].assets = IF v = worker.version THEN a ELSE store[v].assets
<1>1. worker.version \in Versions
  BY OwnIsTyped
<1>2. store' \in [Versions -> StoreSet]
  BY <1>1 DEF AllTyped, StoreTyped, StoreSet
<1>3. \A v \in Versions : store'[v].assets = IF v = worker.version THEN a ELSE store[v].assets
  BY <1>1 DEF AllTyped, StoreTyped, StoreSet
<1> QED BY <1>2, <1>3 DEF AllTyped, StoreTyped

LEMMA JobStarts ==
    ASSUME AllTyped, NEW i \in Jobs, NEW k \in Signals, NEW value \in StampOf(k), Starts(i, k, value)
    PROVE  /\ JobTyped' /\ job[i].pc = "none" /\ job'[i].pc = "reading" /\ job'[i].kind = k
           /\ \A x \in Jobs \ {i} : job'[x] = job[x]
<1>1. value \in Nat
  BY NumbersAreTyped DEF StampOf, Signals
<1>2. PICK r : r = [NoJob EXCEPT !.kind = k, !.pc = "reading", !.value = value]
  OBVIOUS
<1>3. r = [kind |-> k, pc |-> "reading", live |-> FALSE, value |-> value, seen |-> 0]
  BY <1>2 DEF NoJob
<1>4. r \in JobSet /\ r.value = value /\ r.kind = k /\ r.pc = "reading"
  BY <1>1, <1>3 DEF JobSet, Pcs
<1>5. job' = [job EXCEPT ![i] = r] /\ job[i].pc = "none"
  BY <1>2 DEF Starts, Free
<1> QED BY <1>4, <1>5 DEF AllTyped, JobTyped

\* A tab's record is replaced, and the jobs that others wait for are left alone.
LEMMA TabReplaced ==
    ASSUME AllTyped, NEW t \in Tabs, NEW r \in TabSet, tabs' = [tabs EXCEPT ![t] = r],
           r.page = "loaded" => r.build # 0,
           \A x \in r.nav : job'[x].pc # "none" /\ job'[x].kind = "stamp",
           \A x \in Jobs : job[x].pc # "none" => job'[x] = job[x]
    PROVE  TabsTyped'
<1>1. tabs' \in [Tabs -> TabSet] /\ \A s \in Tabs : tabs'[s] = IF s = t THEN r ELSE tabs[s]
  BY DEF AllTyped, TabsTyped
<1>2. \A s \in Tabs : \A x \in tabs[s].nav : x \in Jobs /\ job'[x] = job[x]
  BY DEF AllTyped, TabsTyped, TabSet
<1> QED BY <1>1, <1>2 DEF AllTyped, TabsTyped

LEMMA LoadedIsTyped ==
    ASSUME NEW b \in Builds
    PROVE  Loaded(b) \in TabSet /\ Loaded(b).build # 0 /\ Loaded(b).nav = {} /\ Loaded(b).page = "loaded"
<1>1. b \in Nat /\ b # 0
  BY NumbersAreTyped
<1>2. PICK r : r = [ClosedTab EXCEPT !.page = "loaded", !.build = b]
  OBVIOUS
<1>3. r \in TabSet /\ r.build = b /\ r.nav = {} /\ r.page = "loaded"
  BY <1>2, EmptyIsTyped DEF TabSet, ClosedTab
<1> QED BY <1>1, <1>2, <1>3 DEF Loaded

LEMMA JobsEnd ==
    ASSUME AllTyped, NEW i \in Jobs, job[i].pc # "none", JobEnds(i)
    PROVE  /\ JobTyped' /\ TabsTyped' /\ job'[i].pc = "none"
           /\ \A x \in Jobs \ {i} : job'[x] = job[x]
<1>1. JobTyped' /\ job'[i].pc = "none" /\ \A x \in Jobs \ {i} : job'[x] = job[x]
  BY EmptyIsTyped DEF AllTyped, JobTyped, JobEnds
<1>2. TabsTyped'
  <2>1. tabs' = [t \in Tabs |-> IF i \in tabs[t].nav THEN Loaded(job[i].value) ELSE tabs[t]]
    BY DEF JobEnds
  <2>2. ASSUME NEW t \in Tabs
        PROVE  /\ tabs'[t] \in TabSet /\ (tabs'[t].page = "loaded" => tabs'[t].build # 0)
               /\ \A x \in tabs'[t].nav : job'[x].pc # "none" /\ job'[x].kind = "stamp"
    <3>1. CASE i \in tabs[t].nav
      <4>1. job[i].value \in Builds
        BY <3>1 DEF AllTyped, TabsTyped, JobTyped, StampOf
      <4> QED BY <2>1, <3>1, <4>1, LoadedIsTyped
    <3>2. CASE i \notin tabs[t].nav
      <4>1. tabs'[t] = tabs[t] /\ tabs[t] \in TabSet /\ tabs[t].nav \subseteq Jobs \ {i}
        BY <2>1, <3>2 DEF AllTyped, TabsTyped, TabSet
      <4> QED BY <1>1, <4>1 DEF AllTyped, TabsTyped
    <3> QED BY <3>1, <3>2
  <2> QED BY <2>1, <2>2 DEF TabsTyped
<1> QED BY <1>1, <1>2

LEMMA DetachedIsTyped ==
    ASSUME AllTyped, Detached
    PROVE  /\ ReqTyped' /\ TrimTyped' /\ \A t \in Tabs : ~req'[t].live
           /\ trim'.pc = trim.pc /\ ~trim'.live
<1>1. req' \in [Tabs -> ReqSet] /\ \A t \in Tabs : ~req'[t].live /\ req'[t].active = req[t].active /\ req'[t].key = req[t].key
  BY DEF AllTyped, ReqTyped, Detached, ReqSet
<1>2. trim' \in TrimSet /\ trim'.pc = trim.pc /\ trim'.drop = trim.drop /\ ~trim'.live
  BY DEF AllTyped, TrimTyped, Detached, TrimSet
<1> QED BY <1>1, <1>2 DEF AllTyped, ReqTyped, TrimTyped

LEMMA PutsAreCounted ==
    ASSUME AllTyped, NEW n \in Nat, NoteAssetPut(n)
    PROVE  /\ WorkerTyped' /\ TrimTyped' /\ worker'.version = worker.version /\ worker'.registered = worker.registered
           /\ trim'.pc # "listing" => UNCHANGED trim
           /\ (worker.forgot => worker'.forgot)
           /\ ~worker'.forgot /\ trim'.pc # "listing" => worker'.puts = worker.puts + n
<1> DEFINE due == worker.puts + n >= TrimEvery
<1>1. worker' = [worker EXCEPT !.puts = IF due THEN 0 ELSE worker.puts + n,
                               !.forgot = worker.forgot \/ (due /\ trim.pc = "dropping")]
  BY DEF NoteAssetPut
<1>2. /\ worker \in WorkerSet /\ TrimEvery \in Nat \ {0} /\ worker.puts \in 0..(TrimEvery - 1)
      /\ worker.forgot \in BOOLEAN
  BY NumbersAreTyped DEF AllTyped, WorkerTyped, WorkerSet
<1>3. (IF due THEN 0 ELSE worker.puts + n) \in 0..(TrimEvery - 1)
  BY <1>2
<1>4. WorkerTyped' /\ worker'.version = worker.version /\ worker'.registered = worker.registered
  <2>1. PICK p \in 0..(TrimEvery - 1) : p = IF due THEN 0 ELSE worker.puts + n
    BY <1>3
  <2>2. PICK f \in BOOLEAN : f = (worker.forgot \/ (due /\ trim.pc = "dropping"))
    BY <1>2
  <2> HIDE DEF due
  <2>3. worker' = [worker EXCEPT !.puts = p, !.forgot = f]
    BY <1>1, <2>1, <2>2
  <2> QED BY <1>2, <2>3 DEF WorkerTyped, WorkerSet
<1>5. trim' = IF due /\ trim.pc = "none" THEN [trim EXCEPT !.pc = "listing"] ELSE trim
  BY DEF NoteAssetPut, BudgetTrim
<1>6. TrimTyped' /\ (trim'.pc # "listing" => UNCHANGED trim) /\ (trim.pc = "listing" => trim'.pc = "listing")
  BY <1>5, Unchanged DEF AllTyped, TrimTyped, TrimSet
<1>7. worker'.puts = (IF due THEN 0 ELSE worker.puts + n) /\ worker'.forgot = (worker.forgot \/ (due /\ trim.pc = "dropping"))
  BY <1>1, <1>2 DEF WorkerSet
<1>8. due => trim'.pc = "listing" \/ worker'.forgot
  BY <1>5, <1>6, <1>7 DEF AllTyped, TrimTyped, TrimSet
<1> QED BY <1>4, <1>6, <1>7, <1>8

LEMMA KeysAreTyped ==
    ASSUME AllTyped, NEW t \in Tabs, req[t].active
    PROVE  /\ req[t].key \in Keys /\ Fetched(req[t].key) \in Builds \cup Games /\ req[t].before \in BOOLEAN
           /\ [key |-> req[t].key, before |-> req[t].before] \in Entries
<1>1. req[t].key \in Keys /\ req[t].before \in BOOLEAN
  BY DEF AllTyped, ReqTyped, ReqSet
<1>2. Fetched(req[t].key) \in Builds \cup Games
  <2>1. PICK key : key = req[t].key
    OBVIOUS
  <2>2. CASE Known(key)
    <3>1. PICK h \in http : h = CHOOSE x \in http : x.key = key
      BY <2>2 DEF Known
    <3> QED BY <2>1, <2>2, <3>1 DEF Fetched, AllTyped, HttpTyped
  <2>3. CASE ~Known(key)
    BY <2>1, <2>3 DEF Fetched, AllTyped, HostTyped, HostSet
  <2> QED BY <2>2, <2>3
<1> QED BY <1>1, <1>2 DEF Entries

LEMMA HttpGrows ==
    ASSUME AllTyped, NEW t \in Tabs, req[t].active, ReachesHttpCache(req[t].key)
    PROVE  HttpTyped'
<1>1. PICK h : h = [key |-> req[t].key, bytes |-> Fetched(req[t].key)]
  OBVIOUS
<1>2. h \in [key : Keys, bytes : Builds \cup Games]
  BY <1>1, KeysAreTyped
<1>3. http' = http \/ http' = http \cup {h}
  BY <1>1 DEF ReachesHttpCache
<1> QED BY <1>2, <1>3 DEF HttpTyped, AllTyped

LEMMA KeysOfOwn ==
    ASSUME AllTyped, NEW n \in Nat, n <= Len(Own.assets), n # 0, NEW d, d = [i \in 1..n |-> Own.assets[i].key]
    PROVE  /\ d \in Seq(Keys) /\ d # <<>> /\ Len(d) = n /\ DOMAIN d = 1..n
           /\ \A i \in DOMAIN d : d[i] \in KeysIn(Own.assets)
           /\ \A i, j \in DOMAIN d : d[i] = d[j] => i = j
<1>1. PICK s \in Seq(Entries) : s = Own.assets /\ KeysDiffer(s)
  BY OwnIsTyped
<1>2. \A i \in 1..n : i \in DOMAIN s /\ s[i] \in Entries /\ s[i].key \in Keys
  <2>1. Len(s) \in Nat /\ n <= Len(s) /\ DOMAIN s = 1..Len(s)
    BY <1>1
  <2>2. \A i \in 1..n : s[i] \in Entries
    BY <2>1, ElementOfSeq
  <2> QED BY <2>1, <2>2 DEF Entries
<1>3. d = [i \in 1..n |-> s[i].key]
  BY <1>1
<1>4. d \in [1..n -> Keys] /\ DOMAIN d = 1..n
  BY <1>2, <1>3
<1>5. d \in Seq(Keys) /\ Len(d) = n
  BY <1>4
<1>6. \A i \in DOMAIN d : d[i] \in KeysIn(s)
  BY <1>2, <1>3, <1>4 DEF KeysIn, ToSet
<1>7. \A i, j \in DOMAIN d : d[i] = d[j] => i = j
  BY <1>1, <1>2, <1>3, <1>4 DEF KeysDiffer
<1> QED BY <1>1, <1>4, <1>5, <1>6, <1>7

LEMMA TabStepTyped ==
    ASSUME AllTyped, NEW t \in Tabs, Navigate(t) \/ ShowOffline(t) \/ SessionEnvelope(t)
    PROVE  AllTyped'
<1>1. host.build \in Builds /\ host.game \in Games
  BY DEF AllTyped, HostTyped, HostSet
<1>2. tabs[t] \in TabSet /\ (tabs[t].page = "loaded" => tabs[t].build # 0)
  BY DEF AllTyped, TabsTyped
<1>3. "stamp" \in Signals /\ "identity" \in Signals /\ host.build \in StampOf("stamp") /\ host.game \in StampOf("identity")
  BY <1>1 DEF Signals, StampOf
<1>4. CASE Navigate(t)
  <2>1. JobTyped' /\ TabsTyped'
    <3>1. ASSUME NEW i \in Jobs, Starts(i, "stamp", host.build), tabs' = [tabs EXCEPT ![t].nav = {i}]
          PROVE  JobTyped' /\ TabsTyped'
      <4>1. /\ JobTyped' /\ job[i].pc = "none" /\ job'[i].pc = "reading" /\ job'[i].kind = "stamp"
            /\ \A x \in Jobs \ {i} : job'[x] = job[x]
        BY <1>3, <3>1, JobStarts
      <4>2. PICK r : r = [tabs[t] EXCEPT !.nav = {i}]
        OBVIOUS
      <4>3. r \in TabSet /\ r.nav = {i} /\ (r.page = "loaded" => r.build # 0)
        BY <1>2, <4>2 DEF TabSet
      <4>4. tabs' = [tabs EXCEPT ![t] = r]
        BY <3>1, <4>2
      <4> QED BY <4>1, <4>3, <4>4, TabReplaced
    <3>2. CASE tabs' = [tabs EXCEPT ![t] = Loaded(host.build)] /\ UNCHANGED job
      BY <1>1, <3>2, LoadedIsTyped, TabReplaced, Unchanged
    <3> QED BY <1>4, <3>1, <3>2 DEF Navigate
  <2> QED BY <1>4, <2>1, Unchanged DEF Navigate, AllTyped
<1>5. CASE ShowOffline(t)
  <2>1. TabsTyped'
    BY <1>5, EmptyIsTyped, TabReplaced DEF ShowOffline
  <2> QED BY <1>5, <2>1, Unchanged DEF ShowOffline, AllTyped
<1>6. CASE SessionEnvelope(t)
  <2>1. JobTyped' /\ \A x \in Jobs : job[x].pc # "none" => job'[x] = job[x]
    <3>1. ASSUME NEW i \in Jobs, Starts(i, "identity", host.game)
          PROVE  JobTyped' /\ \A x \in Jobs : job[x].pc # "none" => job'[x] = job[x]
      BY <1>3, <3>1, JobStarts
    <3>2. CASE job' = job
      BY <3>2, Unchanged
    <3> QED BY <1>6, <3>1, <3>2 DEF SessionEnvelope
  <2>2. PICK told \in {tabs[t].told, host.game} :
            tabs' = [tabs EXCEPT ![t].had = tabs[t].had \cup {host.game}, ![t].told = told]
    BY <1>6 DEF SessionEnvelope
  <2>3. PICK r : r = [tabs[t] EXCEPT !.had = tabs[t].had \cup {host.game}, !.told = told]
    OBVIOUS
  <2>4. r \in TabSet /\ r.page = tabs[t].page /\ r.build = tabs[t].build /\ r.nav = tabs[t].nav
    BY <1>1, <1>2, <2>2, <2>3 DEF TabSet
  <2>5. tabs' = [tabs EXCEPT ![t] = r]
    BY <1>2, <2>2, <2>3 DEF TabSet, AllTyped, TabsTyped
  <2>6. \A x \in r.nav : job'[x].pc # "none" /\ job'[x].kind = "stamp"
    BY <2>1, <2>4 DEF AllTyped, TabsTyped, TabSet
  <2>7. TabsTyped'
    BY <1>2, <2>1, <2>4, <2>5, <2>6, TabReplaced
  <2> QED BY <1>6, <2>1, <2>7, Unchanged DEF SessionEnvelope, AllTyped
<1> QED BY <1>4, <1>5, <1>6

LEMMA JobReplaced ==
    ASSUME AllTyped, NEW i \in Jobs, NEW r \in JobSet, job' = [job EXCEPT ![i] = r], UNCHANGED tabs,
           job[i].pc # "none", r.pc # "none", r.kind = job[i].kind, r.value = job[i].value
    PROVE  JobTyped' /\ TabsTyped'
<1>1. JobTyped'
  BY DEF AllTyped, JobTyped
<1>2. \A x \in Jobs : job'[x].kind = job[x].kind /\ (job'[x].pc = "none" <=> job[x].pc = "none")
  BY DEF AllTyped, JobTyped
<1>3. \A t \in Tabs : tabs[t].nav \subseteq Jobs
  BY DEF AllTyped, TabsTyped, TabSet
<1> QED BY <1>1, <1>2, <1>3 DEF AllTyped, TabsTyped

LEMMA RecordedKeeps ==
    ASSUME NEW s \in StoreSet, NEW k \in Signals, NEW value \in StampOf(k), KeysDiffer(s.assets), NEW moved
    PROVE  /\ Recorded(s, k, value, moved) \in StoreSet
           /\ Recorded(s, k, value, moved).assets = IF moved THEN Dated(s.assets) ELSE s.assets
<1>1. PICK a : a = IF moved THEN Dated(s.assets) ELSE s.assets
  OBVIOUS
<1>2. a \in Seq(Entries)
  BY <1>1, DatedKeeps DEF StoreSet
<1>3. PICK r : r = [s EXCEPT ![k] = value, !.assets = a]
  OBVIOUS
<1>4. r = Recorded(s, k, value, moved)
  BY <1>1, <1>3 DEF Recorded
<1>5. r \in StoreSet /\ r.assets = a
  <2>1. CASE k = "stamp"
    BY <1>2, <1>3, <2>1 DEF StampOf, StoreSet
  <2>2. CASE k = "identity"
    BY <1>2, <1>3, <2>2 DEF StampOf, StoreSet
  <2> QED BY <2>1, <2>2 DEF Signals
<1> QED BY <1>1, <1>4, <1>5

\* A moved signal is recorded: the entries keep their keys.
LEMMA StoreRecorded ==
    ASSUME AllTyped, NEW i \in Jobs, RecordSignal(i)
    PROVE  /\ StoreTyped'
           /\ \A v \in Versions : /\ v # worker.version => store'[v].assets = store[v].assets
                                  /\ Len(store'[v].assets) = Len(store[v].assets)
                                  /\ KeysIn(store'[v].assets) = KeysIn(store[v].assets)
           /\ ~(job[i].live /\ Moved(job[i].seen)) => \A v \in Versions : store'[v].assets = store[v].assets
<1>1. CASE ~job[i].live
  BY <1>1, Unchanged DEF RecordSignal
<1>2. CASE job[i].live
  <2>1. PICK old \in StoreSet : old = Own /\ old.assets \in Seq(Entries) /\ KeysDiffer(old.assets)
    BY OwnIsTyped
  <2>2. PICK k \in Signals : k = job[i].kind
    BY DEF AllTyped, JobTyped, JobSet
  <2>3. PICK value \in StampOf(k) : value = job[i].value
    BY <1>2, <2>2 DEF RecordSignal, AllTyped, JobTyped
  <2>4. PICK moved \in BOOLEAN : moved = (job[i].live /\ Moved(job[i].seen))
    BY DEF AllTyped, JobTyped, JobSet
  <2>5. PICK new : new = Recorded(old, k, value, moved)
    OBVIOUS
  <2>6. new \in StoreSet /\ new.assets = IF moved THEN Dated(old.assets) ELSE old.assets
    BY <2>1, <2>5, RecordedKeeps
  <2>7. /\ KeysDiffer(new.assets) /\ Len(new.assets) = Len(old.assets) /\ KeysIn(new.assets) = KeysIn(old.assets)
        /\ ~moved => new.assets = old.assets
    BY <2>1, <2>6, DatedKeeps
  <2>8. store' = [store EXCEPT ![worker.version] = new]
    BY <1>2, <2>1, <2>2, <2>3, <2>4, <2>5 DEF RecordSignal, Own
  <2>9. worker.version \in Versions /\ store \in [Versions -> StoreSet] /\ store[worker.version] = old
    BY <2>1, OwnIsTyped DEF Own, AllTyped, StoreTyped
  <2>10. \A v \in Versions : store'[v] = IF v = worker.version THEN new ELSE store[v]
    BY <2>8, <2>9
  <2>11. store' \in [Versions -> StoreSet]
    BY <2>6, <2>8, <2>9
  <2>12. StoreTyped'
    BY <2>7, <2>10, <2>11 DEF AllTyped, StoreTyped
  <2>13. ASSUME NEW v \in Versions
         PROVE  /\ v # worker.version => store'[v].assets = store[v].assets
                /\ Len(store'[v].assets) = Len(store[v].assets)
                /\ KeysIn(store'[v].assets) = KeysIn(store[v].assets)
                /\ ~moved => store'[v].assets = store[v].assets
    <3>1. CASE v = worker.version
      BY <2>7, <2>9, <2>10, <3>1
    <3>2. CASE v # worker.version
      BY <2>10, <3>2
    <3> QED BY <3>1, <3>2
  <2> QED BY <2>4, <2>12, <2>13
<1> QED BY <1>1, <1>2

LEMMA JobStepTyped ==
    ASSUME AllTyped, NEW i \in Jobs, ReadSignal(i) \/ RecordSignal(i) \/ WipeAssets(i)
    PROVE  AllTyped'
<1>1. PICK j \in JobSet : j = job[i] /\ j.pc # "none"
  BY DEF AllTyped, JobTyped, ReadSignal, RecordSignal, WipeAssets
<1>2. CASE ReadSignal(i)
  <2>1. JobTyped' /\ TabsTyped'
    <3>1. CASE JobEnds(i)
      BY <1>1, <3>1, JobsEnd
    <3>2. CASE ~JobEnds(i)
      <4>1. PICK x \in Nat : x = Own[j.kind]
        BY OwnIsTyped, NumbersAreTyped DEF JobSet, Signals
      <4>2. PICK r : r = [j EXCEPT !.pc = "recording", !.live = TRUE, !.seen = x]
        OBVIOUS
      <4>3. r \in JobSet /\ r.value = j.value /\ r.kind = j.kind /\ r.pc = "recording"
        BY <4>2 DEF JobSet, Pcs
      <4>4. job' = [job EXCEPT ![i].pc = "recording", ![i].live = TRUE, ![i].seen = x] /\ UNCHANGED tabs
        BY <1>1, <1>2, <3>2, <4>1 DEF ReadSignal
      <4>5. job' = [job EXCEPT ![i] = r]
        BY <1>1, <4>2, <4>4 DEF AllTyped, JobTyped, JobSet
      <4> QED BY <1>1, <4>3, <4>4, <4>5, JobReplaced
    <3> QED BY <3>1, <3>2
  <2> QED BY <1>2, <2>1, Unchanged DEF ReadSignal, AllTyped
<1>3. CASE RecordSignal(i)
  <2>1. JobTyped' /\ TabsTyped'
    <3>1. CASE JobEnds(i)
      BY <1>1, <3>1, JobsEnd
    <3>2. CASE ~JobEnds(i)
      <4>1. PICK r : r = [j EXCEPT !.pc = "wiping", !.live = FALSE]
        OBVIOUS
      <4>2. r \in JobSet /\ r.value = j.value /\ r.kind = j.kind /\ r.pc = "wiping"
        BY <4>1 DEF JobSet, Pcs
      <4>3. job' = [job EXCEPT ![i].pc = "wiping", ![i].live = FALSE] /\ UNCHANGED tabs
        BY <1>3, <3>2 DEF RecordSignal
      <4>4. job' = [job EXCEPT ![i] = r]
        BY <1>1, <4>1, <4>3 DEF AllTyped, JobTyped, JobSet
      <4> QED BY <1>1, <4>2, <4>3, <4>4, JobReplaced
    <3> QED BY <3>1, <3>2
  <2>2. ReqTyped'
    <3>1. \A t \in Tabs : req'[t] = [req[t] EXCEPT !.before = req'[t].before] /\ req'[t].before \in BOOLEAN
      <4>1. req' = [t \in Tabs |-> [req[t] EXCEPT !.before = req[t].before \/ (job[i].live /\ Moved(job[i].seen) /\ req[t].active)]]
        BY <1>3 DEF RecordSignal
      <4> QED BY <4>1 DEF AllTyped, ReqTyped, ReqSet
    <3>2. req' = [t \in Tabs |-> req'[t]]
      BY <1>3 DEF RecordSignal
    <3> QED BY <3>1, <3>2 DEF AllTyped, ReqTyped, ReqSet
  <2> QED BY <1>3, <2>1, <2>2, StoreRecorded, Unchanged DEF RecordSignal, AllTyped
<1>4. CASE WipeAssets(i)
  <2>1. StoreTyped'
    <3>1. <<>> \in Seq(Entries) /\ KeysDiffer(<<>>)
      BY DEF KeysDiffer
    <3> QED BY <1>4, <3>1, AssetsReplaced DEF WipeAssets
  <2>2. JobTyped' /\ TabsTyped' /\ ReqTyped' /\ TrimTyped'
    BY <1>1, <1>4, JobsEnd, DetachedIsTyped DEF WipeAssets
  <2> QED BY <1>4, <2>1, <2>2, Unchanged DEF WipeAssets, AllTyped
<1> QED BY <1>2, <1>3, <1>4

\* The response that is stored.
LEMMA StoredIsPut ==
    ASSUME AllTyped, NEW t \in Tabs, ResponseArrives(t), StillHeld(t), NEW e, e = [key |-> req[t].key, before |-> req[t].before]
    PROVE  /\ e \in Entries /\ StoreTyped'
           /\ \A v \in Versions : store'[v].assets = IF v = worker.version THEN Put(Own.assets, e) ELSE store[v].assets
<1>1. e \in Entries
  BY KeysAreTyped DEF ResponseArrives
<1>2. PICK a : a = Put(Own.assets, e)
  OBVIOUS
<1>3. a \in Seq(Entries) /\ KeysDiffer(a)
  BY <1>1, <1>2, OwnIsTyped, PutKeeps
<1>4. store' = [store EXCEPT ![worker.version].assets = a]
  BY <1>2, OwnIsTyped DEF ResponseArrives, Own, AllTyped, StoreTyped, StoreSet
<1> QED BY <1>1, <1>2, <1>3, <1>4, AssetsReplaced

LEMMA AssetStepTyped ==
    ASSUME AllTyped, NEW t \in Tabs,
           \/ \E u \in Urls : Request(t, u)
           \/ ResponseArrives(t) \/ PutFails(t) \/ NotCacheable(t)
    PROVE  AllTyped'
<1>1. ASSUME NEW u \in Urls, Request(t, u) PROVE AllTyped'
  <2>1. PICK key \in UrlFor(t, u) : req' = [req EXCEPT ![t] = [active |-> TRUE, live |-> TRUE, key |-> key, before |-> FALSE]]
    BY <1>1 DEF Request
  <2>2. key \in Keys /\ key \in [url : Urls \cup {Bundle}, of : Builds \cup Games \cup {0}]
    BY <1>1, <2>1 DEF Request, UrlFor, Keys, AllTyped, TabsTyped, TabSet
  <2>3. PICK r : r = [active |-> TRUE, live |-> TRUE, key |-> key, before |-> FALSE]
    OBVIOUS
  <2>4. r \in ReqSet /\ r.key \in Keys
    BY <2>2, <2>3 DEF ReqSet
  <2>5. req' = [req EXCEPT ![t] = r]
    BY <2>1, <2>3
  <2>6. ReqTyped'
    BY <2>4, <2>5 DEF ReqTyped, AllTyped
  <2> QED BY <1>1, <2>6, Unchanged DEF Request, AllTyped
<1>2. req' = [req EXCEPT ![t] = NoReq] => ReqTyped'
  BY EmptyIsTyped DEF ReqTyped, AllTyped
<1>3. CASE ResponseArrives(t)
  <2>1. StoreTyped'
    <3>1. CASE StillHeld(t)
      BY <1>3, <3>1, StoredIsPut
    <3>2. CASE ~StillHeld(t)
      BY <1>3, <3>2, Unchanged DEF ResponseArrives
    <3> QED BY <3>1, <3>2
  <2>2. WorkerTyped' /\ TrimTyped'
    BY <1>3, PutsAreCounted DEF ResponseArrives
  <2>3. HttpTyped'
    BY <1>3, HttpGrows DEF ResponseArrives
  <2> QED BY <1>2, <1>3, <2>1, <2>2, <2>3, Unchanged DEF ResponseArrives, AllTyped
<1>4. CASE PutFails(t)
  <2>1. WorkerTyped' /\ TrimTyped'
    BY <1>4, NumbersAreTyped, PutsAreCounted DEF PutFails
  <2>2. HttpTyped'
    BY <1>4, HttpGrows DEF PutFails
  <2> QED BY <1>2, <1>4, <2>1, <2>2, Unchanged DEF PutFails, AllTyped
<1>5. CASE NotCacheable(t)
  BY <1>2, <1>5, Unchanged DEF NotCacheable, AllTyped
<1> QED BY <1>1, <1>3, <1>4, <1>5

\* What a trim drops next, and what that leaves.
LEMMA TrimAdvances ==
    ASSUME AllTyped, DropOldest, NEW d, d = trim.drop
    PROVE  /\ Len(d) \in Nat \ {0} /\ DOMAIN d = 1..Len(d) /\ Head(d) = d[1]
           /\ TrimTyped'
           /\ \/ trim' = NoTrim /\ Len(d) = 1
              \/ /\ trim'.pc = trim.pc /\ trim'.live = trim.live /\ Len(trim'.drop) = Len(d) - 1
                 /\ DOMAIN trim'.drop = 1..(Len(d) - 1)
                 /\ \A n \in DOMAIN trim'.drop : trim'.drop[n] = d[n + 1]
<1>1. trim \in TrimSet /\ d \in Seq(Keys) /\ d # <<>>
  BY DEF DropOldest, AllTyped, TrimTyped, TrimSet
<1>2. Len(d) \in Nat \ {0} /\ DOMAIN d = 1..Len(d) /\ Head(d) = d[1]
  BY <1>1, LenProperties, EmptySeq, HeadTailProperties
<1>3. trim' = IF Len(d) = 1 THEN NoTrim ELSE [trim EXCEPT !.drop = Tail(d)]
  BY DEF DropOldest
<1>4. CASE Len(d) = 1
  BY <1>2, <1>3, <1>4, EmptyIsTyped DEF TrimTyped
<1>5. CASE Len(d) # 1
  <2>1. PICK e : e = Tail(d)
    OBVIOUS
  <2>2. e \in Seq(Keys) /\ Len(e) = Len(d) - 1 /\ DOMAIN e = 1..Len(e) /\ \A n \in 1..Len(e) : e[n] = d[n + 1]
    BY <1>1, <2>1, HeadTailProperties, LenProperties
  <2>3. DOMAIN e = 1..(Len(d) - 1) /\ e # <<>>
    <3>1. Len(e) # 0
      BY <1>2, <1>5, <2>2
    <3> QED BY <2>2, <3>1, EmptySeq
  <2>4. trim' \in TrimSet /\ trim'.pc = trim.pc /\ trim'.live = trim.live /\ trim'.drop = e
    BY <1>1, <1>3, <1>5, <2>1, <2>2 DEF TrimSet
  <2>5. TrimTyped'
    BY <2>3, <2>4 DEF TrimTyped
  <2> QED BY <1>2, <2>2, <2>3, <2>4, <2>5
<1> QED BY <1>4, <1>5

LEMMA DropsHead ==
    ASSUME AllTyped, DropOldest
    PROVE  /\ StoreTyped'
           /\ ~trim.live => UNCHANGED store
           /\ trim.live => \A v \in Versions :
                  store'[v].assets = IF v = worker.version THEN Without(Own.assets, Head(trim.drop)) ELSE store[v].assets
<1>1. CASE trim.live
  <2>1. PICK a : a = Without(Own.assets, Head(trim.drop))
    OBVIOUS
  <2>2. a \in Seq(Entries) /\ KeysDiffer(a)
    BY <2>1, OwnIsTyped, WithoutKeeps
  <2>3. store' = [store EXCEPT ![worker.version].assets = a]
    BY <1>1, <2>1, OwnIsTyped DEF DropOldest, Own, AllTyped, StoreTyped, StoreSet
  <2> QED BY <1>1, <2>1, <2>2, <2>3, AssetsReplaced
<1>2. CASE ~trim.live
  BY <1>2, Unchanged DEF DropOldest
<1> QED BY <1>1, <1>2

LEMMA TrimStepTyped ==
    ASSUME AllTyped, ListEntries \/ DropOldest
    PROVE  AllTyped'
<1>1. CASE ListEntries
  <2>1. PICK n \in Nat : n = PlanTrim(Len(Own.assets)) /\ n <= Len(Own.assets)
    <3>1. PICK m \in Nat : m = Len(Own.assets)
      BY OwnIsTyped
    <3>2. PlanTrim(m) \in Nat /\ PlanTrim(m) <= m
      BY NumbersAreTyped DEF PlanTrim
    <3> QED BY <3>1, <3>2
  <2>2. TrimTyped'
    <3>1. CASE n = 0
      BY <1>1, <2>1, <3>1, EmptyIsTyped DEF ListEntries, TrimTyped
    <3>2. CASE n # 0
      <4>1. PICK d : d = [i \in 1..n |-> Own.assets[i].key]
        OBVIOUS
      <4>2. d \in Seq(Keys) /\ d # <<>>
        BY <2>1, <3>2, <4>1, KeysOfOwn
      <4>3. trim' = [pc |-> "dropping", live |-> TRUE, drop |-> d]
        BY <1>1, <2>1, <3>2, <4>1 DEF ListEntries
      <4> QED BY <4>2, <4>3 DEF TrimTyped, TrimSet
    <3> QED BY <3>1, <3>2
  <2>3. WorkerTyped'
    BY <1>1 DEF ListEntries, AllTyped, WorkerTyped, WorkerSet
  <2> QED BY <1>1, <2>2, <2>3, Unchanged DEF ListEntries, AllTyped
<1>2. CASE DropOldest
  BY <1>2, TrimAdvances, DropsHead, Unchanged DEF DropOldest, AllTyped
<1> QED BY <1>1, <1>2

\* Activation keeps the last entries of the format it serves.
LEMMA ActivationTrims ==
    ASSUME AllTyped, NEW t \in Tabs, Activate(t)
    PROVE  /\ WorkerTyped' /\ StoreTyped' /\ worker'.version \in Versions
           /\ \A v \in Versions : ToSet(store'[v].assets) \subseteq ToSet(store[v].assets)
           /\ Len(store'[worker'.version].assets) <= MaxEntries /\ Len(store'[worker'.version].assets) \in Nat
<1>1. PICK v \in Versions : v = Ships(host.build)
  BY NumbersAreTyped DEF AllTyped, HostTyped, HostSet
<1>2. PICK s \in Seq(Entries) : s = store[v].assets /\ KeysDiffer(s)
  BY DEF AllTyped, StoreTyped, StoreSet
<1>3. PICK a : a = SubSeq(s, PlanTrim(Len(s)) + 1, Len(s))
  OBVIOUS
<1>4. a \in Seq(Entries) /\ KeysDiffer(a) /\ ToSet(a) \subseteq ToSet(s) /\ Len(a) \in Nat /\ Len(a) <= MaxEntries
  BY <1>2, <1>3, LastOnes
<1>5. store' = [store EXCEPT ![v].assets = a]
  BY <1>1, <1>2, <1>3 DEF Activate, AllTyped, StoreTyped, StoreSet
<1>6. store' \in [Versions -> StoreSet] /\ \A w \in Versions : store'[w].assets = IF w = v THEN a ELSE store[w].assets
  BY <1>4, <1>5 DEF AllTyped, StoreTyped, StoreSet
<1>7. StoreTyped'
  BY <1>4, <1>6 DEF AllTyped, StoreTyped
<1>8. worker' = [version |-> v, registered |-> TRUE, puts |-> 0, forgot |-> FALSE]
  BY <1>1 DEF Activate
<1>9. WorkerTyped' /\ worker'.version = v
  BY <1>8, NumbersAreTyped DEF WorkerTyped, WorkerSet
<1> QED BY <1>2, <1>4, <1>6, <1>7, <1>9

LEMMA LifeStepTyped ==
    ASSUME AllTyped,
           \/ \E t \in Tabs : Activate(t) \/ ResetWipes(t)
           \/ StopIdle \/ Unregister
    PROVE  AllTyped'
<1>1. ASSUME NEW t \in Tabs, Activate(t) PROVE AllTyped'
  BY <1>1, ActivationTrims, Unchanged DEF Activate, AllTyped
<1>2. ASSUME NEW t \in Tabs, ResetWipes(t) PROVE AllTyped'
  <2>1. StoreTyped'
    BY <1>2, EmptyIsTyped DEF ResetWipes, StoreTyped, AllTyped
  <2>2. ReqTyped' /\ TrimTyped'
    BY <1>2, DetachedIsTyped DEF ResetWipes
  <2>3. \A i \in Jobs : /\ job'[i] \in JobSet /\ job'[i].pc = job[i].pc
                        /\ job'[i].value = job[i].value /\ job'[i].kind = job[i].kind
    <3>1. job' = [i \in Jobs |-> [job[i] EXCEPT !.live = FALSE]]
      BY <1>2 DEF ResetWipes
    <3> QED BY <3>1 DEF AllTyped, JobTyped, JobSet
  <2>4. JobTyped'
    <3>1. job' = [i \in Jobs |-> job'[i]]
      BY <1>2 DEF ResetWipes
    <3>2. job' \in [Jobs -> JobSet]
      BY <2>3, <3>1
    <3> QED BY <2>3, <3>2 DEF AllTyped, JobTyped
  <2>5. TabsTyped'
    <3>1. \A t1 \in Tabs : tabs[t1].nav \subseteq Jobs
      BY DEF AllTyped, TabsTyped, TabSet
    <3> QED BY <1>2, <2>3, <3>1 DEF ResetWipes, AllTyped, TabsTyped
  <2> QED BY <1>2, <2>1, <2>2, <2>4, <2>5, Unchanged DEF ResetWipes, AllTyped
<1>3. CASE StopIdle
  <2>1. WorkerTyped'
    <3>1. worker' = [worker EXCEPT !.puts = 0, !.forgot = TRUE] /\ 0 \in 0..(TrimEvery - 1)
      BY <1>3, NumbersAreTyped DEF StopIdle
    <3> QED BY <3>1 DEF WorkerTyped, WorkerSet, AllTyped
  <2>2. TrimTyped'
    BY <1>3, EmptyIsTyped DEF StopIdle, TrimTyped
  <2> QED BY <1>3, <2>1, <2>2, Unchanged DEF StopIdle, AllTyped
<1>4. CASE Unregister
  <2>1. WorkerTyped'
    BY <1>4 DEF Unregister, WorkerTyped, WorkerSet, AllTyped
  <2> QED BY <1>4, <2>1, Unchanged DEF Unregister, AllTyped
<1> QED BY <1>1, <1>2, <1>3, <1>4

LEMMA TypesStay == AllTyped /\ [Next]_vars => AllTyped'
<1> SUFFICES ASSUME AllTyped, [Next]_vars PROVE AllTyped'
  OBVIOUS
<1>1. CASE UNCHANGED vars
  BY <1>1, Unchanged DEF vars, AllTyped
<1>2. ASSUME NEW b \in Builds, NEW g \in Games, HostMoves(b, g) PROVE AllTyped'
  <2>1. HostTyped'
    BY <1>2 DEF HostMoves, HostTyped, HostSet
  <2> QED BY <1>2, <2>1, Unchanged DEF HostMoves, AllTyped
<1> QED BY <1>1, <1>2, TabStepTyped, JobStepTyped, AssetStepTyped, TrimStepTyped, LifeStepTyped DEF Next

LEMMA TypesGiveTypeOK == AllTyped => TypeOK
<1> SUFFICES ASSUME AllTyped PROVE TypeOK
  OBVIOUS
<1>1. ASSUME NEW v \in Versions
      PROVE  /\ store[v].stamp \in Builds \cup {0} /\ store[v].identity \in Games \cup {0}
             /\ ToSet(store[v].assets) \subseteq Entries
             /\ KeysDiffer(store[v].assets)
  <2>1. PICK s : s = store[v].assets
    OBVIOUS
  <2>2. s \in Seq(Entries)
    BY <2>1 DEF AllTyped, StoreTyped, StoreSet
  <2>3. ToSet(s) \subseteq Entries
    BY <2>2, ElementOfSeq DEF ToSet
  <2> QED BY <2>1, <2>3 DEF AllTyped, StoreTyped, StoreSet
<1>2. trim.pc \in {"none", "listing", "dropping"} /\ ToSet(trim.drop) \subseteq Keys
  <2>1. PICK s : s = trim.drop
    OBVIOUS
  <2>2. s \in Seq(Keys) /\ trim.pc \in {"none", "listing", "dropping"}
    BY <2>1 DEF AllTyped, TrimTyped, TrimSet
  <2>3. ToSet(s) \subseteq Keys
    BY <2>2, ElementOfSeq DEF ToSet
  <2> QED BY <2>1, <2>2, <2>3
<1>3. /\ \A t \in Tabs : tabs[t].page \in {"closed", "loaded"} /\ tabs[t].had \subseteq Games
      /\ \A i \in Jobs : job[i].pc \in Pcs
  BY DEF AllTyped, TabsTyped, TabSet, JobTyped, JobSet
<1> QED BY <1>1, <1>2, <1>3 DEF TypeOK, AllTyped, HostTyped, HostSet, WorkerTyped, WorkerSet, KeysDiffer

\* The types hold whatever the number of tabs and of reconciliations; in particular
\* no cache ever has two entries of a URL, although puts, deletions, wipes and a
\* trim interleave.
THEOREM TypeCorrect == Spec => []TypeOK
<1>1. Init => AllTyped
  BY InitTyped
<1> QED BY <1>1, TypesStay, TypesGiveTypeOK, PTL DEF Spec

----------------------------------------------------------------------------
(* Nothing outlives a move.                                                *)

\* A step that only takes entries and live requests away, or adds what is not from
\* before a move, and ends no wipe.
LEMMA StaysClean ==
    ASSUME AllTyped, Clean, worker'.version = worker.version, Wiping => Wiping',
           \A v \in Versions : \A e \in ToSet(store'[v].assets) : e \in ToSet(store[v].assets) \/ ~e.before
                                                                 \/ (v = worker.version /\ Wiping),
           \A t \in Tabs : req'[t].active /\ req'[t].live =>
               ~req'[t].before \/ (req[t].active /\ req[t].live /\ req'[t].before = req[t].before)
    PROVE  Clean'
<1>1. ASSUME NEW v \in Versions, v # worker'.version \/ ~Wiping' PROVE NoneBefore(store[v].assets)'
  <2>1. NoneBefore(store[v].assets) /\ ~(v = worker.version /\ Wiping)
    BY <1>1 DEF Clean
  <2> QED BY <2>1 DEF NoneBefore
<1>2. ~Wiping' => \A t \in Tabs : req'[t].active /\ req'[t].live => ~req'[t].before
  BY DEF Clean
<1> QED BY <1>1, <1>2 DEF Clean

LEMMA InitClean == Init => Clean
BY EmptyIsTyped DEF Init, Clean, NoneBefore, NoReq

\* A job that is not in its wipe leaves the others to theirs.
LEMMA WipesGoOn ==
    ASSUME NEW i \in Jobs, job[i].pc # "wiping", \A x \in Jobs \ {i} : job'[x] = job[x]
    PROVE  Wiping => Wiping'
BY DEF Wiping

LEMMA TabsKeepClean ==
    ASSUME AllTyped, Clean, NEW t \in Tabs, Navigate(t) \/ ShowOffline(t) \/ SessionEnvelope(t)
    PROVE  Clean'
<1>1. UNCHANGED job \/ \E i \in Jobs, k \in Signals : \E value \in StampOf(k) : Starts(i, k, value)
  <2>1. "stamp" \in Signals /\ "identity" \in Signals /\ host.build \in StampOf("stamp") /\ host.game \in StampOf("identity")
    BY DEF AllTyped, HostTyped, HostSet, Signals, StampOf
  <2> QED BY <2>1 DEF Navigate, ShowOffline, SessionEnvelope
<1>2. Wiping => Wiping'
  <2>1. CASE UNCHANGED job
    BY <2>1 DEF Wiping
  <2>2. ASSUME NEW i \in Jobs, NEW k \in Signals, NEW value \in StampOf(k), Starts(i, k, value) PROVE Wiping => Wiping'
    BY <2>2, JobStarts, WipesGoOn
  <2> QED BY <1>1, <2>1, <2>2
<1>3. UNCHANGED <<worker, store, req>>
  BY DEF Navigate, ShowOffline, SessionEnvelope
<1> QED BY <1>2, <1>3, StaysClean

LEMMA JobsKeepClean ==
    ASSUME AllTyped, Clean, NEW i \in Jobs, ReadSignal(i) \/ RecordSignal(i) \/ WipeAssets(i)
    PROVE  Clean'
<1>1. CASE ReadSignal(i)
  <2>1. \A x \in Jobs \ {i} : job'[x] = job[x]
    BY <1>1 DEF ReadSignal, JobEnds, AllTyped, JobTyped
  <2>2. Wiping => Wiping'
    BY <1>1, <2>1, WipesGoOn DEF ReadSignal
  <2> QED BY <1>1, <2>2, StaysClean DEF ReadSignal
<1>2. CASE RecordSignal(i) /\ Moved(job[i].seen)
  <2>1. job' = [job EXCEPT ![i].pc = "wiping", ![i].live = FALSE] /\ UNCHANGED worker
    BY <1>2 DEF RecordSignal
  <2>2. job'[i].pc = "wiping"
    BY <2>1 DEF AllTyped, JobTyped, JobSet
  <2>3. Wiping'
    BY <2>2 DEF Wiping
  <2>4. ASSUME NEW v \in Versions, v # worker.version PROVE NoneBefore(store[v].assets)'
    BY <1>2, <2>4, StoreRecorded DEF Clean, NoneBefore
  <2> QED BY <2>1, <2>3, <2>4 DEF Clean
<1>3. CASE RecordSignal(i) /\ ~Moved(job[i].seen)
  <2>1. \A x \in Jobs \ {i} : job'[x] = job[x]
    BY <1>3 DEF RecordSignal, JobEnds, AllTyped, JobTyped
  <2>2. Wiping => Wiping'
    BY <1>3, <2>1, WipesGoOn DEF RecordSignal
  <2>3. \A v \in Versions : store'[v].assets = store[v].assets
    BY <1>3, StoreRecorded
  <2>4. \A t \in Tabs : req'[t].active = req[t].active /\ req'[t].live = req[t].live /\ req'[t].before = req[t].before
    BY <1>3 DEF RecordSignal, AllTyped, ReqTyped, ReqSet
  <2> QED BY <1>3, <2>2, <2>3, <2>4, StaysClean DEF RecordSignal
<1>4. CASE WipeAssets(i)
  <2>1. \A t \in Tabs : ~req'[t].live
    BY <1>4, DetachedIsTyped DEF WipeAssets
  <2>2. \A v \in Versions : store'[v].assets = IF v = worker.version THEN <<>> ELSE store[v].assets
    <3>1. <<>> \in Seq(Entries) /\ KeysDiffer(<<>>)
      BY DEF KeysDiffer
    <3> QED BY <1>4, <3>1, AssetsReplaced DEF WipeAssets
  <2>3. ASSUME NEW v \in Versions PROVE NoneBefore(store'[v].assets)
    <3>1. CASE v = worker.version
      BY <2>2, <3>1 DEF NoneBefore, ToSet
    <3>2. CASE v # worker.version
      BY <2>2, <3>2 DEF Clean
    <3> QED BY <3>1, <3>2
  <2> QED BY <2>1, <2>3 DEF Clean, NoneBefore
<1> QED BY <1>1, <1>2, <1>3, <1>4

LEMMA AssetsKeepClean ==
    ASSUME AllTyped, Clean, NEW t \in Tabs,
           \/ \E u \in Urls : Request(t, u)
           \/ ResponseArrives(t) \/ PutFails(t) \/ NotCacheable(t)
    PROVE  Clean'
<1>1. UNCHANGED job
  BY DEF Request, ResponseArrives, PutFails, NotCacheable
<1>2. Wiping => Wiping'
  BY <1>1 DEF Wiping
<1>3. worker'.version = worker.version
  BY PutsAreCounted, NumbersAreTyped DEF Request, ResponseArrives, PutFails, NotCacheable
<1>4. \A s \in Tabs : req'[s].active /\ req'[s].live => ~req'[s].before \/ req'[s] = req[s]
  <2>1. CASE req' = [req EXCEPT ![t] = NoReq]
    BY <2>1, EmptyIsTyped DEF AllTyped, ReqTyped
  <2>2. ASSUME NEW key, req' = [req EXCEPT ![t] = [active |-> TRUE, live |-> TRUE, key |-> key, before |-> FALSE]]
        PROVE  \A s \in Tabs : req'[s].active /\ req'[s].live => ~req'[s].before \/ req'[s] = req[s]
    BY <2>2 DEF AllTyped, ReqTyped
  <2> QED BY <2>1, <2>2 DEF Request, ResponseArrives, PutFails, NotCacheable
<1>5. CASE ResponseArrives(t) /\ StillHeld(t)
  <2>1. PICK e : e = [key |-> req[t].key, before |-> req[t].before]
    OBVIOUS
  <2>2. e \in Entries /\ \A v \in Versions : store'[v].assets = IF v = worker.version THEN Put(Own.assets, e) ELSE store[v].assets
    BY <1>5, <2>1, StoredIsPut
  <2>3. ~e.before \/ Wiping
    BY <1>5, <2>1 DEF Clean, ResponseArrives, StillHeld
  <2>4. ToSet(Put(Own.assets, e)) \subseteq ToSet(Own.assets) \cup {e}
    BY <2>2, OwnIsTyped, PutKeeps
  <2>5. ASSUME NEW v \in Versions, NEW x \in ToSet(store'[v].assets)
        PROVE  x \in ToSet(store[v].assets) \/ ~x.before \/ (v = worker.version /\ Wiping)
    BY <2>2, <2>3, <2>4 DEF Own
  <2> QED BY <1>2, <1>3, <1>4, <2>5, StaysClean
<1>6. CASE UNCHANGED store
  BY <1>2, <1>3, <1>4, <1>6, StaysClean
<1> QED BY <1>5, <1>6 DEF Request, ResponseArrives, PutFails, NotCacheable

LEMMA TrimsKeepClean ==
    ASSUME AllTyped, Clean, ListEntries \/ DropOldest
    PROVE  Clean'
<1>1. UNCHANGED <<job, req>> /\ worker'.version = worker.version
  BY DEF ListEntries, DropOldest, AllTyped, WorkerTyped, WorkerSet
<1>2. Wiping => Wiping'
  BY <1>1 DEF Wiping
<1>3. \A v \in Versions : ToSet(store'[v].assets) \subseteq ToSet(store[v].assets)
  <2>1. CASE UNCHANGED store
    BY <2>1
  <2>2. CASE DropOldest /\ trim.live
    BY <2>2, DropsHead, OwnIsTyped, WithoutKeeps DEF Own
  <2> QED BY <2>1, <2>2, DropsHead DEF ListEntries
<1> QED BY <1>1, <1>2, <1>3, StaysClean

LEMMA LifeKeepsClean ==
    ASSUME AllTyped, Clean,
           \/ \E t \in Tabs : Activate(t) \/ ResetWipes(t)
           \/ StopIdle \/ Unregister
    PROVE  Clean'
<1>1. ASSUME NEW t \in Tabs, Activate(t) PROVE Clean'
  <2>1. ~Wiping /\ UNCHANGED <<job, req>> /\ \A s \in Tabs : ~req[s].active
    BY <1>1 DEF Activate, AtRest, NoHandler, Free, Wiping
  <2>2. \A v \in Versions : NoneBefore(store[v].assets)
    BY <2>1 DEF Clean
  <2>3. \A v \in Versions : NoneBefore(store'[v].assets)
    BY <1>1, <2>2, ActivationTrims DEF NoneBefore
  <2> QED BY <2>1, <2>3 DEF Clean, NoneBefore
<1>2. ASSUME NEW t \in Tabs, ResetWipes(t) PROVE Clean'
  <2>1. \A s \in Tabs : ~req'[s].live
    BY <1>2, DetachedIsTyped DEF ResetWipes
  <2>2. \A v \in Versions : NoneBefore(store'[v].assets)
    BY <1>2, EmptyIsTyped DEF ResetWipes, NoneBefore
  <2> QED BY <2>1, <2>2 DEF Clean, NoneBefore
<1>3. CASE StopIdle \/ Unregister
  <2>1. UNCHANGED <<job, req, store>> /\ worker'.version = worker.version
    BY <1>3 DEF StopIdle, Unregister, AllTyped, WorkerTyped, WorkerSet
  <2>2. Wiping => Wiping'
    BY <2>1 DEF Wiping
  <2> QED BY <2>1, <2>2, StaysClean
<1> QED BY <1>1, <1>2, <1>3

LEMMA CleanStays == AllTyped /\ Clean /\ [Next]_vars => Clean'
<1> SUFFICES ASSUME AllTyped, Clean, [Next]_vars PROVE Clean'
  OBVIOUS
<1>1. UNCHANGED <<worker, store, req, job>> => Clean'
  BY DEF Clean, NoneBefore, Wiping
<1>2. CASE UNCHANGED vars
  BY <1>1, <1>2 DEF vars
<1>3. ASSUME NEW b \in Builds, NEW g \in Games, HostMoves(b, g) PROVE Clean'
  BY <1>1, <1>3 DEF HostMoves
<1> QED BY <1>2, <1>3, TabsKeepClean, JobsKeepClean, AssetsKeepClean, TrimsKeepClean, LifeKeepsClean DEF Next

\* Once every wipe has landed, no entry is left that was asked for before a move
\* the worker recorded, with any number of tabs, navigations, reloads and identity
\* messages reconciling at once, and whatever is fetched meanwhile (sw.js:303-311,
\* the cache opened before the request at :206-217).
THEOREM NothingOutlives == Spec => []NothingOutlivesAMove
<1>1. Init => AllTyped /\ Clean
  BY InitTyped, InitClean
<1>2. AllTyped /\ Clean /\ [Next]_vars => (AllTyped /\ Clean)'
  BY TypesStay, CleanStays
<1>3. AllTyped /\ Clean => NothingOutlivesAMove
  BY OwnIsTyped DEF Clean, NoneBefore, Wiping, NothingOutlivesAMove, Own
<1> QED BY <1>1, <1>2, <1>3, PTL DEF Spec

----------------------------------------------------------------------------
(* The budget.                                                             *)

Budgeted == Planned /\ Counted

\* A step that leaves the trim, the count and the keys of the own store alone.
LEMMA StaysBudgeted ==
    ASSUME AllTyped, Budgeted, UNCHANGED trim, worker'.version = worker.version, worker'.puts = worker.puts,
           worker'.registered => worker.registered, worker.forgot => worker'.forgot,
           Len(Own'.assets) = Len(Own.assets), KeysIn(Own'.assets) = KeysIn(Own.assets)
    PROVE  Budgeted'
BY DEF Budgeted, Planned, Counted, Dropping

\* A step after which no live trim is at work.
LEMMA NotDropping ==
    ASSUME ~Dropping', worker'.registered /\ ~worker'.forgot /\ trim'.pc # "listing" => Len(Own'.assets) <= MaxEntries + worker'.puts,
           MaxEntries \in Nat, worker'.puts \in Nat
    PROVE  Budgeted'
BY DEF Budgeted, Planned, Counted

LEMMA InitBudgeted == Init => Budgeted
BY EmptyIsTyped DEF Init, Budgeted, Planned, Counted, Dropping

LEMMA JobsKeepBudgeted ==
    ASSUME AllTyped, Budgeted, NEW i \in Jobs, ReadSignal(i) \/ RecordSignal(i) \/ WipeAssets(i)
    PROVE  Budgeted'
<1>1. CASE ReadSignal(i)
  BY <1>1, StaysBudgeted DEF ReadSignal, Own
<1>2. CASE RecordSignal(i)
  <2>1. UNCHANGED <<worker, trim>>
    BY <1>2 DEF RecordSignal
  <2>2. Len(Own'.assets) = Len(Own.assets) /\ KeysIn(Own'.assets) = KeysIn(Own.assets)
    BY <1>2, <2>1, StoreRecorded, OwnIsTyped DEF Own
  <2> QED BY <2>1, <2>2, StaysBudgeted
<1>3. CASE WipeAssets(i)
  <2>1. ~Dropping' /\ UNCHANGED worker
    BY <1>3, DetachedIsTyped DEF WipeAssets, Dropping
  <2>2. Own'.assets = <<>>
    <3>1. <<>> \in Seq(Entries) /\ KeysDiffer(<<>>)
      BY DEF KeysDiffer
    <3> QED BY <1>3, <2>1, <3>1, AssetsReplaced, OwnIsTyped DEF WipeAssets, Own
  <2>3. MaxEntries \in Nat /\ worker'.puts \in Nat /\ Len(Own'.assets) = 0
    BY <2>1, <2>2, NumbersAreTyped DEF AllTyped, WorkerTyped, WorkerSet
  <2> QED BY <2>1, <2>3, NotDropping
<1> QED BY <1>1, <1>2, <1>3

\* A put that the worker counts.
LEMMA PutsKeepBudgeted ==
    ASSUME AllTyped, Budgeted, NEW n \in Nat, NoteAssetPut(n),
           Len(Own'.assets) \in Nat, Len(Own'.assets) <= Len(Own.assets) + n, KeysIn(Own.assets) \subseteq KeysIn(Own'.assets)
    PROVE  Budgeted'
<1>1. /\ worker'.version = worker.version /\ worker'.registered = worker.registered
      /\ trim'.pc # "listing" => UNCHANGED trim
      /\ (worker.forgot => worker'.forgot)
      /\ ~worker'.forgot /\ trim'.pc # "listing" => worker'.puts = worker.puts + n
  BY PutsAreCounted
<1>2. /\ MaxEntries \in Nat /\ worker.puts \in Nat /\ Len(Own.assets) \in Nat
      /\ trim.drop \in Seq(Keys) /\ Len(trim.drop) \in Nat
  BY NumbersAreTyped, OwnIsTyped, LenProperties DEF AllTyped, WorkerTyped, WorkerSet, TrimTyped, TrimSet
<1>3. Planned'
  <2>1. trim'.pc = "dropping" => UNCHANGED trim
    BY <1>1
  <2> QED BY <2>1 DEF Budgeted, Planned, Dropping
<1>4. Counted'
  <2> SUFFICES ASSUME worker'.registered, ~worker'.forgot, trim'.pc # "listing"
               PROVE  Len(Own'.assets) <= MaxEntries + worker'.puts + (IF Dropping' THEN Len(trim'.drop) ELSE 0)
    BY DEF Counted
  <2>1. UNCHANGED trim /\ worker'.puts = worker.puts + n /\ worker.registered /\ ~worker.forgot /\ (Dropping' <=> Dropping)
    BY <1>1 DEF Dropping
  <2>2. PICK d \in Nat : d = IF Dropping THEN Len(trim.drop) ELSE 0
    BY <1>2
  <2>3. Len(Own.assets) <= MaxEntries + worker.puts + d
    BY <2>1, <2>2 DEF Budgeted, Counted
  <2>4. Len(Own'.assets) <= MaxEntries + worker'.puts + d
    <3>1. PICK a \in Nat : a = Len(Own.assets)
      BY <1>2
    <3>2. PICK b \in Nat : b = Len(Own'.assets)
      OBVIOUS
    <3>3. b <= a + n /\ a <= MaxEntries + worker.puts + d
      BY <2>3, <3>1, <3>2
    <3>4. b <= MaxEntries + (worker.puts + n) + d
      BY <1>2, <3>3
    <3> QED BY <2>1, <3>2, <3>4
  <2> QED BY <2>1, <2>2, <2>4
<1> QED BY <1>3, <1>4 DEF Budgeted

LEMMA AssetsKeepBudgeted ==
    ASSUME AllTyped, Budgeted, NEW t \in Tabs,
           \/ \E u \in Urls : Request(t, u)
           \/ ResponseArrives(t) \/ PutFails(t) \/ NotCacheable(t)
    PROVE  Budgeted'
<1>1. CASE (\E u \in Urls : Request(t, u)) \/ NotCacheable(t)
  BY <1>1, StaysBudgeted DEF Request, NotCacheable, Own
<1>2. CASE PutFails(t)
  <2>1. NoteAssetPut(TrimEvery) /\ TrimEvery \in Nat /\ UNCHANGED store
    BY <1>2, NumbersAreTyped DEF PutFails
  <2>2. Own' = Own /\ Len(Own.assets) \in Nat
    BY <2>1, PutsAreCounted, OwnIsTyped DEF Own
  <2>3. Len(Own.assets) <= Len(Own.assets) + TrimEvery
    BY <2>1, <2>2
  <2> QED BY <2>1, <2>2, <2>3, PutsKeepBudgeted
<1>3. CASE ResponseArrives(t)
  <2>1. NoteAssetPut(1) /\ worker'.version = worker.version
    BY <1>3, PutsAreCounted DEF ResponseArrives
  <2>2. /\ Len(Own'.assets) \in Nat /\ Len(Own'.assets) <= Len(Own.assets) + 1
        /\ KeysIn(Own.assets) \subseteq KeysIn(Own'.assets)
    <3>1. CASE StillHeld(t)
      <4>1. PICK e : e = [key |-> req[t].key, before |-> req[t].before]
        OBVIOUS
      <4>2. e \in Entries /\ Own'.assets = Put(Own.assets, e)
        BY <1>3, <2>1, <3>1, <4>1, StoredIsPut, OwnIsTyped DEF Own
      <4> QED BY <4>2, OwnIsTyped, PutCounts
    <3>2. CASE ~StillHeld(t)
      BY <1>3, <2>1, <3>2, OwnIsTyped DEF ResponseArrives, Own
    <3> QED BY <3>1, <3>2
  <2> QED BY <2>1, <2>2, PutsKeepBudgeted
<1> QED BY <1>1, <1>2, <1>3

LEMMA TrimsKeepBudgeted ==
    ASSUME AllTyped, Budgeted, ListEntries \/ DropOldest
    PROVE  Budgeted'
<1>1. MaxEntries \in Nat /\ worker.puts \in Nat /\ Len(Own.assets) \in Nat
  BY NumbersAreTyped, OwnIsTyped DEF AllTyped, WorkerTyped, WorkerSet
<1>2. CASE ListEntries
  <2>1. PICK n \in Nat : n = PlanTrim(Len(Own.assets)) /\ n <= Len(Own.assets) /\ Len(Own.assets) <= MaxEntries + n
    <3>1. PICK m \in Nat : m = Len(Own.assets)
      BY <1>1
    <3>2. PlanTrim(m) \in Nat /\ PlanTrim(m) <= m /\ m <= MaxEntries + PlanTrim(m)
      <4>1. CASE m > MaxEntries
        BY <1>1, <4>1 DEF PlanTrim
      <4>2. CASE ~(m > MaxEntries)
        BY <1>1, <4>2 DEF PlanTrim
      <4> QED BY <4>1, <4>2
    <3> QED BY <3>1, <3>2
  <2>2. Own' = Own /\ worker'.puts = worker.puts
    BY <1>2 DEF ListEntries, AllTyped, WorkerTyped, WorkerSet, Own
  <2>3. CASE n = 0
    <3>1. ~Dropping'
      BY <1>2, <2>1, <2>3 DEF ListEntries, NoTrim, Dropping
    <3>2. Len(Own'.assets) <= MaxEntries + worker'.puts /\ worker'.puts \in Nat
      BY <1>1, <2>1, <2>2, <2>3
    <3> QED BY <1>1, <3>1, <3>2, NotDropping
  <2>4. CASE n # 0
    <3>1. PICK d : d = [i \in 1..n |-> Own.assets[i].key]
      OBVIOUS
    <3>2. /\ Len(d) = n /\ \A i \in DOMAIN d : d[i] \in KeysIn(Own.assets)
          /\ \A i, j \in DOMAIN d : d[i] = d[j] => i = j
      <4>1. n \in Nat /\ n <= Len(Own.assets) /\ n # 0
        BY <2>1, <2>4
      <4> QED BY <3>1, <4>1, KeysOfOwn
    <3>3. trim' = [pc |-> "dropping", live |-> TRUE, drop |-> d]
      BY <1>2, <2>1, <2>4, <3>1 DEF ListEntries
    <3>4. trim'.drop = d /\ Dropping'
      BY <3>3 DEF Dropping
    <3>5. Planned'
      BY <2>2, <3>2, <3>4 DEF Planned
    <3>6. Len(Own'.assets) <= MaxEntries + worker'.puts + n
      BY <1>1, <2>1, <2>2
    <3>7. Counted'
      BY <3>2, <3>4, <3>6 DEF Counted
    <3> QED BY <3>5, <3>7 DEF Budgeted
  <2> QED BY <2>3, <2>4
<1>3. CASE DropOldest
  <2>1. PICK d : d = trim.drop
    OBVIOUS
  <2>2. /\ Len(d) \in Nat \ {0} /\ DOMAIN d = 1..Len(d) /\ Head(d) = d[1]
        /\ \/ trim' = NoTrim /\ Len(d) = 1
           \/ /\ trim'.pc = trim.pc /\ trim'.live = trim.live /\ Len(trim'.drop) = Len(d) - 1
              /\ DOMAIN trim'.drop = 1..(Len(d) - 1)
              /\ \A n \in DOMAIN trim'.drop : trim'.drop[n] = d[n + 1]
    BY <1>3, <2>1, TrimAdvances
  <2>3. UNCHANGED worker /\ trim.pc = "dropping"
    BY <1>3 DEF DropOldest
  <2>4. CASE ~trim.live
    <3>1. Own' = Own
      BY <1>3, <2>3, <2>4, DropsHead DEF Own
    <3>2. ~Dropping /\ ~Dropping'
      <4>1. CASE trim' = NoTrim
        BY <2>4, <4>1 DEF Dropping, NoTrim
      <4>2. CASE trim'.live = trim.live
        BY <2>4, <4>2 DEF Dropping
      <4> QED BY <2>2, <4>1, <4>2
    <3>3. worker'.registered /\ ~worker'.forgot => Len(Own'.assets) <= MaxEntries + worker'.puts
      BY <1>1, <2>3, <3>1, <3>2 DEF Budgeted, Counted
    <3> QED BY <1>1, <2>3, <3>2, <3>3, NotDropping
  <2>5. CASE trim.live
    <3>1. Own'.assets = Without(Own.assets, d[1])
      BY <1>3, <2>1, <2>2, <2>3, <2>5, DropsHead, OwnIsTyped DEF Own
    <3>2. /\ \A i \in DOMAIN d : d[i] \in KeysIn(Own.assets)
          /\ \A i, j \in DOMAIN d : d[i] = d[j] => i = j
      BY <2>1, <2>3, <2>5 DEF Budgeted, Planned, Dropping
    <3>3. PICK len \in Nat \ {0} : len = Len(d) /\ DOMAIN d = 1..len
      BY <2>2
    <3>4. 1 \in DOMAIN d
      BY <3>3
    <3>5. d[1] \in KeysIn(Own.assets)
      BY <3>2, <3>4
    <3>6. /\ Len(Own'.assets) = Len(Own.assets) - 1
          /\ \A k \in KeysIn(Own.assets) : k # d[1] => k \in KeysIn(Own'.assets)
      BY <3>1, <3>5, OwnIsTyped, WithoutCounts
    <3>7. worker.registered /\ ~worker.forgot => Len(Own'.assets) <= MaxEntries + worker.puts + (len - 1)
      <4>1. PICK a \in Nat : a = Len(Own.assets)
        BY <1>1
      <4>2. worker.registered /\ ~worker.forgot => a <= MaxEntries + worker.puts + len
        BY <2>1, <2>3, <2>5, <3>3, <4>1 DEF Budgeted, Counted, Dropping
      <4>3. Len(Own'.assets) = a - 1
        BY <3>6, <4>1
      <4> QED BY <1>1, <3>3, <4>2, <4>3
    <3>8. CASE trim' = NoTrim /\ Len(d) = 1
      <4>1. ~Dropping'
        BY <3>8 DEF Dropping, NoTrim
      <4>2. worker'.registered /\ ~worker'.forgot => Len(Own'.assets) <= MaxEntries + worker'.puts
        BY <1>1, <2>3, <3>3, <3>7, <3>8
      <4> QED BY <1>1, <2>3, <4>1, <4>2, NotDropping
    <3>9. CASE /\ trim'.pc = trim.pc /\ trim'.live = trim.live /\ Len(trim'.drop) = Len(d) - 1
               /\ DOMAIN trim'.drop = 1..(Len(d) - 1)
               /\ \A n \in DOMAIN trim'.drop : trim'.drop[n] = d[n + 1]
      <4>1. PICK e : e = trim'.drop
        OBVIOUS
      <4>2. DOMAIN e = 1..(len - 1) /\ \A n \in DOMAIN e : e[n] = d[n + 1]
        BY <3>3, <3>9, <4>1
      <4>3. \A n \in 1..(len - 1) : n \in Nat /\ n + 1 \in 1..len /\ n + 1 # 1
        OBVIOUS
      <4>4. \A n \in DOMAIN e : n \in Nat /\ n + 1 \in DOMAIN d /\ n + 1 # 1 /\ e[n] = d[n + 1]
        BY <3>3, <4>2, <4>3
      <4>5. \A n \in DOMAIN e : e[n] \in KeysIn(Own'.assets)
        BY <3>2, <3>4, <3>6, <4>4
      <4>6. ASSUME NEW m \in DOMAIN e, NEW n \in DOMAIN e, e[m] = e[n] PROVE m = n
        <5>1. m + 1 = n + 1
          BY <3>2, <4>4, <4>6
        <5>2. m \in Nat /\ n \in Nat
          BY <4>4
        <5> QED BY <5>1, <5>2
      <4>7. Planned'
        BY <4>1, <4>5, <4>6 DEF Planned
      <4>8. Dropping' /\ Len(trim'.drop) = len - 1
        BY <2>3, <2>5, <3>3, <3>9 DEF Dropping
      <4>9. Counted'
        BY <2>3, <3>7, <4>8 DEF Counted
      <4> QED BY <4>7, <4>9 DEF Budgeted
    <3> QED BY <2>2, <3>8, <3>9
  <2> QED BY <2>4, <2>5
<1> QED BY <1>2, <1>3

LEMMA LifeKeepsBudgeted ==
    ASSUME AllTyped, Budgeted,
           \/ \E t \in Tabs : Activate(t) \/ ResetWipes(t)
           \/ StopIdle \/ Unregister
    PROVE  Budgeted'
<1>1. MaxEntries \in Nat /\ worker.puts \in Nat
  BY NumbersAreTyped DEF AllTyped, WorkerTyped, WorkerSet
<1>2. ASSUME NEW t \in Tabs, Activate(t) PROVE Budgeted'
  <2>1. trim.pc = "none" /\ UNCHANGED trim /\ worker'.puts = 0
    BY <1>2 DEF Activate, AtRest
  <2>2. ~Dropping'
    BY <2>1 DEF Dropping
  <2>3. Len(Own'.assets) <= MaxEntries /\ Len(Own'.assets) \in Nat
    BY <1>2, ActivationTrims DEF Own
  <2>4. Len(Own'.assets) <= MaxEntries + worker'.puts
    BY <1>1, <2>1, <2>3
  <2> QED BY <1>1, <2>1, <2>2, <2>4, NotDropping
<1>3. ASSUME NEW t \in Tabs, ResetWipes(t) PROVE Budgeted'
  <2>1. ~Dropping' /\ UNCHANGED worker
    BY <1>3, DetachedIsTyped DEF ResetWipes, Dropping
  <2>2. Own' = EmptyStore
    BY <1>3, OwnIsTyped DEF ResetWipes, Own
  <2>3. Len(Own'.assets) = 0
    BY <2>2, EmptyIsTyped
  <2> QED BY <1>1, <2>1, <2>3, NotDropping
<1>4. CASE StopIdle
  <2>1. trim' = NoTrim /\ worker'.puts = 0 /\ worker'.forgot
    BY <1>4 DEF StopIdle, AllTyped, WorkerTyped, WorkerSet
  <2>2. ~Dropping'
    BY <2>1 DEF Dropping, NoTrim
  <2> QED BY <1>1, <2>1, <2>2, NotDropping
<1>5. CASE Unregister
  <2>1. /\ UNCHANGED <<trim, store>> /\ worker'.version = worker.version /\ worker'.puts = worker.puts
        /\ ~worker'.registered /\ worker'.forgot = worker.forgot
    BY <1>5 DEF Unregister, AllTyped, WorkerTyped, WorkerSet
  <2> QED BY <2>1, StaysBudgeted DEF Own
<1> QED BY <1>2, <1>3, <1>4, <1>5

LEMMA BudgetedStays == AllTyped /\ Budgeted /\ [Next]_vars => Budgeted'
<1> SUFFICES ASSUME AllTyped, Budgeted, [Next]_vars PROVE Budgeted'
  OBVIOUS
<1>1. ASSUME UNCHANGED <<worker, store, trim>> PROVE Budgeted'
  BY <1>1, StaysBudgeted DEF Own
<1>2. CASE UNCHANGED vars
  BY <1>1, <1>2 DEF vars
<1>3. ASSUME NEW b \in Builds, NEW g \in Games, HostMoves(b, g) PROVE Budgeted'
  BY <1>1, <1>3 DEF HostMoves
<1>4. ASSUME NEW t \in Tabs, Navigate(t) \/ ShowOffline(t) \/ SessionEnvelope(t) PROVE Budgeted'
  BY <1>1, <1>4 DEF Navigate, ShowOffline, SessionEnvelope
<1> QED BY <1>2, <1>3, <1>4, JobsKeepBudgeted, AssetsKeepBudgeted, TrimsKeepBudgeted, LifeKeepsBudgeted DEF Next

\* The budget is checked amortized (sw.js:220-247): what the cache has beyond it the
\* worker has counted, although puts go on while a trim lists and deletes entries
\* one by one and a wipe takes the cache away below it, unless a stopped worker or
\* a put that fell due during a trim lost the count.
THEOREM BudgetCounted == Spec => []BeyondTheBudgetIsCounted
<1>1. Init => AllTyped /\ Budgeted
  BY InitTyped, InitBudgeted
<1>2. AllTyped /\ Budgeted /\ [Next]_vars => (AllTyped /\ Budgeted)'
  BY TypesStay, BudgetedStays
<1>3. AllTyped /\ Budgeted => BeyondTheBudgetIsCounted
  <2> SUFFICES ASSUME AllTyped, Budgeted, worker.registered, ~worker.forgot, trim.pc = "none"
               PROVE  Len(Own.assets) <= MaxEntries + worker.puts
    BY DEF BeyondTheBudgetIsCounted
  <2>1. Len(Own.assets) <= MaxEntries + worker.puts + 0 /\ MaxEntries \in Nat /\ worker.puts \in Nat
    BY NumbersAreTyped DEF Budgeted, Counted, Dropping, AllTyped, WorkerTyped, WorkerSet
  <2> QED BY <2>1
<1> QED BY <1>1, <1>2, <1>3, PTL DEF Spec

=============================================================================
