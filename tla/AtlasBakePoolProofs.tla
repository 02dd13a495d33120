------------------------ MODULE AtlasBakePoolProofs ------------------------
(***************************************************************************)
(* Theorems about the bake pool, for any number of workers, pages and jobs. *)
(***************************************************************************)
EXTENDS AtlasBakePool, SequenceTheorems, FiniteSetTheorems, WellFoundedInduction, TLAPS

----------------------------------------------------------------------------
(* Sequences: the first of a set of numbers, what Keep keeps, one job less.*)

LEMMA Least ==
    ASSUME NEW T, T \subseteq Nat, T # {}
    PROVE  \E n \in T : \A m \in T : n <= m
<1>1. IsWellFoundedOn(OpToRel(<, Nat), Nat)
  BY NatLessThanWellFounded
<1>2. PICK n \in T : \A m \in T : ~(<<m, n>> \in OpToRel(<, Nat))
  BY <1>1, WFMin
<1>3. \A m \in T : ~(m < n)
  BY <1>2 DEF OpToRel
<1> QED BY <1>3

\* The recursion of Keep, as a property of a function.
KeepRec(s, ps, f) ==
    [i \in 0..Len(s) |-> IF i = 0 THEN <<>> ELSE IF s[i] \in ps THEN Append(f[i - 1], s[i]) ELSE f[i - 1]]
Kept(s, ps) == CHOOSE f : f = KeepRec(s, ps, f)

LEMMA KeepIsKept == ASSUME NEW s, NEW ps PROVE Keep(s, ps) = Kept(s, ps)[Len(s)]
BY DEF Keep, Kept, KeepRec

LEMMA KeptSteps ==
    ASSUME NEW P, NEW s \in Seq(P), NEW ps
    PROVE  \A i \in 0..Len(s) : Kept(s, ps)[i] =
              IF i = 0 THEN <<>> ELSE IF s[i] \in ps THEN Append(Kept(s, ps)[i - 1], s[i]) ELSE Kept(s, ps)[i - 1]
<1> DEFINE n == Len(s)
<1> DEFINE Upto(m, f) == \A i \in 0..m : f[i] = IF i = 0 THEN <<>> ELSE IF s[i] \in ps THEN Append(f[i - 1], s[i]) ELSE f[i - 1]
<1> DEFINE T == {m \in 0..n : ~ \E f : f = [i \in 0..m |-> f[i]] /\ Upto(m, f)}
<1>1. n \in Nat
  OBVIOUS
<1>2. T = {}
  <2> SUFFICES ASSUME T # {} PROVE FALSE
    OBVIOUS
  <2>1. T \subseteq Nat
    BY <1>1
  <2>2. PICK m \in T : \A k \in T : m <= k
    BY <2>1, Least
  <2>3. CASE m = 0
    <3>1. PICK f : f = [i \in 0..0 |-> <<>>]
      OBVIOUS
    <3>2. f = [i \in 0..m |-> f[i]] /\ Upto(m, f)
      BY <2>3, <3>1
    <3> QED BY <2>2, <3>2
  <2>4. CASE m # 0
    <3>1. m \in Nat /\ m - 1 \in 0..n /\ m - 1 \notin T /\ m <= n
      BY <1>1, <2>2, <2>4
    <3>2. PICK g : g = [i \in 0..(m - 1) |-> g[i]] /\ Upto(m - 1, g)
      BY <3>1
    <3>3. PICK last : last = IF s[m] \in ps THEN Append(g[m - 1], s[m]) ELSE g[m - 1]
      OBVIOUS
    <3>4. PICK f : f = [i \in 0..m |-> IF i = m THEN last ELSE g[i]]
      OBVIOUS
    <3>5. f = [i \in 0..m |-> f[i]]
      BY <3>4
    <3>6. Upto(m, f)
      <4> SUFFICES ASSUME NEW i \in 0..m
                   PROVE  f[i] = IF i = 0 THEN <<>> ELSE IF s[i] \in ps THEN Append(f[i - 1], s[i]) ELSE f[i - 1]
        OBVIOUS
      <4>1. CASE i = m
        <5>1. f[m] = last /\ f[m - 1] = g[m - 1]
          BY <2>4, <3>1, <3>4
        <5> QED BY <2>4, <3>3, <4>1, <5>1
      <4>2. CASE i # m
        <5>1. i \in 0..(m - 1)
          BY <3>1, <4>2
        <5>2. f[i] = g[i] /\ (i # 0 => f[i - 1] = g[i - 1])
          BY <3>1, <3>4, <5>1
        <5> QED BY <3>2, <5>1, <5>2
      <4> QED BY <4>1, <4>2
    <3> HIDE DEF Upto
    <3> QED BY <2>2, <3>5, <3>6
  <2> QED BY <2>3, <2>4
<1>3. PICK f : f = [i \in 0..n |-> f[i]] /\ Upto(n, f)
  BY <1>1, <1>2
<1>4. f = KeepRec(s, ps, f)
  <2>1. \A i \in 0..n : f[i] = KeepRec(s, ps, f)[i]
    BY <1>3 DEF KeepRec
  <2>2. KeepRec(s, ps, f) = [i \in 0..n |-> KeepRec(s, ps, f)[i]]
    BY DEF KeepRec
  <2> HIDE DEF Upto
  <2> QED BY <1>3, <2>1, <2>2
<1>5. Kept(s, ps) = KeepRec(s, ps, Kept(s, ps))
  BY <1>4 DEF Kept
<1>6. PICK h : h = Kept(s, ps)
  OBVIOUS
<1>7. h = KeepRec(s, ps, h)
  BY <1>5, <1>6
<1>8. \A i \in 0..n : KeepRec(s, ps, h)[i] = IF i = 0 THEN <<>> ELSE IF s[i] \in ps THEN Append(h[i - 1], s[i]) ELSE h[i - 1]
  BY DEF KeepRec
<1> QED BY <1>6, <1>7, <1>8

\* Keep keeps exactly the elements in the set, each as often as it was there.
LEMMA KeepKeeps ==
    ASSUME NEW P, NEW s \in Seq(P), IsInjective(s), NEW ps
    PROVE  /\ Keep(s, ps) \in Seq(P) /\ IsInjective(Keep(s, ps))
           /\ ToSet(Keep(s, ps)) = ToSet(s) \cap ps
<1> DEFINE n == Len(s)
<1> DEFINE f == Kept(s, ps)
<1> DEFINE Good(i) == f[i] \in Seq(P) /\ IsInjective(f[i]) /\ ToSet(f[i]) = {s[k] : k \in 1..i} \cap ps
<1> DEFINE T == {i \in 0..n : ~Good(i)}
<1>1. n \in Nat /\ DOMAIN s = 1..n /\ \A i \in 1..n : s[i] \in P
  BY ElementOfSeq
<1>0. \A i \in 0..n : f[i] = IF i = 0 THEN <<>> ELSE IF s[i] \in ps THEN Append(f[i - 1], s[i]) ELSE f[i - 1]
  BY KeptSteps
<1>2. T = {}
  <2> SUFFICES ASSUME T # {} PROVE FALSE
    OBVIOUS
  <2>1. PICK m \in T : \A k \in T : m <= k
    <3>1. T \subseteq Nat
      BY <1>1
    <3> HIDE DEF T
    <3> QED BY <3>1, Least
  <2>2. m \in 0..n /\ ~Good(m)
    OBVIOUS
  <2>3. CASE m = 0
    <3>1. f[0] = <<>>
      <4>1. 0 \in 0..n
        BY <1>1
      <4> HIDE DEF f
      <4> QED BY <1>0, <4>1
    <3>2. <<>> \in Seq(P) /\ IsInjective(<<>>) /\ ToSet(<<>>) = {}
      BY DEF IsInjective, ToSet
    <3>3. {s[k] : k \in 1..0} = {}
      OBVIOUS
    <3> QED BY <2>2, <2>3, <3>1, <3>2, <3>3
  <2>4. CASE m # 0
    <3>1. m \in 1..n /\ m - 1 \in 0..n
      BY <1>1, <2>2, <2>4
    <3>2. Good(m - 1)
      <4> HIDE DEF Good
      <4> QED BY <1>1, <2>1, <3>1
    <3>3. PICK g : g = f[m - 1]
      OBVIOUS
    <3>4. g \in Seq(P) /\ IsInjective(g) /\ ToSet(g) = {s[k] : k \in 1..(m - 1)} \cap ps
      BY <3>2, <3>3
    <3>5. {s[k] : k \in 1..m} = {s[k] : k \in 1..(m - 1)} \cup {s[m]}
      BY <3>1
    <3>6. s[m] \notin {s[k] : k \in 1..(m - 1)}
      BY <1>1, <3>1 DEF IsInjective
    <3>7. f[m] = IF s[m] \in ps THEN Append(g, s[m]) ELSE g
      <4> HIDE DEF f
      <4> QED BY <1>0, <2>2, <2>4, <3>3
    <3> HIDE DEF f
    <3>8. CASE s[m] \notin ps
      BY <2>2, <3>4, <3>5, <3>7, <3>8
    <3>9. CASE s[m] \in ps
      <4>1. PICK t : t = Append(g, s[m])
        OBVIOUS
      <4>2. s[m] \in P
        BY <1>1, <3>1
      <4>3. /\ t \in Seq(P) /\ DOMAIN t = 1..(Len(g) + 1) /\ Len(g) \in Nat /\ DOMAIN g = 1..Len(g)
            /\ \A i \in 1..Len(g) : t[i] = g[i]
            /\ t[Len(g) + 1] = s[m]
        BY <3>4, <4>1, <4>2
      <4>4. ToSet(t) = ToSet(g) \cup {s[m]}
        BY <4>3 DEF ToSet
      <4>5. s[m] \notin ToSet(g)
        BY <3>4, <3>6
      <4>6. IsInjective(t)
        BY <3>4, <4>3, <4>5 DEF IsInjective, ToSet
      <4>7. f[m] = t
        BY <3>7, <3>9, <4>1
      <4> QED BY <2>2, <3>4, <3>5, <3>9, <4>3, <4>4, <4>6, <4>7
    <3> QED BY <3>8, <3>9
  <2> QED BY <2>3, <2>4
<1>3. Good(n)
  BY <1>1, <1>2
<1>4. ToSet(s) = {s[k] : k \in 1..n}
  BY <1>1 DEF ToSet
<1> QED BY <1>3, <1>4, KeepIsKept

LEMMA RemovedAt ==
    ASSUME NEW S, NEW s \in Seq(S), NEW p \in 1..Len(s)
    PROVE  /\ RemoveAt(s, p) \in Seq(S) /\ Len(s) \in Nat
           /\ DOMAIN RemoveAt(s, p) = 1..(Len(s) - 1)
           /\ \A i \in 1..(Len(s) - 1) : RemoveAt(s, p)[i] = IF i < p THEN s[i] ELSE s[i + 1]
<1> DEFINE n == Len(s)
<1> DEFINE a == SubSeq(s, 1, p - 1)
<1> DEFINE b == SubSeq(s, p + 1, n)
<1>1. n \in Nat /\ p \in 1..n /\ \A i \in 1..n : s[i] \in S
  BY LenProperties, ElementOfSeq
<1>2. a \in Seq(S) /\ Len(a) = p - 1 /\ \A i \in 1..(p - 1) : a[i] = s[i]
  <2>1. \A i \in 1..(p - 1) : s[i] \in S
    BY <1>1
  <2>2. 1 \in Int /\ p - 1 \in Int
    BY <1>1
  <2>3. /\ a \in Seq(S) /\ Len(a) = IF 1 <= p - 1 THEN (p - 1) - 1 + 1 ELSE 0
        /\ \A i \in 1..((p - 1) - 1 + 1) : a[i] = s[1 + i - 1]
    BY <2>1, <2>2, SubSeqProperties
  <2> HIDE DEF a, n
  <2> QED BY <1>1, <2>3
<1>3. b \in Seq(S) /\ Len(b) = n - p /\ \A i \in 1..(n - p) : b[i] = s[p + i]
  <2>1. \A i \in (p + 1)..n : s[i] \in S
    BY <1>1
  <2>2. p + 1 \in Int /\ n \in Int
    BY <1>1
  <2>3. /\ b \in Seq(S) /\ Len(b) = IF p + 1 <= n THEN n - (p + 1) + 1 ELSE 0
        /\ \A i \in 1..(n - (p + 1) + 1) : b[i] = s[(p + 1) + i - 1]
    BY <2>1, <2>2, SubSeqProperties
  <2> HIDE DEF b, n
  <2> QED BY <1>1, <2>3
<1>4. PICK t : t = RemoveAt(s, p)
  OBVIOUS
<1>5. t = a \o b
  BY <1>4 DEF RemoveAt
<1> HIDE DEF a, b, n
<1>6. /\ t \in Seq(S) /\ Len(t) = Len(a) + Len(b)
      /\ \A i \in 1..(Len(a) + Len(b)) : t[i] = IF i <= Len(a) THEN a[i] ELSE b[i - Len(a)]
  BY <1>2, <1>3, <1>5, ConcatProperties
<1>7. Len(t) = n - 1 /\ DOMAIN t = 1..(n - 1)
  BY <1>1, <1>2, <1>3, <1>6, LenProperties
<1>8. ASSUME NEW i \in 1..(n - 1) PROVE t[i] = IF i < p THEN s[i] ELSE s[i + 1]
  <2>1. CASE i < p
    BY <1>1, <1>2, <1>3, <1>6, <2>1
  <2>2. CASE ~(i < p)
    <3>1. i - (p - 1) \in 1..(n - p) /\ p + (i - (p - 1)) = i + 1 /\ i \in 1..(Len(a) + Len(b)) /\ ~(i <= Len(a))
      BY <1>1, <1>2, <1>3, <2>2
    <3>2. t[i] = b[i - (p - 1)]
      BY <1>2, <1>6, <3>1
    <3> QED BY <1>3, <2>2, <3>1, <3>2
  <2> QED BY <2>1, <2>2
<1> QED BY <1>1, <1>4, <1>6, <1>7, <1>8 DEF n

LEMMA OneLess ==
    ASSUME NEW P, NEW s \in Seq(P), NEW p \in 1..Len(s)
    PROVE  /\ RemoveAt(s, p) \in Seq(P) /\ Len(RemoveAt(s, p)) = Len(s) - 1 /\ Len(s) \in Nat
           /\ s[p] \in P /\ s[p] \in ToSet(s)
           /\ IsInjective(s) => IsInjective(RemoveAt(s, p)) /\ ToSet(RemoveAt(s, p)) = ToSet(s) \ {s[p]}
<1> DEFINE n == Len(s)
<1>1. PICK t : t = RemoveAt(s, p)
  OBVIOUS
<1>2. /\ t \in Seq(P) /\ n \in Nat /\ DOMAIN t = 1..(n - 1) /\ DOMAIN s = 1..n /\ p \in 1..n
      /\ \A i \in 1..(n - 1) : t[i] = IF i < p THEN s[i] ELSE s[i + 1]
  BY <1>1, RemovedAt
<1>3. Len(t) = n - 1
  <2> HIDE DEF n
  <2>1. n - 1 \in Nat /\ Len(t) \in Nat /\ DOMAIN t = 1..Len(t)
    BY <1>2, LenProperties
  <2> QED BY <1>2, <2>1
<1>4. s[p] \in P /\ s[p] \in ToSet(s)
  BY <1>2, ElementOfSeq DEF ToSet
<1>5. ASSUME IsInjective(s) PROVE IsInjective(t) /\ ToSet(t) = ToSet(s) \ {s[p]}
  <2>1. ASSUME NEW i \in 1..(n - 1), NEW j \in 1..(n - 1), t[i] = t[j] PROVE i = j
    <3>1. PICK a \in 1..n : a = (IF i < p THEN i ELSE i + 1) /\ t[i] = s[a]
      BY <1>2
    <3>2. PICK b \in 1..n : b = (IF j < p THEN j ELSE j + 1) /\ t[j] = s[b]
      BY <1>2
    <3>3. a = b
      BY <1>2, <1>5, <2>1, <3>1, <3>2 DEF IsInjective
    <3> QED BY <1>2, <3>1, <3>2, <3>3
  <2>2. ASSUME NEW i \in 1..(n - 1) PROVE t[i] \in ToSet(s) \ {s[p]}
    <3>1. PICK a \in 1..n : a # p /\ t[i] = s[a]
      BY <1>2
    <3> QED BY <1>2, <1>5, <3>1 DEF IsInjective, ToSet
  <2>3. ASSUME NEW a \in 1..n, a # p PROVE s[a] \in ToSet(t)
    <3>1. CASE a < p
      <4>1. a \in 1..(n - 1) /\ t[a] = s[a]
        BY <1>2, <3>1
      <4> QED BY <1>2, <4>1 DEF ToSet
    <3>2. CASE ~(a < p)
      <4>1. a - 1 \in 1..(n - 1) /\ t[a - 1] = s[a]
        BY <1>2, <2>3, <3>2
      <4> QED BY <1>2, <4>1 DEF ToSet
    <3> QED BY <3>1, <3>2
  <2>4. IsInjective(t)
    BY <1>2, <2>1 DEF IsInjective
  <2>5. ToSet(t) \subseteq ToSet(s) \ {s[p]}
    BY <1>2, <2>2 DEF ToSet
  <2>6. ASSUME NEW x \in ToSet(s) \ {s[p]} PROVE x \in ToSet(t)
    <3>1. PICK a \in 1..n : x = s[a]
      BY <1>2 DEF ToSet
    <3> QED BY <2>3, <3>1
  <2> QED BY <2>4, <2>5, <2>6
<1> QED BY <1>1, <1>2, <1>3, <1>4, <1>5

\* A beginning of a sequence.
LEMMA BeginningIs ==
    ASSUME NEW P, NEW s \in Seq(P), NEW k \in 0..Len(s)
    PROVE  /\ SubSeq(s, 1, k) \in Seq(P) /\ Len(SubSeq(s, 1, k)) = k
           /\ \A i \in 1..k : SubSeq(s, 1, k)[i] = s[i]
           /\ ToSet(SubSeq(s, 1, k)) \subseteq ToSet(s)
           /\ k = Len(s) => SubSeq(s, 1, k) = s
<1>1. Len(s) \in Nat /\ DOMAIN s = 1..Len(s) /\ \A i \in 1..Len(s) : s[i] \in P
  BY ElementOfSeq
<1>2. PICK t : t = SubSeq(s, 1, k)
  OBVIOUS
<1>3. /\ t \in Seq(P) /\ Len(t) = IF 1 <= k THEN k - 1 + 1 ELSE 0
      /\ \A i \in 1..(k - 1 + 1) : t[i] = s[1 + i - 1]
  BY <1>1, <1>2, SubSeqProperties
<1>4. Len(t) = k /\ DOMAIN t = 1..k /\ \A i \in 1..k : t[i] = s[i]
  BY <1>1, <1>3
<1>5. ToSet(t) \subseteq ToSet(s)
  BY <1>1, <1>4 DEF ToSet
<1>6. k = Len(s) => t = s
  BY <1>1, <1>3, <1>4, SeqEqual
<1> QED BY <1>2, <1>3, <1>4, <1>5, <1>6

LEMMA TwoInOne ==
    ASSUME NEW P, NEW s \in Seq(P), NEW t \in Seq(P)
    PROVE  /\ s \o t \in Seq(P) /\ Len(s \o t) = Len(s) + Len(t) /\ Len(s) \in Nat /\ Len(t) \in Nat
           /\ \A i \in 1..Len(s) : (s \o t)[i] = s[i]
           /\ \A i \in 1..Len(t) : (s \o t)[Len(s) + i] = t[i]
           /\ ToSet(s \o t) = ToSet(s) \cup ToSet(t)
<1>1. PICK u : u = s \o t
  OBVIOUS
<1>2. PICK m \in Nat : m = Len(s)
  OBVIOUS
<1>3. PICK n \in Nat : n = Len(t)
  OBVIOUS
<1>4. /\ u \in Seq(P) /\ Len(u) = m + n /\ DOMAIN u = 1..(m + n) /\ DOMAIN s = 1..m /\ DOMAIN t = 1..n
      /\ \A i \in 1..(m + n) : u[i] = IF i <= m THEN s[i] ELSE t[i - m]
  BY <1>1, <1>2, <1>3, ConcatProperties
<1>5. \A i \in 1..m : u[i] = s[i]
  BY <1>4
<1>6. \A i \in 1..n : m + i \in 1..(m + n) /\ u[m + i] = t[i]
  BY <1>4
<1>7. ToSet(u) = ToSet(s) \cup ToSet(t)
  <2>1. ASSUME NEW i \in 1..(m + n) PROVE u[i] \in ToSet(s) \cup ToSet(t)
    <3>1. CASE i <= m
      <4>1. i \in 1..m /\ u[i] = s[i]
        BY <1>5, <3>1
      <4> QED BY <1>4, <4>1 DEF ToSet
    <3>2. CASE ~(i <= m)
      <4>1. i - m \in 1..n /\ u[i] = t[i - m]
        BY <1>4, <3>2
      <4> QED BY <1>4, <4>1 DEF ToSet
    <3> QED BY <3>1, <3>2
  <2>2. ASSUME NEW x \in ToSet(s) \cup ToSet(t) PROVE \E i \in 1..(m + n) : u[i] = x
    <3>1. CASE x \in ToSet(s)
      <4>1. PICK i \in 1..m : x = s[i]
        BY <1>4, <3>1 DEF ToSet
      <4> QED BY <1>5, <4>1
    <3>2. CASE x \in ToSet(t)
      <4>1. PICK i \in 1..n : x = t[i]
        BY <1>4, <3>2 DEF ToSet
      <4> QED BY <1>6, <4>1
    <3> QED BY <3>1, <3>2
  <2>3. ToSet(u) = {u[i] : i \in 1..(m + n)}
    BY <1>4 DEF ToSet
  <2> QED BY <2>1, <2>2, <2>3
<1> QED BY <1>1, <1>2, <1>3, <1>4, <1>5, <1>6, <1>7

LEMMA OneMore ==
    ASSUME NEW P, NEW s \in Seq(P), NEW e \in P
    PROVE  /\ Append(s, e) \in Seq(P) /\ Len(Append(s, e)) = Len(s) + 1 /\ Len(s) \in Nat
           /\ ToSet(Append(s, e)) = ToSet(s) \cup {e}
           /\ IsInjective(s) /\ e \notin ToSet(s) => IsInjective(Append(s, e))
<1>1. PICK t : t = Append(s, e)
  OBVIOUS
<1>2. /\ t \in Seq(P) /\ Len(t) = Len(s) + 1 /\ DOMAIN t = 1..(Len(s) + 1) /\ Len(s) \in Nat /\ DOMAIN s = 1..Len(s)
      /\ \A i \in 1..Len(s) : t[i] = s[i]
      /\ t[Len(s) + 1] = e
  BY <1>1
<1>3. ToSet(t) = ToSet(s) \cup {e}
  BY <1>2 DEF ToSet
<1>4. IsInjective(s) /\ e \notin ToSet(s) => IsInjective(t)
  BY <1>2 DEF IsInjective, ToSet
<1> QED BY <1>1, <1>2, <1>3, <1>4

\* The pages a worker gives up are pages it holds.
LEMMA EvictedAreHeld ==
    ASSUME NEW w \in Workers, NEW p \in Pages, held[w] \in Seq(Pages), IsInjective(held[w]), HoldSlot \in BOOLEAN
    PROVE  EvictPages(w, p) \in Seq(Pages) /\ Urls(EvictPages(w, p)) \subseteq Urls(held[w])
<1> DEFINE slot == {q \in Pages : IsHoldSlotPage(q)}
<1> DEFINE share == Keep(held[w], Pages \ slot)
<1> DEFINE order == EvictionOrder(w, share)
<1> DEFINE incoming == IF IsHoldSlotPage(p) THEN 0 ELSE Size[p]
<1> DEFINE floor == IF IsHoldSlotPage(p) THEN 1 ELSE 0
<1> DEFINE Enough(k) == \/ Len(order) - k <= floor
                        \/ Bytes(Urls(SubSeq(order, k + 1, Len(order)))) + incoming <= KeepBytes
<1> DEFINE T == {n \in 0..Len(order) : Enough(n)}
<1> DEFINE first == IF IsHoldSlotPage(p) THEN Keep(held[w], slot) ELSE <<>>
<1>1. share \in Seq(Pages) /\ IsInjective(share) /\ ToSet(share) \subseteq ToSet(held[w])
  BY KeepKeeps
<1>2. order \in Seq(Pages) /\ ToSet(order) \subseteq ToSet(held[w])
  <2>1. CASE ~HoldSlot
    BY <1>1, <2>1 DEF EvictionOrder
  <2>2. CASE HoldSlot
    <3>1. PICK a : a = Keep(share, Pages \ pinned[w])
      OBVIOUS
    <3>2. PICK b : b = Keep(share, pinned[w])
      OBVIOUS
    <3>3. a \in Seq(Pages) /\ b \in Seq(Pages) /\ ToSet(a) \subseteq ToSet(share) /\ ToSet(b) \subseteq ToSet(share)
      <4> HIDE DEF share
      <4> QED BY <1>1, <3>1, <3>2, KeepKeeps
    <3>4. order = a \o b
      BY <2>2, <3>1, <3>2 DEF EvictionOrder
    <3>5. a \o b \in Seq(Pages) /\ ToSet(a \o b) = ToSet(a) \cup ToSet(b)
      BY <3>3, TwoInOne
    <3> HIDE DEF order, share
    <3> QED BY <1>1, <3>3, <3>4, <3>5
  <2> QED BY <2>1, <2>2
<1>3. first \in Seq(Pages) /\ ToSet(first) \subseteq ToSet(held[w])
  <2>1. <<>> \in Seq(Pages) /\ ToSet(<<>>) = {}
    BY DEF ToSet
  <2> QED BY <2>1, KeepKeeps
<1>4. PICK k : k = Min(T)
  OBVIOUS
<1>5. k \in 0..Len(order)
  <2> HIDE DEF order
  <2>1. PICK n \in Nat : n = Len(order)
    BY <1>2
  <2>2. n - n <= floor
    BY <2>1
  <2>3. n \in T
    BY <2>1, <2>2
  <2>4. T \subseteq 0..n /\ T \subseteq Nat
    BY <2>1
  <2> HIDE DEF T
  <2>5. \E x \in T : \A y \in T : x <= y
    BY <2>3, <2>4, Least
  <2>6. k \in T
    BY <1>4, <2>5 DEF Min
  <2> QED BY <2>1, <2>4, <2>6
<1>6. EvictPages(w, p) = first \o SubSeq(order, 1, k)
  BY <1>4 DEF EvictPages
<1> HIDE DEF order, first
<1>7. SubSeq(order, 1, k) \in Seq(Pages) /\ ToSet(SubSeq(order, 1, k)) \subseteq ToSet(order)
  BY <1>2, <1>5, BeginningIs
<1>8. PICK a : a = first
  OBVIOUS
<1>9. PICK b : b = SubSeq(order, 1, k)
  OBVIOUS
<1>10. a \in Seq(Pages) /\ b \in Seq(Pages) /\ ToSet(a) \subseteq ToSet(held[w]) /\ ToSet(b) \subseteq ToSet(held[w])
  BY <1>2, <1>3, <1>7, <1>8, <1>9
<1>11. a \o b \in Seq(Pages) /\ ToSet(a \o b) = ToSet(a) \cup ToSet(b)
  BY <1>10, TwoInOne
<1> QED BY <1>6, <1>8, <1>9, <1>10, <1>11 DEF Urls

----------------------------------------------------------------------------
(* Types.                                                                  *)

Answer == {"none", "open", "refused", "null", "blob"}
TaskSet == [job: Jobs \cup {NoJob}, keepPage: BOOLEAN]
PumpSet == [at: 0..Len(pending), alive: SUBSET spawned, again: BOOLEAN]

LostTyped == spawned \subseteq Workers /\ dead \subseteq spawned
QueueTyped == pending \in Seq(Jobs) /\ pump \in PumpSet /\ settled \in [Jobs -> Answer]
ViewTyped ==
    /\ inFlight \in [Workers -> Jobs \cup {NoJob}] /\ pages \in [Workers -> SUBSET Pages] /\ loading \in [Workers -> SUBSET Pages]
    /\ loadsPerUrl \in [Pages -> Nat] /\ deadPages \subseteq Pages
WireTyped == out \in [Workers -> Seq(Messages)]
WorkersTyped ==
    /\ task \in [Workers -> TaskSet] /\ phase \in [Workers -> {"idle", "sent", "decoding", "encoding"}]
    /\ held \in [Workers -> Seq(Pages)]
    /\ pinned \in [Workers -> SUBSET Pages] /\ armed \in [Workers -> SUBSET Pages] /\ bad \in [Workers -> SUBSET Pages]

\* A worker holds no page twice, none that it knows to be bad, and decodes only one
\* it does not hold.
WorkerSound(w) ==
    /\ IsInjective(held[w]) /\ pinned[w] \cup armed[w] \subseteq Urls(held[w]) /\ bad[w] \cap Urls(held[w]) = {}
    /\ (phase[w] = "idle") <=> (task[w].job = NoJob)
    /\ phase[w] = "decoding" => InHand(w) \notin Urls(held[w]) \cup bad[w]
Typed ==
    /\ LostTyped /\ QueueTyped /\ ViewTyped /\ WireTyped /\ WorkersTyped
    /\ \A w \in Workers : WorkerSound(w)

LEMMA Constants ==
    /\ MaxWorkers \in Nat /\ HoldSlot \in BOOLEAN
    /\ NoJob \notin Jobs
    /\ \A j \in Jobs : PageOf(j) \in Pages
BY SizesAssumption DEF NoJob, Jobs, PageOf

LEMMA InitTyped == Init => Typed
<1> SUFFICES ASSUME Init PROVE Typed
  OBVIOUS
<1>1. LostTyped
  BY Constants DEF Init, LostTyped, Workers
<1>2. QueueTyped
  BY DEF Init, QueueTyped, PumpSet, PumpFor, Answer
<1>3. ViewTyped /\ WireTyped
  BY DEF Init, ViewTyped, WireTyped
<1>4. WorkersTyped
  BY DEF Init, WorkersTyped, TaskSet, NoTask
<1>5. ASSUME NEW w \in Workers PROVE WorkerSound(w)
  BY <1>4 DEF Init, WorkerSound, NoTask, IsInjective, Urls, ToSet
<1> QED BY <1>1, <1>2, <1>3, <1>4, <1>5 DEF Typed

LEMMA TypedIsTypeOK == Typed => TypeOK
<1> SUFFICES ASSUME Typed PROVE TypeOK
  OBVIOUS
<1>1. ASSUME NEW w \in Workers
      PROVE  /\ IsInjective(held[w])
             /\ pinned[w] \cup armed[w] \subseteq Urls(held[w]) /\ armed[w] \cap bad[w] = {}
             /\ (phase[w] = "idle") <=> (task[w].job = NoJob)
  BY DEF Typed, WorkerSound
<1> QED BY <1>1 DEF Typed, TypeOK, LostTyped, QueueTyped, ViewTyped, WireTyped, WorkersTyped, PumpSet, TaskSet, Answer

LEMMA TypesOfTheRest ==
    ASSUME Typed
    PROVE  /\ UNCHANGED <<spawned, dead>> => LostTyped'
           /\ UNCHANGED <<inFlight, pages, loading, loadsPerUrl, deadPages>> => ViewTyped'
           /\ UNCHANGED <<spawned, pending, pump, settled>> => QueueTyped'
           /\ UNCHANGED out => WireTyped'
           /\ UNCHANGED workerVars => WorkersTyped' /\ \A w \in Workers : WorkerSound(w)'
BY DEF Typed, LostTyped, ViewTyped, QueueTyped, WireTyped, WorkersTyped, WorkerSound, workerVars, PumpSet, InHand

\* The pump starts on a queue that is not empty, and stops at its end.
LEMMA PumpIsTyped ==
    ASSUME NEW s \in Seq(Jobs), NEW W, NEW ws \in SUBSET W
    PROVE  PumpFor(s, ws) \in [at: 0..Len(s), alive: SUBSET W, again: BOOLEAN]
<1>1. Len(s) \in Nat /\ (s # <<>> => Len(s) # 0)
  BY EmptySeq
<1> QED BY <1>1 DEF PumpFor

LEMMA EndIsTyped ==
    ASSUME Typed, ~Idle, pending' \in Seq(Jobs), Len(pending') = Len(pending) - 1, LostTyped', UNCHANGED <<spawned, dead>>,
           pump' = AtEnd(Len(pending'))
    PROVE  pump' \in PumpSet'
<1>1. PICK q : q = pending' /\ q \in Seq(Jobs) /\ Len(q) = Len(pending) - 1
  OBVIOUS
<1>2. pump \in PumpSet /\ pump.at # 0
  BY DEF Typed, QueueTyped, Idle
<1>3. Alive' \subseteq spawned /\ spawned' = spawned
  BY DEF Alive
<1>4. PumpFor(q, Alive') \in [at: 0..Len(q), alive: SUBSET spawned, again: BOOLEAN]
  BY <1>1, <1>3, PumpIsTyped
<1>5. PumpFor(<<>>, {}) \in [at: 0..Len(q), alive: SUBSET spawned, again: BOOLEAN]
  BY <1>1 DEF PumpFor
<1>6. pump.at <= Len(q) => pump \in [at: 0..Len(q), alive: SUBSET spawned, again: BOOLEAN]
  BY <1>1, <1>2 DEF PumpSet
<1>7. pump' \in {pump, PumpFor(q, Alive'), PumpFor(<<>>, {})} /\ (pump' = pump => pump.at <= Len(q) \/ pump' \in {PumpFor(q, Alive'), PumpFor(<<>>, {})})
  BY <1>1 DEF AtEnd
<1> QED BY <1>1, <1>4, <1>5, <1>6, <1>7 DEF PumpSet

LEMMA AskTyped ==
    ASSUME Typed, NEW j \in Jobs, bakeAtlasRegionInWorker(j)
    PROVE  Typed'
<1> USE DEF Typed
<1>1. LostTyped' /\ ViewTyped' /\ WireTyped' /\ WorkersTyped' /\ \A w \in Workers : WorkerSound(w)'
  BY TypesOfTheRest DEF bakeAtlasRegionInWorker
<1>2. QueueTyped'
  <2>1. settled' \in [Jobs -> Answer]
    BY DEF bakeAtlasRegionInWorker, QueueTyped, Answer
  <2>2. CASE UNCHANGED <<pending, pump>>
    BY <2>1, <2>2 DEF QueueTyped, PumpSet, bakeAtlasRegionInWorker
  <2>3. CASE pending' = Append(pending, j) /\ pump' = PumpFor(pending', Alive)
    <3>1. PICK q : q = Append(pending, j)
      OBVIOUS
    <3>2. q \in Seq(Jobs)
      BY <3>1, OneMore DEF QueueTyped
    <3>3. PumpFor(q, Alive) \in [at: 0..Len(q), alive: SUBSET spawned, again: BOOLEAN]
      <4>1. Alive \in SUBSET spawned
        BY DEF Alive
      <4> HIDE DEF Typed
      <4> QED BY <3>2, <4>1, PumpIsTyped
    <3> QED BY <2>1, <2>3, <3>1, <3>2, <3>3 DEF QueueTyped, PumpSet, bakeAtlasRegionInWorker
  <2> QED BY <2>2, <2>3 DEF bakeAtlasRegionInWorker
<1> QED BY <1>1, <1>2

LEMMA HereTyped ==
    ASSUME Typed, ~Idle
    PROVE  /\ pending \in Seq(Jobs) /\ pump.at \in 1..Len(pending) /\ Len(pending) \in Nat
           /\ Here \in Jobs /\ PageOf(Here) \in Pages
           /\ Rest \in Seq(Jobs) /\ Len(Rest) = Len(pending) - 1
           /\ chooseAtlasBakeWorker(PageOf(Here)) \subseteq pump.alive
           /\ pump.alive \subseteq spawned /\ spawned \subseteq Workers
<1>1. /\ pending \in Seq(Jobs) /\ Len(pending) \in Nat /\ pump.at \in 1..Len(pending)
      /\ pump.alive \subseteq spawned /\ spawned \subseteq Workers
  BY DEF Typed, QueueTyped, LostTyped, PumpSet, Idle
<1>2. /\ Here \in Jobs /\ Rest \in Seq(Jobs) /\ Len(Rest) = Len(pending) - 1
  BY <1>1, OneLess DEF Here, Rest
<1>3. PageOf(Here) \in Pages
  BY <1>2, Constants
<1>4. chooseAtlasBakeWorker(PageOf(Here)) \subseteq pump.alive
  BY DEF chooseAtlasBakeWorker
<1> QED BY <1>1, <1>2, <1>3, <1>4

\* A worker is lost, and what it was doing goes back to the queue.
LEMMA LoseTyped ==
    ASSUME Typed, NEW w \in spawned, NEW jobs \in Seq(Jobs), Lose(w, jobs), UNCHANGED <<spawned, loadsPerUrl, deadPages>>
    PROVE  LostTyped' /\ ViewTyped' /\ WireTyped' /\ pending' \in Seq(Jobs) /\ settled' \in [Jobs -> Answer]
<1> USE DEF Typed
<1>0. w \in Workers
  BY DEF LostTyped
<1>1. LostTyped'
  BY DEF Lose, Forgotten, LostTyped
<1>2. /\ inFlight' = [inFlight EXCEPT ![w] = NoJob]
      /\ pages' = [pages EXCEPT ![w] = {}] /\ loading' = [loading EXCEPT ![w] = {}]
  BY DEF Lose, Forgotten
<1>3. ViewTyped'
  BY <1>0, <1>2 DEF ViewTyped
<1>4. WireTyped'
  BY <1>0 DEF WireTyped, Lose, Forgotten
<1>5. CASE Alive \ {w} = {}
  <2>1. pending' = <<>> /\ settled' = [j \in Jobs |-> IF j \in ToSet(jobs) THEN "null" ELSE settled[j]]
    BY <1>5 DEF Lose, Settle
  <2>2. settled' \in [Jobs -> Answer]
    BY <2>1 DEF QueueTyped, Answer
  <2> QED BY <1>1, <1>3, <1>4, <2>1, <2>2
<1>6. CASE Alive \ {w} # {}
  <2>1. pending' = jobs /\ settled' = settled
    BY <1>6 DEF Lose
  <2> QED BY <1>1, <1>3, <1>4, <2>1 DEF QueueTyped
<1> QED BY <1>1, <1>3, <1>4, <1>5, <1>6

LEMMA PlaceTyped ==
    ASSUME Typed, Pumps
    PROVE  Typed'
<1> USE DEF Typed
<1>1. CASE GoesInline
  <2>1. LostTyped' /\ ViewTyped' /\ WireTyped' /\ WorkersTyped' /\ \A w \in Workers : WorkerSound(w)'
    BY <1>1, TypesOfTheRest DEF GoesInline
  <2>2. pending' = Rest /\ Rest \in Seq(Jobs) /\ Len(Rest) = Len(pending) - 1
    BY <1>1, HereTyped DEF GoesInline
  <2>3. pump' \in PumpSet'
    BY <1>1, <2>1, <2>2, EndIsTyped DEF GoesInline
  <2>4. settled' \in [Jobs -> Answer]
    BY <1>1 DEF GoesInline, Settle, QueueTyped, Answer
  <2> QED BY <2>1, <2>2, <2>3, <2>4 DEF QueueTyped
<1>2. CASE StaysPending
  <2>1. LostTyped' /\ ViewTyped' /\ WireTyped' /\ WorkersTyped' /\ \A w \in Workers : WorkerSound(w)'
    BY <1>2, TypesOfTheRest DEF StaysPending
  <2>2. pump' \in PumpSet'
    <3>1. pending' = pending /\ spawned' = spawned /\ Alive' = Alive /\ pump.at \in 1..Len(pending) /\ Len(pending) \in Nat /\ pump \in PumpSet
      BY <1>2, HereTyped DEF StaysPending, Alive, QueueTyped
    <3>2. CASE pump.at < Len(pending)
      <4>1. pump' = [pump EXCEPT !.at = pump.at + 1]
        BY <1>2, <3>2 DEF StaysPending
      <4> QED BY <3>1, <3>2, <4>1 DEF PumpSet
    <3>3. CASE ~(pump.at < Len(pending))
      <4>1. pump' \in {PumpFor(pending, Alive), PumpFor(<<>>, {})}
        BY <1>2, <3>1, <3>3 DEF StaysPending, AtEnd
      <4>2. PumpFor(pending, Alive) \in PumpSet
        BY PumpIsTyped DEF QueueTyped, LostTyped, Alive, PumpSet
      <4>3. PumpFor(<<>>, {}) \in PumpSet
        BY <3>1 DEF PumpFor, PumpSet
      <4> QED BY <3>1, <4>1, <4>2, <4>3 DEF PumpSet
    <3> QED BY <3>2, <3>3
  <2> QED BY <1>2, <2>1, <2>2 DEF StaysPending, QueueTyped
<1>3. ASSUME NEW w \in chooseAtlasBakeWorker(PageOf(Here)), ~Idle, Send(w) PROVE Typed'
  <2>1. /\ w \in Workers /\ Here \in Jobs /\ PageOf(Here) \in Pages
        /\ pending' = Rest /\ Rest \in Seq(Jobs) /\ Len(Rest) = Len(pending) - 1
    BY <1>3, HereTyped DEF Send, Placed
  <2>2. LostTyped' /\ WireTyped'
    BY <1>3, TypesOfTheRest DEF Send, Placed
  <2>3. QueueTyped'
    BY <1>3, <2>1, <2>2, EndIsTyped DEF Send, Placed, QueueTyped
  <2>4. ViewTyped'
    BY <1>3, <2>1 DEF Send, Placed, Commits, ViewTyped
  <2>5. WorkersTyped' /\ \A v \in Workers : WorkerSound(v)'
    <3>1. CASE w \in dead
      BY <1>3, <3>1, TypesOfTheRest DEF Send, Placed, workerVars
    <3>2. CASE w \notin dead
      <4>1. PICK r : r = [job |-> Here, keepPage |-> KeepPage(Here)]
        OBVIOUS
      <4>2. r \in TaskSet /\ r.job = Here
        BY <2>1, <4>1 DEF TaskSet, KeepPage
      <4>3. task' = [task EXCEPT ![w] = r] /\ phase' = [phase EXCEPT ![w] = "sent"] /\ UNCHANGED <<held, pinned, armed, bad>>
        BY <1>3, <3>2, <4>1 DEF Send, Placed
      <4>4. WorkersTyped'
        BY <4>2, <4>3 DEF WorkersTyped
      <4>5. ASSUME NEW v \in Workers PROVE WorkerSound(v)'
        BY <2>1, <4>2, <4>3, Constants DEF WorkersTyped, WorkerSound, InHand
      <4> QED BY <4>4, <4>5
    <3> QED BY <3>1, <3>2
  <2> QED BY <2>2, <2>3, <2>4, <2>5
<1>4. ASSUME NEW w \in chooseAtlasBakeWorker(PageOf(Here)), ~Idle, SendThrows(w) PROVE Typed'
  <2>1. /\ w \in Workers /\ Here \in Jobs /\ Rest \in Seq(Jobs) /\ pump \in PumpSet /\ pump.at \in 1..Len(pending)
    BY <1>4, HereTyped DEF QueueTyped
  <2>2. <<Here>> \o Rest \in Seq(Jobs)
    BY <2>1
  <2>3. WorkersTyped' /\ \A v \in Workers : WorkerSound(v)'
    BY <1>4, TypesOfTheRest DEF SendThrows
  <2>4. LostTyped' /\ ViewTyped' /\ WireTyped' /\ pending' \in Seq(Jobs) /\ settled' \in [Jobs -> Answer]
    <3>1. CASE w \in dead
      <4>1. /\ pending' = <<Here>> \o Rest /\ Commits(w)
            /\ UNCHANGED <<spawned, dead, pages, loadsPerUrl, deadPages, inFlight, settled, out>>
        BY <1>4, <3>1 DEF SendThrows
      <4>2. ViewTyped'
        BY <2>1, <4>1, HereTyped, <1>4 DEF Commits, ViewTyped
      <4> QED BY <2>2, <4>1, <4>2, TypesOfTheRest DEF QueueTyped
    <3>2. CASE w \notin dead
      <4>1. Lose(w, <<Here>> \o Rest) /\ UNCHANGED <<spawned, loadsPerUrl, deadPages>>
        BY <1>4, <3>2 DEF SendThrows
      <4> QED BY <1>4, <2>1, <2>2, <4>1, HereTyped, LoseTyped
    <3> QED BY <3>1, <3>2
  <2>5. PICK q : q = pending' /\ q \in Seq(Jobs) /\ Len(q) \in Nat
    BY <2>4
  <2>6. pump' \in PumpSet'
    <3>1. spawned' = spawned
      BY <1>4 DEF SendThrows
    <3>2. CASE pump.at <= Len(q)
      <4>1. PICK b \in BOOLEAN : b = (pump.again \/ w \notin dead)
        OBVIOUS
      <4>2. pump' = [pump EXCEPT !.again = b]
        BY <1>4, <2>5, <3>2, <4>1 DEF SendThrows
      <4> QED BY <2>1, <2>5, <3>1, <3>2, <4>2 DEF PumpSet
    <3>3. CASE ~(pump.at <= Len(q))
      <4>1. pump' = PumpFor(<<>>, {})
        BY <1>4, <2>5, <3>3 DEF SendThrows
      <4> QED BY <2>5, <3>1, <4>1 DEF PumpFor, PumpSet
    <3> QED BY <3>2, <3>3
  <2> QED BY <2>3, <2>4, <2>6 DEF QueueTyped
<1> QED BY <1>1, <1>2, <1>3, <1>4 DEF Pumps, Place

LEMMA ErrorsTyped ==
    ASSUME Typed, NEW w \in Workers, WorkerErrors(w)
    PROVE  Typed'
<1> USE DEF Typed
<1>1. w \in spawned /\ Lose(w, Orphans(w) \o pending) /\ UNCHANGED <<spawned, loadsPerUrl, deadPages, workerVars>>
  BY DEF WorkerErrors, loseWorker, Alive
<1>2. Orphans(w) \in Seq(Jobs) /\ pending \in Seq(Jobs)
  BY DEF Orphans, Busy, ViewTyped, QueueTyped
<1>3. Orphans(w) \o pending \in Seq(Jobs)
  BY <1>2
<1>4. LostTyped' /\ ViewTyped' /\ WireTyped' /\ pending' \in Seq(Jobs) /\ settled' \in [Jobs -> Answer]
  BY <1>1, <1>3, LoseTyped
<1>5. WorkersTyped' /\ \A v \in Workers : WorkerSound(v)'
  BY <1>1, TypesOfTheRest
<1>6. pump' \in PumpSet'
  <2>1. PICK q : q = pending' /\ q \in Seq(Jobs)
    BY <1>4
  <2>2. PumpFor(q, Alive \ {w}) \in [at: 0..Len(q), alive: SUBSET spawned, again: BOOLEAN]
    <3>1. PICK ws \in SUBSET spawned : ws = Alive \ {w}
      BY DEF Alive
    <3> HIDE DEF Typed
    <3>2. PumpFor(q, ws) \in [at: 0..Len(q), alive: SUBSET spawned, again: BOOLEAN]
      BY <2>1, PumpIsTyped
    <3> QED BY <3>1, <3>2
  <2> QED BY <1>1, <2>1, <2>2 DEF WorkerErrors, PumpSet
<1> QED BY <1>4, <1>5, <1>6 DEF QueueTyped

\* A message is taken off the front, or put at the end.
LEMMA FrontIs ==
    ASSUME NEW M, NEW s \in Seq(M), s # <<>>
    PROVE  /\ Head(s) \in M /\ Head(s) = s[1] /\ Tail(s) \in Seq(M) /\ Len(s) \in Nat \ {0} /\ Len(Tail(s)) = Len(s) - 1
           /\ \A i \in 1..(Len(s) - 1) : Tail(s)[i] = s[i + 1]
BY EmptySeq, HeadTailProperties, LenProperties, ElementOfSeq

LEMMA ReceiveTyped ==
    ASSUME Typed, NEW w \in Workers, out[w] # <<>>, Receive(w)
    PROVE  /\ WireTyped' /\ Head(out[w]) \in Messages
           /\ Head(out[w]).urls \subseteq Pages /\ Head(out[w]).page \in Pages /\ Head(out[w]).job \in Jobs \cup {NoJob}
<1>1. out \in [Workers -> Seq(Messages)]
  BY DEF Typed, WireTyped
<1>2. Head(out[w]) \in Messages /\ Tail(out[w]) \in Seq(Messages)
  BY <1>1, FrontIs
<1>3. out' = [out EXCEPT ![w] = Tail(out[w])]
  BY DEF Receive
<1>4. WireTyped'
  BY <1>1, <1>2, <1>3 DEF WireTyped
<1>5. PICK m \in Messages : m = Head(out[w])
  BY <1>2
<1> QED BY <1>2, <1>4, <1>5 DEF Messages

LEMMA AgainTyped ==
    ASSUME Typed, UNCHANGED <<spawned, dead, pending>>, pump' = PumpFor(pending, Alive)
    PROVE  pump' \in PumpSet' /\ LostTyped' /\ pending' \in Seq(Jobs)
<1>1. PumpFor(pending, Alive) \in PumpSet
  BY PumpIsTyped DEF Typed, QueueTyped, Alive, PumpSet
<1> QED BY <1>1 DEF Typed, QueueTyped, LostTyped, PumpSet

LEMMA AnsweredTyped ==
    ASSUME Typed, NEW w \in Workers, NEW answer \in Answer, Answered(w, answer)
    PROVE  inFlight' \in [Workers -> Jobs \cup {NoJob}] /\ settled' \in [Jobs -> Answer]
<1>1. inFlight' \in [Workers -> Jobs \cup {NoJob}]
  BY DEF Typed, ViewTyped, Answered
<1>2. settled' \in [Jobs -> Answer]
  BY DEF Typed, QueueTyped, Answered, Settle
<1> QED BY <1>1, <1>2

LEMMA MessageTyped ==
    ASSUME Typed, NEW w \in Workers, onWorkerMessage(w)
    PROVE  Typed'
<1> USE DEF Typed
<1>0. "blob" \in Answer /\ "null" \in Answer
  BY DEF Answer
<1>1. CASE OnAtlas(w)
  <2>1. PICK m : m = Head(out[w])
    OBVIOUS
  <2>2. WireTyped' /\ m.urls \subseteq Pages /\ m.page \in Pages
    BY <1>1, <2>1, ReceiveTyped DEF OnAtlas, Message
  <2>3. pump' \in PumpSet' /\ LostTyped' /\ pending' \in Seq(Jobs)
    BY <1>1, AgainTyped DEF OnAtlas
  <2>4. /\ pages' = [pages EXCEPT ![w] = m.urls] /\ loading' = [loading EXCEPT ![w] = loading[w] \ m.urls]
        /\ loadsPerUrl' = [loadsPerUrl EXCEPT ![m.page] = loadsPerUrl[m.page] + 1]
        /\ UNCHANGED <<inFlight, deadPages, settled, workerVars>>
    BY <1>1, <2>1 DEF OnAtlas
  <2>5. ViewTyped'
    BY <2>2, <2>4 DEF ViewTyped
  <2>6. WorkersTyped' /\ \A v \in Workers : WorkerSound(v)'
    BY <2>4, TypesOfTheRest
  <2> QED BY <2>2, <2>3, <2>4, <2>5, <2>6 DEF QueueTyped
<1>2. CASE OnRelease(w)
  <2>1. PICK m : m = Head(out[w])
    OBVIOUS
  <2>2. WireTyped' /\ m.urls \subseteq Pages
    BY <1>2, <2>1, ReceiveTyped DEF OnRelease, Message
  <2>3. pump' \in PumpSet' /\ LostTyped' /\ pending' \in Seq(Jobs)
    BY <1>2, AgainTyped DEF OnRelease
  <2>4. pages' = [pages EXCEPT ![w] = m.urls] /\ UNCHANGED <<inFlight, loading, loadsPerUrl, deadPages, settled, workerVars>>
    BY <1>2, <2>1 DEF OnRelease
  <2>5. ViewTyped'
    BY <2>2, <2>4 DEF ViewTyped
  <2>6. WorkersTyped' /\ \A v \in Workers : WorkerSound(v)'
    BY <2>4, TypesOfTheRest
  <2> QED BY <2>2, <2>3, <2>4, <2>5, <2>6 DEF QueueTyped
<1>3. CASE OnBlob(w)
  <2>1. WireTyped'
    BY <1>3, ReceiveTyped DEF OnBlob, Message
  <2>2. pump' \in PumpSet' /\ LostTyped' /\ pending' \in Seq(Jobs)
    BY <1>3, AgainTyped DEF OnBlob
  <2>3. inFlight' \in [Workers -> Jobs \cup {NoJob}] /\ settled' \in [Jobs -> Answer]
    BY <1>0, <1>3, AnsweredTyped DEF OnBlob
  <2>4. UNCHANGED <<pages, loading, loadsPerUrl, deadPages, workerVars>>
    BY <1>3 DEF OnBlob
  <2>5. ViewTyped'
    BY <2>3, <2>4 DEF ViewTyped
  <2>6. WorkersTyped' /\ \A v \in Workers : WorkerSound(v)'
    BY <2>4, TypesOfTheRest
  <2> QED BY <2>1, <2>2, <2>3, <2>5, <2>6 DEF QueueTyped
<1>4. CASE OnError(w)
  <2>1. PICK m : m = Head(out[w])
    OBVIOUS
  <2>2. WireTyped' /\ m.page \in Pages
    BY <1>4, <2>1, ReceiveTyped DEF OnError, Message
  <2>3. pump' \in PumpSet' /\ LostTyped' /\ pending' \in Seq(Jobs)
    BY <1>4, AgainTyped DEF OnError
  <2>4. inFlight' \in [Workers -> Jobs \cup {NoJob}] /\ settled' \in [Jobs -> Answer]
    BY <1>0, <1>4, AnsweredTyped DEF OnError
  <2>5. /\ loading' = [loading EXCEPT ![w] = loading[w] \ {m.page}]
        /\ deadPages' = IF m.atlas THEN deadPages \cup {m.page} ELSE deadPages
        /\ UNCHANGED <<pages, loadsPerUrl, workerVars>>
    BY <1>4, <2>1 DEF OnError
  <2>6. ViewTyped'
    BY <2>2, <2>4, <2>5 DEF ViewTyped
  <2>7. WorkersTyped' /\ \A v \in Workers : WorkerSound(v)'
    BY <2>5, TypesOfTheRest
  <2> QED BY <2>2, <2>3, <2>4, <2>6, <2>7 DEF QueueTyped
<1> QED BY <1>1, <1>2, <1>3, <1>4 DEF onWorkerMessage, MessageArrives

\* What WorkerSound says, of any values.
Sound(h, pin, arm, b, t, ph) ==
    /\ IsInjective(h) /\ pin \cup arm \subseteq ToSet(h) /\ b \cap ToSet(h) = {}
    /\ (ph = "idle") <=> (t.job = NoJob)
    /\ ph = "decoding" => PageOf(t.job) \notin ToSet(h) \cup b

LEMMA SoundIs == \A w \in Workers : WorkerSound(w) <=> Sound(held[w], pinned[w], armed[w], bad[w], task[w], phase[w])
BY DEF WorkerSound, Sound, Urls, InHand

\* What is left alone is put back where it was.
LEMMA LeftAlone ==
    ASSUME Typed, NEW w \in Workers
    PROVE  /\ held = [held EXCEPT ![w] = held[w]] /\ pinned = [pinned EXCEPT ![w] = pinned[w]]
           /\ armed = [armed EXCEPT ![w] = armed[w]] /\ bad = [bad EXCEPT ![w] = bad[w]]
           /\ task = [task EXCEPT ![w] = task[w]] /\ phase = [phase EXCEPT ![w] = phase[w]]
           /\ out = [out EXCEPT ![w] = out[w] \o <<>>]
           /\ held[w] \in Seq(Pages) /\ pinned[w] \in SUBSET Pages /\ armed[w] \in SUBSET Pages /\ bad[w] \in SUBSET Pages
           /\ task[w] \in TaskSet /\ phase[w] \in {"idle", "sent", "decoding", "encoding"}
           /\ Sound(held[w], pinned[w], armed[w], bad[w], task[w], phase[w])
<1>1. held \in [Workers -> Seq(Pages)] /\ task \in [Workers -> TaskSet] /\ out \in [Workers -> Seq(Messages)]
  BY DEF Typed, WorkersTyped, WireTyped
<1>2. out[w] \o <<>> = out[w]
  BY <1>1, ConcatEmptySeq
<1>3. out = [out EXCEPT ![w] = out[w] \o <<>>]
  BY <1>1, <1>2
<1>4. Sound(held[w], pinned[w], armed[w], bad[w], task[w], phase[w])
  BY SoundIs DEF Typed
<1>5. held = [held EXCEPT ![w] = held[w]] /\ task = [task EXCEPT ![w] = task[w]]
  BY <1>1
<1> QED BY <1>1, <1>3, <1>4, <1>5 DEF Typed, WorkersTyped

\* A worker that is not idle has a job, of a page.
LEMMA TaskIs ==
    ASSUME Typed, NEW w \in Workers, phase[w] # "idle"
    PROVE  task[w] \in TaskSet /\ task[w].job \in Jobs /\ task[w].keepPage \in BOOLEAN /\ InHand(w) \in Pages
<1>1. PICK t \in TaskSet : t = task[w]
  BY DEF Typed, WorkersTyped
<1>2. t.job \in Jobs \cup {NoJob} /\ t.keepPage \in BOOLEAN /\ t.job # NoJob
  BY <1>1 DEF TaskSet, Typed, WorkerSound
<1> QED BY <1>1, <1>2, Constants DEF InHand

LEMMA MsgIs ==
    ASSUME NEW type \in {"atlas", "release", "blob", "error"}, NEW p \in Pages, NEW urls \in SUBSET Pages,
           NEW j \in Jobs \cup {NoJob}, NEW atlas \in BOOLEAN
    PROVE  /\ Msg(type, p, urls, j, atlas) \in Messages
           /\ Msg(type, p, urls, j, atlas).type = type /\ Msg(type, p, urls, j, atlas).page = p
           /\ Msg(type, p, urls, j, atlas).urls = urls /\ Msg(type, p, urls, j, atlas).job = j
BY DEF Msg, Messages

\* One page after the other leaves.
LEMMA ReleasesAre ==
    ASSUME Typed, NEW w \in Workers, NEW gone \in Seq(Pages)
    PROVE  /\ Releases(w, gone) \in Seq(Messages) /\ Len(Releases(w, gone)) = Len(gone) /\ Len(gone) \in Nat
           /\ \A i \in 1..Len(gone) : Releases(w, gone)[i] = Msg("release", gone[i], After(w, gone, i), NoJob, FALSE)
<1>1. Len(gone) \in Nat /\ \A i \in 1..Len(gone) : gone[i] \in Pages
  BY ElementOfSeq
<1>2. ASSUME NEW i \in 1..Len(gone) PROVE Msg("release", gone[i], After(w, gone, i), NoJob, FALSE) \in Messages
  <2>1. After(w, gone, i) \subseteq Pages
    BY LeftAlone, ElementOfSeq DEF After, Urls, ToSet
  <2> QED BY <1>1, <2>1, MsgIs
<1>3. PICK n \in Nat : n = Len(gone)
  BY <1>1
<1>4. PICK r : r = [i \in 1..n |-> Msg("release", gone[i], After(w, gone, i), NoJob, FALSE)]
  OBVIOUS
<1>5. r \in Seq(Messages) /\ Len(r) = n
  <2>1. \A i \in 1..n : r[i] \in Messages
    BY <1>2, <1>3, <1>4
  <2>2. r = [i \in 1..n |-> r[i]]
    BY <1>4
  <2>3. r \in [1..n -> Messages]
    BY <2>1, <2>2
  <2> QED BY <1>3, <2>3
<1> QED BY <1>3, <1>4, <1>5 DEF Releases


LEMMA OneMessage == ASSUME NEW M, NEW m \in M PROVE <<m>> \in Seq(M)
OBVIOUS

----------------------------------------------------------------------------
(* What the pool knows of a worker, and what is on its way to it.          *)

Tells(m) == m.type \in {"atlas", "release"}
Ends(m) == m.type \in {"blob", "error"}
Brings(m, p) == m.type = "atlas" /\ p \in m.urls

\* What the pool will think the worker holds, after the message i of ms (0: now):
\* it misses no page for good, and in the end it counts none too many.
KnownAfter(known, ms, i) == IF i = 0 THEN known ELSE ms[i].urls
IsReport(ms, i) == i = 0 \/ Tells(ms[i])
News(known, ms, h) ==
    /\ \A i \in 0..Len(ms), p \in h :
          IsReport(ms, i) /\ p \notin KnownAfter(known, ms, i) => \E k \in 1..Len(ms) : k > i /\ Brings(ms[k], p)
    /\ \A i \in 0..Len(ms) :
          IsReport(ms, i) /\ (\A k \in 1..Len(ms) : Tells(ms[k]) => k <= i) => KnownAfter(known, ms, i) \subseteq h

\* The job the pool gave is in the worker's hand, or answered once.
OneAnswer(given, inhand, ms) ==
    /\ inhand # NoJob => given = inhand /\ \A i \in 1..Len(ms) : ~Ends(ms[i])
    /\ given # NoJob => given = inhand \/ \E i \in 1..Len(ms) : Ends(ms[i])
    /\ \A i, k \in 1..Len(ms) : Ends(ms[i]) /\ Ends(ms[k]) => i = k
    /\ \A i \in 1..Len(ms) : Ends(ms[i]) => given = ms[i].job /\ given # NoJob /\ ms[i].page = PageOf(given)

\* A page counts as being loaded for the job given, and is reported before its picture.
LoadsEnd(load, given, h, ph, ms) ==
    \A p \in load :
        /\ given # NoJob /\ p = PageOf(given)
        /\ p \in h \/ ph = "encoding" => \E k \in 1..Len(ms) : Brings(ms[k], p)
        /\ \A i \in 1..Len(ms) : ms[i].type = "blob" => \E k \in 1..Len(ms) : k < i /\ Brings(ms[k], p)

LEMMA NewsArrives ==
    ASSUME NEW ms \in Seq(Messages), ms # <<>>, NEW known, NEW h, News(known, ms, h)
    PROVE  News(IF Tells(ms[1]) THEN ms[1].urls ELSE known, Tail(ms), h)
<1>1. PICK t : t = Tail(ms)
  OBVIOUS
<1>2. PICK n \in Nat : n + 1 = Len(ms)
  BY FrontIs
<1>3. Len(t) = n /\ \A i \in 1..n : t[i] = ms[i + 1] /\ i + 1 \in 1..(n + 1)
  BY <1>1, <1>2, FrontIs
<1>4. PICK now : now = IF Tells(ms[1]) THEN ms[1].urls ELSE known
  OBVIOUS
<1>5. \A k \in 2..(n + 1) : k - 1 \in 1..n /\ t[k - 1] = ms[k]
  BY <1>3
<1>6. /\ \A i \in 0..(n + 1), p \in h :
            IsReport(ms, i) /\ p \notin KnownAfter(known, ms, i) => \E k \in 1..(n + 1) : k > i /\ Brings(ms[k], p)
      /\ \A i \in 0..(n + 1) :
            IsReport(ms, i) /\ (\A k \in 1..(n + 1) : Tells(ms[k]) => k <= i) => KnownAfter(known, ms, i) \subseteq h
  BY <1>2 DEF News
<1>7. ASSUME NEW i \in 0..n, IsReport(t, i)
      PROVE  \E j \in 0..(n + 1) : /\ IsReport(ms, j) /\ KnownAfter(known, ms, j) = KnownAfter(now, t, i) /\ (j = i + 1 \/ j = i)
                                   /\ (j = i => i = 0 /\ ~Tells(ms[1]))
  <2>1. CASE i = 0 /\ Tells(ms[1])
    <3>1. IsReport(ms, 1) /\ KnownAfter(known, ms, 1) = KnownAfter(now, t, i) /\ 1 \in 0..(n + 1)
      BY <1>4, <2>1 DEF IsReport, KnownAfter
    <3> QED BY <2>1, <3>1
  <2>2. CASE i = 0 /\ ~Tells(ms[1])
    <3>1. IsReport(ms, 0) /\ KnownAfter(known, ms, 0) = KnownAfter(now, t, i) /\ 0 \in 0..(n + 1)
      BY <1>4, <2>2 DEF IsReport, KnownAfter
    <3> QED BY <2>2, <3>1
  <2>3. CASE i # 0
    <3>1. i \in 1..n /\ i + 1 \in 0..(n + 1) /\ i + 1 # 0
      BY <2>3
    <3>2. IsReport(ms, i + 1) /\ KnownAfter(known, ms, i + 1) = KnownAfter(now, t, i)
      BY <1>3, <1>7, <2>3, <3>1 DEF IsReport, KnownAfter
    <3> QED BY <3>1, <3>2
  <2> QED BY <2>1, <2>2, <2>3
<1>8. ASSUME NEW i \in 0..n, NEW p \in h, IsReport(t, i), p \notin KnownAfter(now, t, i)
      PROVE  \E k \in 1..n : k > i /\ Brings(t[k], p)
  <2>1. PICK j \in 0..(n + 1) : /\ IsReport(ms, j) /\ KnownAfter(known, ms, j) = KnownAfter(now, t, i) /\ (j = i + 1 \/ j = i)
                                /\ (j = i => i = 0 /\ ~Tells(ms[1]))
    BY <1>7, <1>8
  <2>2. PICK k \in 1..(n + 1) : k > j /\ Brings(ms[k], p)
    BY <1>6, <1>8, <2>1
  <2>3. k # 1
    BY <2>1, <2>2 DEF Brings, Tells
  <2>4. k \in 2..(n + 1) /\ k - 1 > i
    BY <2>1, <2>2, <2>3
  <2> QED BY <1>5, <2>2, <2>4
<1>9. ASSUME NEW i \in 0..n, IsReport(t, i), \A k \in 1..n : Tells(t[k]) => k <= i
      PROVE  KnownAfter(now, t, i) \subseteq h
  <2>1. PICK j \in 0..(n + 1) : /\ IsReport(ms, j) /\ KnownAfter(known, ms, j) = KnownAfter(now, t, i) /\ (j = i + 1 \/ j = i)
                                /\ (j = i => i = 0 /\ ~Tells(ms[1]))
    BY <1>7, <1>9
  <2>2. ASSUME NEW k \in 1..(n + 1), Tells(ms[k]) PROVE k <= j
    <3>1. CASE k = 1
      BY <2>1, <2>2, <3>1
    <3>2. CASE k # 1
      <4>1. k \in 2..(n + 1)
        BY <3>2
      <4>2. k - 1 \in 1..n /\ t[k - 1] = ms[k]
        BY <1>5, <4>1
      <4>3. k - 1 <= i
        BY <1>9, <2>2, <4>2
      <4>4. j = i => k <= j
        BY <2>1, <4>2, <4>3
      <4> QED BY <2>1, <4>3, <4>4
    <3> QED BY <3>1, <3>2
  <2> QED BY <1>6, <2>1, <2>2
<1> QED BY <1>1, <1>3, <1>4, <1>8, <1>9 DEF News

LEMMA AnswerArrives ==
    ASSUME NEW ms \in Seq(Messages), ms # <<>>, NEW given, NEW inhand, OneAnswer(given, inhand, ms)
    PROVE  /\ ~Ends(ms[1]) => OneAnswer(given, inhand, Tail(ms))
           /\ Ends(ms[1]) => /\ given = ms[1].job /\ given # NoJob /\ ms[1].page = PageOf(given)
                             /\ inhand = NoJob /\ OneAnswer(NoJob, NoJob, Tail(ms))
<1>1. PICK t : t = Tail(ms)
  OBVIOUS
<1>2. PICK n \in Nat : n + 1 = Len(ms)
  BY FrontIs
<1>3. Len(t) = n /\ \A i \in 1..n : t[i] = ms[i + 1] /\ i + 1 \in 1..(n + 1)
  BY <1>1, <1>2, FrontIs
<1>4. \A k \in 2..(n + 1) : k - 1 \in 1..n /\ t[k - 1] = ms[k]
  BY <1>3
<1>5. 1 \in 1..(n + 1) /\ \A k \in 1..(n + 1) : k = 1 \/ k \in 2..(n + 1)
  OBVIOUS
<1>6. /\ inhand # NoJob => given = inhand /\ \A i \in 1..(n + 1) : ~Ends(ms[i])
      /\ given # NoJob => given = inhand \/ \E i \in 1..(n + 1) : Ends(ms[i])
      /\ \A i, k \in 1..(n + 1) : Ends(ms[i]) /\ Ends(ms[k]) => i = k
      /\ \A i \in 1..(n + 1) : Ends(ms[i]) => given = ms[i].job /\ given # NoJob /\ ms[i].page = PageOf(given)
  BY <1>2 DEF OneAnswer
<1>7. ASSUME ~Ends(ms[1]) PROVE OneAnswer(given, inhand, t)
  <2>1. inhand # NoJob => given = inhand /\ \A i \in 1..n : ~Ends(t[i])
    BY <1>3, <1>6
  <2>2. given # NoJob => given = inhand \/ \E i \in 1..n : Ends(t[i])
    <3>1. ASSUME NEW i \in 1..(n + 1), Ends(ms[i]) PROVE \E k \in 1..n : Ends(t[k])
      <4>1. i \in 2..(n + 1)
        BY <1>5, <1>7, <3>1
      <4> QED BY <1>4, <3>1, <4>1
    <3> QED BY <1>6, <3>1
  <2>3. ASSUME NEW i \in 1..n, NEW k \in 1..n, Ends(t[i]), Ends(t[k]) PROVE i = k
    <3>1. i + 1 = k + 1
      BY <1>3, <1>6, <2>3
    <3> QED BY <3>1
  <2>4. \A i \in 1..n : Ends(t[i]) => given = t[i].job /\ given # NoJob /\ t[i].page = PageOf(given)
    BY <1>3, <1>6
  <2> QED BY <1>3, <2>1, <2>2, <2>3, <2>4 DEF OneAnswer
<1>8. ASSUME Ends(ms[1])
      PROVE  /\ given = ms[1].job /\ given # NoJob /\ ms[1].page = PageOf(given)
             /\ inhand = NoJob /\ OneAnswer(NoJob, NoJob, t)
  <2>1. given = ms[1].job /\ given # NoJob /\ ms[1].page = PageOf(given) /\ inhand = NoJob
    BY <1>5, <1>6, <1>8
  <2>2. ASSUME NEW i \in 1..n PROVE ~Ends(t[i])
    <3>1. t[i] = ms[i + 1] /\ i + 1 \in 1..(n + 1) /\ i + 1 # 1
      BY <1>3
    <3> QED BY <1>5, <1>6, <1>8, <3>1
  <2> QED BY <1>3, <2>1, <2>2 DEF OneAnswer
<1> QED BY <1>1, <1>7, <1>8

LEMMA LoadArrives ==
    ASSUME NEW ms \in Seq(Messages), ms # <<>>, NEW load, NEW given, NEW h, NEW ph, LoadsEnd(load, given, h, ph, ms)
    PROVE  /\ ms[1].type = "atlas" => LoadsEnd(load \ ms[1].urls, given, h, ph, Tail(ms))
           /\ ms[1].type = "release" => LoadsEnd(load, given, h, ph, Tail(ms))
           /\ ms[1].type = "blob" => load = {}
<1>1. PICK t : t = Tail(ms)
  OBVIOUS
<1>2. PICK n \in Nat : n + 1 = Len(ms)
  BY FrontIs
<1>3. Len(t) = n /\ \A i \in 1..n : t[i] = ms[i + 1] /\ i + 1 \in 1..(n + 1)
  BY <1>1, <1>2, FrontIs
<1>4. \A k \in 2..(n + 1) : k - 1 \in 1..n /\ t[k - 1] = ms[k]
  BY <1>3
<1>5. \A p \in load :
        /\ given # NoJob /\ p = PageOf(given)
        /\ p \in h \/ ph = "encoding" => \E k \in 1..(n + 1) : Brings(ms[k], p)
        /\ \A i \in 1..(n + 1) : ms[i].type = "blob" => \E k \in 1..(n + 1) : k < i /\ Brings(ms[k], p)
  BY <1>2 DEF LoadsEnd
<1>6. ASSUME NEW l, l \subseteq load, \A p \in l : ~Brings(ms[1], p)
      PROVE  LoadsEnd(l, given, h, ph, t)
  <2> SUFFICES ASSUME NEW p \in l
               PROVE  /\ given # NoJob /\ p = PageOf(given)
                      /\ p \in h \/ ph = "encoding" => \E k \in 1..n : Brings(t[k], p)
                      /\ \A i \in 1..n : t[i].type = "blob" => \E k \in 1..n : k < i /\ Brings(t[k], p)
    BY <1>3 DEF LoadsEnd
  <2>1. p \in load /\ ~Brings(ms[1], p)
    BY <1>6
  <2>2. ASSUME NEW k \in 1..(n + 1), Brings(ms[k], p) PROVE k - 1 \in 1..n /\ Brings(t[k - 1], p)
    <3>1. k \in 2..(n + 1)
      BY <2>1, <2>2
    <3> QED BY <1>4, <2>2, <3>1
  <2>3. given # NoJob /\ p = PageOf(given)
    BY <1>5, <2>1
  <2>4. p \in h \/ ph = "encoding" => \E k \in 1..n : Brings(t[k], p)
    BY <1>5, <2>1, <2>2
  <2>5. ASSUME NEW i \in 1..n, t[i].type = "blob" PROVE \E k \in 1..n : k < i /\ Brings(t[k], p)
    <3>1. ms[i + 1].type = "blob" /\ i + 1 \in 1..(n + 1)
      BY <1>3, <2>5
    <3>2. PICK k \in 1..(n + 1) : k < i + 1 /\ Brings(ms[k], p)
      BY <1>5, <2>1, <3>1
    <3>3. k - 1 \in 1..n /\ Brings(t[k - 1], p) /\ k - 1 < i
      BY <2>2, <3>2
    <3> QED BY <3>3
  <2> QED BY <2>3, <2>4, <2>5
<1>7. ms[1].type = "atlas" => LoadsEnd(load \ ms[1].urls, given, h, ph, t)
  BY <1>6 DEF Brings
<1>8. ms[1].type = "release" => LoadsEnd(load, given, h, ph, t)
  BY <1>6 DEF Brings
<1>9. ms[1].type = "blob" => load = {}
  <2> SUFFICES ASSUME ms[1].type = "blob", NEW p \in load PROVE FALSE
    OBVIOUS
  <2>1. 1 \in 1..(n + 1) /\ \A k \in 1..(n + 1) : ~(k < 1)
    OBVIOUS
  <2> QED BY <1>5, <2>1
<1> QED BY <1>1, <1>7, <1>8, <1>9


\* What a worker that held h, and now holds hn, must say in ns about it.
Told(ns, h, hn) ==
    /\ \A p \in hn \ h : \E k \in 1..Len(ns) : Brings(ns[k], p)
    /\ \A i \in 1..Len(ns), p \in hn :
          Tells(ns[i]) /\ p \notin ns[i].urls => \E k \in 1..Len(ns) : k > i /\ Brings(ns[k], p)
    /\ \A i \in 1..Len(ns) :
          Tells(ns[i]) /\ (\A k \in 1..Len(ns) : Tells(ns[k]) => k <= i) => ns[i].urls \subseteq hn
    /\ (\A i \in 1..Len(ns) : ~Tells(ns[i])) => h \subseteq hn

LEMMA NewsPosted ==
    ASSUME NEW ms \in Seq(Messages), NEW ns \in Seq(Messages), NEW known, NEW h, NEW hn,
           News(known, ms, h), Told(ns, h, hn)
    PROVE  News(known, ms \o ns, hn)
<1>1. PICK u : u = ms \o ns
  OBVIOUS
<1>2. PICK m \in Nat : m = Len(ms)
  OBVIOUS
<1>3. PICK n \in Nat : n = Len(ns)
  OBVIOUS
<1>4. /\ Len(u) = m + n /\ \A i \in 1..m : u[i] = ms[i] /\ i \in 1..(m + n)
      /\ \A i \in 1..n : u[m + i] = ns[i] /\ m + i \in 1..(m + n) /\ m + i > m
  BY <1>1, <1>2, <1>3, TwoInOne
<1>5. \A i \in 0..(m + n) : i \in 0..m \/ (i - m \in 1..n /\ i = m + (i - m) /\ i # 0)
  OBVIOUS
<1>6. \A i \in 0..m : (IsReport(u, i) <=> IsReport(ms, i)) /\ KnownAfter(known, u, i) = KnownAfter(known, ms, i)
  BY <1>4 DEF IsReport, KnownAfter
<1>7. \A i \in 1..n : (IsReport(u, m + i) <=> Tells(ns[i])) /\ KnownAfter(known, u, m + i) = ns[i].urls
  <2> SUFFICES ASSUME NEW i \in 1..n PROVE (IsReport(u, m + i) <=> Tells(ns[i])) /\ KnownAfter(known, u, m + i) = ns[i].urls
    OBVIOUS
  <2>1. m + i # 0
    OBVIOUS
  <2> QED BY <1>4, <2>1 DEF IsReport, KnownAfter
<1>8. /\ \A i \in 0..m, p \in h :
            IsReport(ms, i) /\ p \notin KnownAfter(known, ms, i) => \E k \in 1..m : k > i /\ Brings(ms[k], p)
      /\ \A i \in 0..m :
            IsReport(ms, i) /\ (\A k \in 1..m : Tells(ms[k]) => k <= i) => KnownAfter(known, ms, i) \subseteq h
  BY <1>2 DEF News
<1>9. /\ \A p \in hn \ h : \E k \in 1..n : Brings(ns[k], p)
      /\ \A i \in 1..n, p \in hn : Tells(ns[i]) /\ p \notin ns[i].urls => \E k \in 1..n : k > i /\ Brings(ns[k], p)
      /\ \A i \in 1..n : Tells(ns[i]) /\ (\A k \in 1..n : Tells(ns[k]) => k <= i) => ns[i].urls \subseteq hn
      /\ (\A i \in 1..n : ~Tells(ns[i])) => h \subseteq hn
  BY <1>3 DEF Told
<1>10. ASSUME NEW i \in 0..(m + n), NEW p \in hn, IsReport(u, i), p \notin KnownAfter(known, u, i)
       PROVE  \E k \in 1..(m + n) : k > i /\ Brings(u[k], p)
  <2>1. CASE i \in 0..m /\ p \in h
    <3>1. PICK k \in 1..m : k > i /\ Brings(ms[k], p)
      BY <1>6, <1>8, <1>10, <2>1
    <3> QED BY <1>4, <3>1
  <2>2. CASE i \in 0..m /\ p \notin h
    <3>1. PICK k \in 1..n : Brings(ns[k], p)
      BY <1>9, <2>2
    <3>2. m + k \in 1..(m + n) /\ m + k > i /\ u[m + k] = ns[k]
      BY <1>4, <2>2
    <3> QED BY <3>1, <3>2
  <2>3. CASE i \notin 0..m
    <3>1. PICK j \in 1..n : i = m + j
      BY <1>5, <2>3
    <3>2. PICK k \in 1..n : k > j /\ Brings(ns[k], p)
      BY <1>7, <1>9, <1>10, <3>1
    <3>3. m + k \in 1..(m + n) /\ u[m + k] = ns[k]
      BY <1>4
    <3>4. k > j
      BY <3>2
    <3>5. m + k > i
      BY <3>1, <3>4
    <3> QED BY <3>2, <3>3, <3>5
  <2> QED BY <2>1, <2>2, <2>3
<1>11. ASSUME NEW i \in 0..(m + n), IsReport(u, i), \A k \in 1..(m + n) : Tells(u[k]) => k <= i
       PROVE  KnownAfter(known, u, i) \subseteq hn
  <2>1. CASE i \in 0..m
    <3>1. \A k \in 1..m : Tells(ms[k]) => k <= i
      BY <1>4, <1>11
    <3>2. ASSUME NEW k \in 1..n PROVE ~Tells(ns[k])
      <4>1. u[m + k] = ns[k] /\ m + k \in 1..(m + n) /\ ~(m + k <= i)
        BY <1>4, <2>1
      <4> QED BY <1>11, <4>1
    <3> QED BY <1>6, <1>8, <1>9, <1>11, <2>1, <3>1, <3>2
  <2>2. CASE i \notin 0..m
    <3>1. PICK j \in 1..n : i = m + j
      BY <1>5, <2>2
    <3>2. ASSUME NEW k \in 1..n, Tells(ns[k]) PROVE k <= j
      <4>1. m + k <= i
        BY <1>4, <1>11, <3>2
      <4> QED BY <3>1, <4>1
    <3> QED BY <1>7, <1>9, <1>11, <3>1, <3>2
  <2> QED BY <2>1, <2>2
<1> QED BY <1>1, <1>4, <1>10, <1>11 DEF News

\* A worker answers only for what is in its hand, last of all.
Replies(ns, inhand, next) ==
    \/ next = inhand /\ \A i \in 1..Len(ns) : ~Ends(ns[i])
    \/ /\ inhand # NoJob /\ next = NoJob /\ Len(ns) # 0
       /\ \A i \in 1..Len(ns) : Ends(ns[i]) <=> i = Len(ns)
       /\ ns[Len(ns)].job = inhand /\ ns[Len(ns)].page = PageOf(inhand)

LEMMA AnswerPosted ==
    ASSUME NEW ms \in Seq(Messages), NEW ns \in Seq(Messages), NEW given, NEW inhand, NEW next,
           OneAnswer(given, inhand, ms), Replies(ns, inhand, next)
    PROVE  OneAnswer(given, next, ms \o ns)
<1>1. PICK u : u = ms \o ns
  OBVIOUS
<1>2. PICK m \in Nat : m = Len(ms)
  OBVIOUS
<1>3. PICK n \in Nat : n = Len(ns)
  OBVIOUS
<1>4. /\ Len(u) = m + n /\ \A i \in 1..m : u[i] = ms[i] /\ i \in 1..(m + n)
      /\ \A i \in 1..n : u[m + i] = ns[i] /\ m + i \in 1..(m + n)
  BY <1>1, <1>2, <1>3, TwoInOne
<1>5. \A i \in 1..(m + n) : i \in 1..m \/ (i - m \in 1..n /\ i = m + (i - m))
  OBVIOUS
<1>6. /\ inhand # NoJob => given = inhand /\ \A i \in 1..m : ~Ends(ms[i])
      /\ given # NoJob => given = inhand \/ \E i \in 1..m : Ends(ms[i])
      /\ \A i, k \in 1..m : Ends(ms[i]) /\ Ends(ms[k]) => i = k
      /\ \A i \in 1..m : Ends(ms[i]) => given = ms[i].job /\ given # NoJob /\ ms[i].page = PageOf(given)
  BY <1>2 DEF OneAnswer
<1>7. ASSUME next = inhand, \A i \in 1..n : ~Ends(ns[i]) PROVE OneAnswer(given, next, u)
  <2>1. \A i \in 1..(m + n) : Ends(u[i]) => i \in 1..m /\ u[i] = ms[i]
    BY <1>4, <1>5, <1>7
  <2>2. \A i \in 1..m : Ends(ms[i]) => Ends(u[i]) /\ i \in 1..(m + n)
    BY <1>4
  <2>3. inhand # NoJob => given = inhand /\ \A i \in 1..(m + n) : ~Ends(u[i])
    BY <1>6, <2>1
  <2>4. given # NoJob => given = inhand \/ \E i \in 1..(m + n) : Ends(u[i])
    BY <1>6, <2>2
  <2>5. \A i, k \in 1..(m + n) : Ends(u[i]) /\ Ends(u[k]) => i = k
    BY <1>6, <2>1
  <2>6. \A i \in 1..(m + n) : Ends(u[i]) => given = u[i].job /\ given # NoJob /\ u[i].page = PageOf(given)
    BY <1>6, <2>1
  <2> QED BY <1>4, <1>7, <2>3, <2>4, <2>5, <2>6 DEF OneAnswer
<1>8. ASSUME inhand # NoJob, next = NoJob, n # 0, \A i \in 1..n : Ends(ns[i]) <=> i = n,
             ns[n].job = inhand, ns[n].page = PageOf(inhand)
      PROVE  OneAnswer(given, next, u)
  <2>1. given = inhand /\ \A i \in 1..m : ~Ends(u[i])
    BY <1>4, <1>6, <1>8
  <2>2. ASSUME NEW i \in 1..(m + n) PROVE Ends(u[i]) <=> i = m + n
    <3>1. CASE i \in 1..m
      <4>1. i # m + n
        BY <1>8, <3>1
      <4> QED BY <2>1, <3>1, <4>1
    <3>2. CASE i \notin 1..m
      <4>1. PICK j \in 1..n : i = m + j
        BY <1>5, <3>2
      <4>2. u[i] = ns[j] /\ (j = n <=> i = m + n)
        BY <1>4, <4>1
      <4> QED BY <1>8, <4>2
    <3> QED BY <3>1, <3>2
  <2>3. m + n \in 1..(m + n) /\ u[m + n] = ns[n]
    <3>1. n \in 1..n
      BY <1>8
    <3> QED BY <1>4, <3>1
  <2> QED BY <1>4, <1>8, <2>1, <2>2, <2>3 DEF OneAnswer
<1> QED BY <1>1, <1>3, <1>7, <1>8 DEF Replies

LEMMA LoadPosted ==
    ASSUME NEW ms \in Seq(Messages), NEW ns \in Seq(Messages), NEW load, NEW given, NEW h, NEW hn, NEW ph, NEW phn,
           LoadsEnd(load, given, h, ph, ms),
           \A p \in load : p \in hn \/ phn = "encoding" => \/ p \in h \/ ph = "encoding"
                                                           \/ \E k \in 1..Len(ns) : Brings(ns[k], p),
           \A i \in 1..Len(ns) : ns[i].type = "blob" => ph = "encoding"
    PROVE  LoadsEnd(load, given, hn, phn, ms \o ns)
<1>1. PICK u : u = ms \o ns
  OBVIOUS
<1>2. PICK m \in Nat : m = Len(ms)
  OBVIOUS
<1>3. PICK n \in Nat : n = Len(ns)
  OBVIOUS
<1>4. /\ Len(u) = m + n /\ \A i \in 1..m : u[i] = ms[i] /\ i \in 1..(m + n)
      /\ \A i \in 1..n : u[m + i] = ns[i] /\ m + i \in 1..(m + n)
  BY <1>1, <1>2, <1>3, TwoInOne
<1>5. \A i \in 1..(m + n) : i \in 1..m \/ (i - m \in 1..n /\ i = m + (i - m))
  OBVIOUS
<1>6. \A p \in load :
        /\ given # NoJob /\ p = PageOf(given)
        /\ p \in h \/ ph = "encoding" => \E k \in 1..m : Brings(ms[k], p)
        /\ \A i \in 1..m : ms[i].type = "blob" => \E k \in 1..m : k < i /\ Brings(ms[k], p)
  BY <1>2 DEF LoadsEnd
<1> SUFFICES ASSUME NEW p \in load
             PROVE  /\ given # NoJob /\ p = PageOf(given)
                    /\ p \in hn \/ phn = "encoding" => \E k \in 1..(m + n) : Brings(u[k], p)
                    /\ \A i \in 1..(m + n) : u[i].type = "blob" => \E k \in 1..(m + n) : k < i /\ Brings(u[k], p)
  BY <1>1, <1>4 DEF LoadsEnd
<1>7. given # NoJob /\ p = PageOf(given)
  BY <1>6
<1>8. ASSUME p \in hn \/ phn = "encoding" PROVE \E k \in 1..(m + n) : Brings(u[k], p)
  <2>1. CASE p \in h \/ ph = "encoding"
    <3>1. PICK k \in 1..m : Brings(ms[k], p)
      BY <1>6, <2>1
    <3> QED BY <1>4, <3>1
  <2>2. CASE \E k \in 1..n : Brings(ns[k], p)
    BY <1>4, <2>2
  <2> QED BY <1>3, <1>8, <2>1, <2>2
<1>9. ASSUME NEW i \in 1..(m + n), u[i].type = "blob" PROVE \E k \in 1..(m + n) : k < i /\ Brings(u[k], p)
  <2>1. CASE i \in 1..m
    <3>1. PICK k \in 1..m : k < i /\ Brings(ms[k], p)
      BY <1>4, <1>6, <1>9, <2>1
    <3> QED BY <1>4, <3>1
  <2>2. CASE i \notin 1..m
    <3>1. PICK j \in 1..n : i = m + j
      BY <1>5, <2>2
    <3>2. ns[j].type = "blob"
      BY <1>4, <1>9, <3>1
    <3>3. ph = "encoding"
      BY <1>3, <3>2
    <3>4. PICK k \in 1..m : Brings(ms[k], p)
      BY <1>6, <3>3
    <3>5. k < i /\ k \in 1..(m + n) /\ u[k] = ms[k]
      BY <1>4, <3>1, <3>4
    <3> QED BY <3>4, <3>5
  <2> QED BY <2>1, <2>2
<1> QED BY <1>7, <1>8, <1>9


LEMMA NothingSaid == \A h, j : Told(<<>>, h, h) /\ Replies(<<>>, j, j)
BY DEF Told, Replies

LEMMA OnlyAReply ==
    ASSUME NEW m \in Messages, Ends(m), NEW j, j # NoJob, m.job = j, m.page = PageOf(j), NEW h
    PROVE  Told(<<m>>, h, h) /\ Replies(<<m>>, j, NoJob)
<1>1. PICK s : s = <<m>>
  OBVIOUS
<1>2. Len(s) = 1 /\ s[1] = m /\ \A i \in 1..1 : i = 1
  BY <1>1
<1>3. ~Tells(m)
  BY DEF Ends, Tells
<1>4. Told(s, h, h)
  BY <1>2, <1>3 DEF Told
<1>5. Replies(s, j, NoJob)
  BY <1>2 DEF Replies
<1> QED BY <1>1, <1>4, <1>5

LEMMA OnlyARelease ==
    ASSUME NEW m \in Messages, m.type = "release", NEW j, NEW h, NEW hn, m.urls = hn, hn \subseteq h
    PROVE  Told(<<m>>, h, hn) /\ Replies(<<m>>, j, j)
<1>1. PICK s : s = <<m>>
  OBVIOUS
<1>2. Len(s) = 1 /\ s[1] = m /\ \A i \in 1..1 : i = 1
  BY <1>1
<1>3. ~Ends(m)
  BY DEF Ends
<1>4. Told(s, h, hn)
  <2>1. hn \ h = {}
    OBVIOUS
  <2>2. \A i \in 1..1 : Tells(s[i]) /\ s[i].urls = hn
    BY <1>2 DEF Tells
  <2>3. 1 \in 1..1
    OBVIOUS
  <2> QED BY <1>2, <2>1, <2>2, <2>3 DEF Told
<1>5. Replies(s, j, j)
  BY <1>2, <1>3 DEF Replies
<1> QED BY <1>1, <1>4, <1>5

LEMMA AtTheEnd ==
    ASSUME NEW M, NEW s \in Seq(M), NEW m \in M
    PROVE  /\ Append(s, m) \in Seq(M) /\ Len(Append(s, m)) = Len(s) + 1 /\ Len(s) \in Nat
           /\ \A i \in 1..Len(s) : Append(s, m)[i] = s[i]
           /\ Append(s, m)[Len(s) + 1] = m
OBVIOUS

\* Some pages are given up, one after the other, and the last message tells
\* of the new page or of the failure.
LEMMA ReleasesAndOne ==
    ASSUME Typed, NEW w \in Workers, NEW gone \in Seq(Pages), ToSet(gone) \subseteq ToSet(held[w]), NEW m \in Messages
    PROVE  /\ Append(Releases(w, gone), m) \in Seq(Messages)
           /\ \A p \in Pages : \A j :
                 m.type = "atlas" /\ m.urls = (ToSet(held[w]) \ ToSet(gone)) \cup {p} =>
                   /\ Told(Append(Releases(w, gone), m), ToSet(held[w]), m.urls)
                   /\ Replies(Append(Releases(w, gone), m), j, j)
                   /\ \E k \in 1..Len(Append(Releases(w, gone), m)) : Brings(Append(Releases(w, gone), m)[k], p)
           /\ \A j :
                 Ends(m) /\ j # NoJob /\ m.job = j /\ m.page = PageOf(j) =>
                   /\ Told(Append(Releases(w, gone), m), ToSet(held[w]), ToSet(held[w]) \ ToSet(gone))
                   /\ Replies(Append(Releases(w, gone), m), j, NoJob)
           /\ \A i \in 1..Len(Append(Releases(w, gone), m)) : Append(Releases(w, gone), m)[i].type = "blob" => m.type = "blob"
<1>1. PICK r : r = Releases(w, gone)
  OBVIOUS
<1>2. PICK n \in Nat : n = Len(gone)
  BY ReleasesAre
<1>3. PICK o : o = ToSet(held[w])
  OBVIOUS
<1>4. PICK left : left = o \ ToSet(gone)
  OBVIOUS
<1>5. r \in Seq(Messages) /\ Len(r) = n
  BY <1>1, <1>2, ReleasesAre
<1>6. ASSUME NEW i \in 1..n
      PROVE  /\ r[i].type = "release" /\ left \subseteq r[i].urls /\ r[i].urls \subseteq o
             /\ i = n => r[i].urls = left
  <2>1. r[i] = Msg("release", gone[i], After(w, gone, i), NoJob, FALSE)
    BY <1>1, <1>2, ReleasesAre
  <2>2. r[i].type = "release" /\ r[i].urls = After(w, gone, i)
    BY <2>1 DEF Msg
  <2>3. i \in 0..Len(gone)
    BY <1>2
  <2>4. ToSet(SubSeq(gone, 1, i)) \subseteq ToSet(gone) /\ (i = n => SubSeq(gone, 1, i) = gone)
    BY <1>2, <2>3, BeginningIs
  <2>5. After(w, gone, i) = o \ ToSet(SubSeq(gone, 1, i))
    BY <1>3 DEF After, Urls
  <2> QED BY <1>4, <2>2, <2>4, <2>5
<1>7. PICK ms : ms = Append(r, m)
  OBVIOUS
<1>8. ms \in Seq(Messages) /\ Len(ms) = n + 1 /\ (\A i \in 1..n : ms[i] = r[i]) /\ ms[n + 1] = m
  BY <1>5, <1>7, AtTheEnd
<1>9. \A i \in 1..(n + 1) : i \in 1..n \/ i = n + 1
  OBVIOUS
<1>10. n + 1 \in 1..(n + 1) /\ (\A i \in 1..n : i \in 1..(n + 1) /\ n + 1 > i /\ ~(n + 1 <= i)) /\ (n # 0 => n \in 1..n)
  OBVIOUS
<1>11. \A i \in 1..n : Tells(ms[i]) /\ ~Ends(ms[i]) /\ left \subseteq ms[i].urls /\ ms[i].urls \subseteq o /\ (i = n => ms[i].urls = left)
  BY <1>6, <1>8 DEF Tells, Ends
<1>12. ASSUME NEW p \in Pages, NEW j, m.type = "atlas", m.urls = left \cup {p}
       PROVE  Told(ms, o, m.urls) /\ Replies(ms, j, j) /\ \E k \in 1..(n + 1) : Brings(ms[k], p)
  <2>1. Brings(ms[n + 1], p) /\ Tells(m) /\ ~Ends(m)
    BY <1>8, <1>12 DEF Brings, Tells, Ends
  <2>2. \A q \in m.urls \ o : \E k \in 1..(n + 1) : Brings(ms[k], q)
    BY <1>4, <1>10, <1>12, <2>1
  <2>3. ASSUME NEW i \in 1..(n + 1), NEW q \in m.urls, q \notin ms[i].urls
        PROVE  \E k \in 1..(n + 1) : k > i /\ Brings(ms[k], q)
    <3>1. i # n + 1
      BY <1>8, <2>3
    <3>2. i \in 1..n
      BY <1>9, <3>1
    <3>3. q = p
      BY <1>11, <1>12, <2>3, <3>2
    <3> QED BY <1>10, <2>1, <3>2, <3>3
  <2>4. ASSUME NEW i \in 1..(n + 1), \A k \in 1..(n + 1) : Tells(ms[k]) => k <= i PROVE ms[i].urls \subseteq m.urls
    <3>1. i = n + 1
      BY <1>8, <1>9, <1>10, <2>1, <2>4
    <3> QED BY <1>8, <3>1
  <2>5. \E i \in 1..(n + 1) : Tells(ms[i])
    BY <1>8, <1>10, <2>1
  <2>6. Told(ms, o, m.urls)
    BY <1>8, <2>2, <2>3, <2>4, <2>5 DEF Told
  <2>7. \A i \in 1..(n + 1) : ~Ends(ms[i])
    BY <1>8, <1>9, <1>11, <2>1
  <2> QED BY <1>8, <1>10, <2>1, <2>6, <2>7 DEF Replies
<1>13. ASSUME NEW j, Ends(m), j # NoJob, m.job = j, m.page = PageOf(j)
       PROVE  Told(ms, o, left) /\ Replies(ms, j, NoJob)
  <2>1. ~Tells(m) /\ \A q : ~Brings(m, q)
    BY <1>13 DEF Tells, Ends, Brings
  <2>2. left \subseteq o
    BY <1>4
  <2>3. \A i \in 1..(n + 1), q \in left : Tells(ms[i]) => q \in ms[i].urls
    BY <1>8, <1>9, <1>11, <2>1
  <2>4. ASSUME NEW i \in 1..(n + 1), Tells(ms[i]), \A k \in 1..(n + 1) : Tells(ms[k]) => k <= i PROVE ms[i].urls \subseteq left
    <3>1. i \in 1..n
      BY <1>8, <1>9, <2>1, <2>4
    <3>2. n # 0 /\ n \in 1..n
      BY <3>1
    <3>3. n <= i
      BY <1>10, <1>11, <2>4, <3>2
    <3>4. i = n
      BY <3>1, <3>3
    <3> QED BY <1>11, <3>1, <3>4
  <2>5. ASSUME \A i \in 1..(n + 1) : ~Tells(ms[i]) PROVE o \subseteq left
    <3>1. n = 0
      BY <1>10, <1>11, <2>5
    <3>2. ToSet(gone) = {}
      <4>1. DOMAIN gone = 1..Len(gone) /\ Len(gone) = 0
        BY <1>2, <3>1, LenProperties
      <4> QED BY <4>1 DEF ToSet
    <3> QED BY <1>4, <3>2
  <2>6. Told(ms, o, left)
    BY <1>8, <2>2, <2>3, <2>4, <2>5 DEF Told
  <2>7. \A i \in 1..(n + 1) : Ends(ms[i]) <=> i = n + 1
    BY <1>8, <1>9, <1>10, <1>11, <1>13
  <2>8. n + 1 # 0
    OBVIOUS
  <2>9. Replies(ms, j, NoJob)
    BY <1>8, <1>13, <2>7, <2>8 DEF Replies
  <2> QED BY <2>6, <2>9
<1>14. \A i \in 1..(n + 1) : ms[i].type = "blob" => m.type = "blob"
  BY <1>6, <1>8, <1>9
<1>15. Append(Releases(w, gone), m) = ms /\ ToSet(held[w]) = o /\ ToSet(held[w]) \ ToSet(gone) = left
  BY <1>1, <1>3, <1>4, <1>7
<1> QED BY <1>8, <1>12, <1>13, <1>14, <1>15

----------------------------------------------------------------------------
(* The pool follows every worker it has not lost.                          *)

Follows(w) ==
    /\ News(pages[w], out[w], Urls(held[w]))
    /\ OneAnswer(inFlight[w], task[w].job, out[w])
    /\ LoadsEnd(loading[w], inFlight[w], Urls(held[w]), phase[w], out[w])
Followed == \A w \in Alive : Follows(w)

\* What the worker w posts when its pages become h, its task t and its phase ph.
Speaks(w, ms, h, t, ph) ==
    /\ Told(ms, ToSet(held[w]), ToSet(h)) /\ Replies(ms, task[w].job, t.job)
    /\ ph = "encoding" => /\ t.job # NoJob /\ t.job = task[w].job
                          /\ \/ PageOf(t.job) \in ToSet(held[w]) \/ phase[w] = "encoding"
                             \/ \E k \in 1..Len(ms) : Brings(ms[k], PageOf(t.job))
    /\ \A i \in 1..Len(ms) : ms[i].type = "blob" => phase[w] = "encoding"

\* One worker changes what is its own, and posts.
LEMMA OneWorkerMoves ==
    ASSUME Typed, NEW w \in Workers, UNCHANGED mainVars,
           NEW h \in Seq(Pages), NEW pin \in SUBSET Pages, NEW arm \in SUBSET Pages, NEW b \in SUBSET Pages,
           NEW t \in TaskSet, NEW ph \in {"idle", "sent", "decoding", "encoding"}, NEW ms \in Seq(Messages),
           Sound(h, pin, arm, b, t, ph), Speaks(w, ms, h, t, ph),
           held' = [held EXCEPT ![w] = h], pinned' = [pinned EXCEPT ![w] = pin], armed' = [armed EXCEPT ![w] = arm],
           bad' = [bad EXCEPT ![w] = b], task' = [task EXCEPT ![w] = t], phase' = [phase EXCEPT ![w] = ph],
           out' = [out EXCEPT ![w] = out[w] \o ms]
    PROVE  Typed' /\ (Followed => Followed')
<1>1. LostTyped' /\ ViewTyped' /\ QueueTyped'
  BY TypesOfTheRest DEF mainVars
<1>2. WireTyped'
  BY TwoInOne DEF Typed, WireTyped
<1>3. WorkersTyped'
  BY DEF Typed, WorkersTyped
<1>4. ASSUME NEW v \in Workers PROVE WorkerSound(v)'
  <2>1. CASE v = w
    BY <2>1 DEF Typed, WorkersTyped, WorkerSound, Sound, Urls, InHand
  <2>2. CASE v # w
    BY <2>2 DEF Typed, WorkersTyped, WorkerSound, InHand
  <2> QED BY <2>1, <2>2
<1>5. ASSUME Followed, NEW v \in Alive' PROVE Follows(v)'
  <2>1. v \in Alive /\ v \in Workers /\ Follows(v)
    BY <1>5 DEF mainVars, Alive, Followed, Typed, LostTyped
  <2>2. UNCHANGED <<pages, inFlight, loading>>
    BY DEF mainVars
  <2>3. CASE v # w
    <3>1. held'[v] = held[v] /\ task'[v] = task[v] /\ phase'[v] = phase[v] /\ out'[v] = out[v]
      BY <2>1, <2>3 DEF Typed, WorkersTyped, WireTyped
    <3> QED BY <2>1, <2>2, <3>1 DEF Follows, Urls
  <2>4. CASE v = w
    <3>1. PICK os \in Seq(Messages) : os = out[w]
      BY DEF Typed, WireTyped
    <3>2. held'[w] = h /\ task'[w] = t /\ phase'[w] = ph /\ out'[w] = os \o ms
      BY <3>1 DEF Typed, WorkersTyped, WireTyped
    <3>3. PICK o : o = ToSet(held[w])
      OBVIOUS
    <3>4. PICK given : given = inFlight[w]
      OBVIOUS
    <3>5. PICK j : j = task[w].job
      OBVIOUS
    <3>6. PICK load : load = loading[w]
      OBVIOUS
    <3>7. PICK known : known = pages[w]
      OBVIOUS
    <3>8. PICK was : was = phase[w]
      OBVIOUS
    <3>9. News(known, os, o) /\ OneAnswer(given, j, os) /\ LoadsEnd(load, given, o, was, os)
      BY <2>1, <2>4, <3>1, <3>3, <3>4, <3>5, <3>6, <3>7, <3>8 DEF Follows, Urls
    <3>10. /\ Told(ms, o, ToSet(h)) /\ Replies(ms, j, t.job)
           /\ ph = "encoding" => /\ t.job # NoJob /\ t.job = j
                                 /\ \/ PageOf(t.job) \in o \/ was = "encoding"
                                    \/ \E k \in 1..Len(ms) : Brings(ms[k], PageOf(t.job))
           /\ \A i \in 1..Len(ms) : ms[i].type = "blob" => was = "encoding"
      BY <3>3, <3>5, <3>8 DEF Speaks
    <3>11. News(known, os \o ms, ToSet(h))
      BY <3>9, <3>10, NewsPosted
    <3>12. OneAnswer(given, t.job, os \o ms)
      BY <3>9, <3>10, AnswerPosted
    <3>13. ASSUME NEW p \in load, p \in ToSet(h) \/ ph = "encoding"
           PROVE  p \in o \/ was = "encoding" \/ \E k \in 1..Len(ms) : Brings(ms[k], p)
      <4>1. CASE p \in ToSet(h)
        BY <3>10, <4>1 DEF Told
      <4>2. CASE ph = "encoding"
        <5>1. p = PageOf(given)
          BY <3>9 DEF LoadsEnd
        <5>2. given = j
          BY <3>9, <3>10, <4>2 DEF OneAnswer
        <5> QED BY <3>10, <4>2, <5>1, <5>2
      <4> QED BY <3>13, <4>1, <4>2
    <3>14. LoadsEnd(load, given, ToSet(h), ph, os \o ms)
      BY <3>9, <3>10, <3>13, LoadPosted
    <3> QED BY <2>2, <2>4, <3>2, <3>4, <3>6, <3>7, <3>11, <3>12, <3>14 DEF Follows, Urls
  <2> QED BY <2>3, <2>4
<1> QED BY <1>1, <1>2, <1>3, <1>4, <1>5 DEF Typed, Followed

LEMMA UseMoves ==
    ASSUME Typed, NEW w \in Workers, UsePage(w)
    PROVE  Typed' /\ (Followed => Followed')
<1>1. PICK p \in Pages : p = InHand(w)
  BY TaskIs DEF UsePage, Running
<1>2. PICK t \in TaskSet : t = task[w] /\ t.keepPage \in BOOLEAN /\ t.job # NoJob
  BY TaskIs, Constants DEF UsePage, Running
<1>3. PICK o : o = held[w] /\ o \in Seq(Pages) /\ IsInjective(o) /\ p \in ToSet(o)
  BY <1>1, LeftAlone DEF UsePage, Urls, Sound
<1>4. PICK k : k = Keep(o, Pages \ {p})
  OBVIOUS
<1>5. k \in Seq(Pages) /\ IsInjective(k) /\ ToSet(k) = ToSet(o) \cap (Pages \ {p})
  BY <1>3, <1>4, KeepKeeps
<1>6. PICK h : h = Append(k, p)
  OBVIOUS
<1>7. h \in Seq(Pages) /\ IsInjective(h) /\ ToSet(h) = ToSet(o)
  <2>1. ToSet(o) \subseteq Pages
    BY <1>3, ElementOfSeq DEF ToSet
  <2>2. h \in Seq(Pages) /\ IsInjective(h) /\ ToSet(h) = ToSet(k) \cup {p}
    BY <1>5, <1>6, OneMore
  <2> QED BY <1>3, <1>5, <2>1, <2>2
<1>8. PICK pin : pin = IF t.keepPage THEN pinned[w] \cup {p} ELSE pinned[w]
  OBVIOUS
<1>9. PICK arm : arm = IF ~t.keepPage /\ Oversized(p) THEN armed[w] \cup {p} ELSE armed[w] \ {p}
  OBVIOUS
<1>10. /\ held' = [held EXCEPT ![w] = h] /\ pinned' = [pinned EXCEPT ![w] = pin]
       /\ armed' = [armed EXCEPT ![w] = arm] /\ phase' = [phase EXCEPT ![w] = "encoding"]
       /\ UNCHANGED <<mainVars, task, bad, out>>
  BY <1>1, <1>2, <1>3, <1>4, <1>6, <1>8, <1>9 DEF UsePage, Crop, CropArms
<1>11. pin \in SUBSET Pages /\ arm \in SUBSET Pages
  BY <1>8, <1>9, LeftAlone
<1>12. Sound(h, pin, arm, bad[w], t, "encoding")
  BY <1>2, <1>3, <1>7, <1>8, <1>9, LeftAlone DEF Sound
<1>13. <<>> \in Seq(Messages)
  OBVIOUS
<1>14. /\ bad' = [bad EXCEPT ![w] = bad[w]] /\ task' = [task EXCEPT ![w] = t] /\ out' = [out EXCEPT ![w] = out[w] \o <<>>]
       /\ bad[w] \in SUBSET Pages /\ UNCHANGED mainVars
  BY <1>2, <1>10, LeftAlone
<1>15. Speaks(w, <<>>, h, t, "encoding")
  <2>1. Told(<<>>, ToSet(held[w]), ToSet(h)) /\ Replies(<<>>, task[w].job, t.job)
    BY <1>2, <1>3, <1>7, NothingSaid
  <2>2. t.job # NoJob /\ t.job = task[w].job /\ PageOf(t.job) \in ToSet(held[w])
    BY <1>1, <1>2, <1>3 DEF InHand
  <2> QED BY <2>1, <2>2 DEF Speaks
<1> QED BY <1>7, <1>10, <1>11, <1>12, <1>13, <1>14, <1>15, OneWorkerMoves

LEMMA NoTaskIs == NoTask \in TaskSet /\ NoTask.job = NoJob
BY DEF NoTask, TaskSet

LEMMA StartMoves ==
    ASSUME Typed, NEW w \in Workers, StartDecode(w)
    PROVE  Typed' /\ (Followed => Followed')
<1>1. PICK p \in Pages : p = InHand(w)
  BY TaskIs DEF StartDecode, Running
<1>2. /\ phase[w] = "sent" /\ p \notin ToSet(held[w]) /\ task[w].job \in Jobs /\ task[w].job # NoJob
      /\ UNCHANGED <<mainVars, held, pinned, armed, bad>>
  BY <1>1, TaskIs, Constants DEF StartDecode, Running, Urls
<1>3. /\ held' = [held EXCEPT ![w] = held[w]] /\ pinned' = [pinned EXCEPT ![w] = pinned[w]]
      /\ armed' = [armed EXCEPT ![w] = armed[w]] /\ bad' = [bad EXCEPT ![w] = bad[w]]
      /\ UNCHANGED mainVars
  BY <1>2, LeftAlone
<1>4. CASE p \in bad[w]
  <2>0. Failure(w, TRUE) \in Messages
    BY <1>1, <1>2, MsgIs DEF Failure
  <2>1. PICK ms : ms = <<Failure(w, TRUE)>>
    OBVIOUS
  <2>2. ms \in Seq(Messages)
    BY <2>0, <2>1, OneMessage
  <2>3. /\ out' = [out EXCEPT ![w] = out[w] \o ms]
        /\ task' = [task EXCEPT ![w] = NoTask] /\ phase' = [phase EXCEPT ![w] = "idle"]
    BY <1>1, <1>4, <2>1 DEF StartDecode, Post, Finish
  <2>4. Sound(held[w], pinned[w], armed[w], bad[w], NoTask, "idle")
    BY LeftAlone, NoTaskIs DEF Sound
  <2>5. Speaks(w, ms, held[w], NoTask, "idle")
    <3>1. Ends(Failure(w, TRUE)) /\ Failure(w, TRUE).job = task[w].job /\ Failure(w, TRUE).page = PageOf(task[w].job)
      BY DEF Failure, Msg, Ends, InHand
    <3>2. Told(ms, ToSet(held[w]), ToSet(held[w])) /\ Replies(ms, task[w].job, NoTask.job)
      BY <1>2, <2>0, <2>1, <3>1, OnlyAReply, NoTaskIs
    <3>3. \A i \in 1..Len(ms) : ms[i].type # "blob"
      BY <2>1 DEF Failure, Msg
    <3> QED BY <3>2, <3>3 DEF Speaks
  <2> QED BY <1>3, <2>2, <2>3, <2>4, <2>5, LeftAlone, NoTaskIs, OneWorkerMoves
<1>5. CASE p \notin bad[w]
  <2>1. phase' = [phase EXCEPT ![w] = "decoding"] /\ UNCHANGED <<task, out>>
    BY <1>1, <1>5 DEF StartDecode
  <2>2. task' = [task EXCEPT ![w] = task[w]] /\ out' = [out EXCEPT ![w] = out[w] \o <<>>]
    BY <2>1, LeftAlone
  <2>3. Sound(held[w], pinned[w], armed[w], bad[w], task[w], "decoding")
    BY <1>1, <1>2, <1>5, LeftAlone DEF Sound, InHand
  <2>4. <<>> \in Seq(Messages)
    OBVIOUS
  <2>5. Speaks(w, <<>>, held[w], task[w], "decoding")
    BY NothingSaid DEF Speaks
  <2> QED BY <1>3, <2>1, <2>2, <2>3, <2>4, <2>5, LeftAlone, OneWorkerMoves
<1> QED BY <1>4, <1>5

LEMMA EncodeMoves ==
    ASSUME Typed, NEW w \in Workers, EncodeEnds(w)
    PROVE  Typed' /\ (Followed => Followed')
<1>1. InHand(w) \in Pages /\ task[w].job \in Jobs
  BY TaskIs DEF EncodeEnds, Running
<1>2. /\ held' = [held EXCEPT ![w] = held[w]] /\ pinned' = [pinned EXCEPT ![w] = pinned[w]]
      /\ armed' = [armed EXCEPT ![w] = armed[w]] /\ bad' = [bad EXCEPT ![w] = bad[w]]
      /\ task' = [task EXCEPT ![w] = NoTask] /\ phase' = [phase EXCEPT ![w] = "idle"]
      /\ UNCHANGED mainVars
  BY LeftAlone DEF EncodeEnds, Finish
<1>3. PICK ok \in BOOLEAN : Post(w, <<IF ok THEN Msg("blob", InHand(w), {}, task[w].job, FALSE) ELSE Failure(w, FALSE)>>)
  BY DEF EncodeEnds
<1>4. PICK m : m = IF ok THEN Msg("blob", InHand(w), {}, task[w].job, FALSE) ELSE Failure(w, FALSE)
  OBVIOUS
<1>5. m \in Messages
  BY <1>1, <1>4, MsgIs DEF Failure
<1>6. PICK ms : ms = <<m>>
  OBVIOUS
<1>7. ms \in Seq(Messages) /\ out' = [out EXCEPT ![w] = out[w] \o ms]
  <2>1. out' = [out EXCEPT ![w] = out[w] \o <<IF ok THEN Msg("blob", InHand(w), {}, task[w].job, FALSE) ELSE Failure(w, FALSE)>>]
    BY <1>3 DEF Post
  <2>2. out' = [out EXCEPT ![w] = out[w] \o ms]
    BY <1>4, <1>6, <2>1
  <2> QED BY <1>5, <1>6, <2>2
<1>8. Sound(held[w], pinned[w], armed[w], bad[w], NoTask, "idle")
  BY LeftAlone, NoTaskIs DEF Sound
<1>9. Speaks(w, ms, held[w], NoTask, "idle")
  <2>1. Ends(m) /\ m.job = task[w].job /\ m.page = PageOf(task[w].job)
    BY <1>4 DEF Failure, Msg, Ends, InHand
  <2>2. task[w].job # NoJob /\ phase[w] = "encoding"
    BY <1>1, Constants DEF EncodeEnds, Running
  <2>3. Told(ms, ToSet(held[w]), ToSet(held[w])) /\ Replies(ms, task[w].job, NoTask.job)
    BY <1>5, <1>6, <2>1, <2>2, OnlyAReply, NoTaskIs
  <2> QED BY <2>2, <2>3 DEF Speaks
<1> QED BY <1>2, <1>7, <1>8, <1>9, LeftAlone, NoTaskIs, OneWorkerMoves

LEMMA DropMoves ==
    ASSUME Typed, NEW w \in Workers, NEW p \in Pages, DropFires(w, p)
    PROVE  Typed' /\ (Followed => Followed')
<1>1. PICK h : h = Keep(held[w], Pages \ {p})
  OBVIOUS
<1>2. h \in Seq(Pages) /\ IsInjective(h) /\ ToSet(h) = ToSet(held[w]) \cap (Pages \ {p})
  BY <1>1, KeepKeeps, LeftAlone DEF Sound
<1>3. ToSet(held[w]) \subseteq Pages
  BY LeftAlone, ElementOfSeq DEF ToSet
<1>4. PICK ms : ms = <<Msg("release", p, Urls(held[w]) \ {p}, NoJob, FALSE)>>
  OBVIOUS
<1>5. ms \in Seq(Messages)
  <2>1. Urls(held[w]) \ {p} \in SUBSET Pages
    BY <1>3 DEF Urls
  <2>2. Msg("release", p, Urls(held[w]) \ {p}, NoJob, FALSE) \in Messages
    BY <2>1, MsgIs
  <2> QED BY <1>4, <2>2, OneMessage
<1>6. /\ held' = [held EXCEPT ![w] = h] /\ pinned' = [pinned EXCEPT ![w] = pinned[w] \ {p}]
      /\ armed' = [armed EXCEPT ![w] = armed[w] \ {p}] /\ bad' = [bad EXCEPT ![w] = bad[w]]
      /\ task' = [task EXCEPT ![w] = task[w]] /\ phase' = [phase EXCEPT ![w] = phase[w]]
      /\ out' = [out EXCEPT ![w] = out[w] \o ms] /\ UNCHANGED mainVars
  BY <1>1, <1>4, LeftAlone DEF DropFires, Dropped, Post
<1>7. PICK pin \in SUBSET Pages : pin = pinned[w] \ {p}
  BY LeftAlone
<1>8. PICK arm \in SUBSET Pages : arm = armed[w] \ {p}
  BY LeftAlone
<1>9. Sound(h, pin, arm, bad[w], task[w], phase[w])
  BY <1>2, <1>3, <1>7, <1>8, LeftAlone DEF Sound
<1>10. bad[w] \in SUBSET Pages /\ task[w] \in TaskSet /\ phase[w] \in {"idle", "sent", "decoding", "encoding"}
  BY LeftAlone
<1>11. /\ held' = [held EXCEPT ![w] = h] /\ pinned' = [pinned EXCEPT ![w] = pin] /\ armed' = [armed EXCEPT ![w] = arm]
       /\ bad' = [bad EXCEPT ![w] = bad[w]] /\ task' = [task EXCEPT ![w] = task[w]] /\ phase' = [phase EXCEPT ![w] = phase[w]]
  BY <1>6, <1>7, <1>8
<1>12. out' = [out EXCEPT ![w] = out[w] \o ms] /\ UNCHANGED mainVars
  BY <1>6
<1>13. h \in Seq(Pages)
  BY <1>2
<1>14. Speaks(w, ms, h, task[w], phase[w])
  <2>1. PICK m : m = Msg("release", p, Urls(held[w]) \ {p}, NoJob, FALSE)
    OBVIOUS
  <2>2. m.type = "release" /\ m.urls = ToSet(h) /\ ToSet(h) \subseteq ToSet(held[w]) /\ ms = <<m>>
    BY <1>2, <1>3, <1>4, <2>1 DEF Msg, Urls
  <2>3. m \in Messages
    <3>1. Urls(held[w]) \ {p} \in SUBSET Pages
      BY <1>3 DEF Urls
    <3> QED BY <2>1, <3>1, MsgIs
  <2>4. Told(ms, ToSet(held[w]), ToSet(h)) /\ Replies(ms, task[w].job, task[w].job)
    BY <2>2, <2>3, OnlyARelease
  <2>5. \A i \in 1..Len(ms) : ms[i].type # "blob"
    BY <2>2
  <2>6. phase[w] = "encoding" => task[w].job # NoJob
    BY TaskIs, Constants
  <2> QED BY <2>4, <2>5, <2>6 DEF Speaks
<1> QED BY <1>5, <1>9, <1>10, <1>11, <1>12, <1>13, <1>14, OneWorkerMoves


\* What is left of a worker's pages when some are given up.
LEMMA EvictedIs ==
    ASSUME Typed, NEW w \in Workers, NEW gone \in Seq(Pages), ToSet(gone) \subseteq ToSet(held[w])
    PROVE  /\ Evicted(w, gone) \in Seq(Pages) /\ IsInjective(Evicted(w, gone))
           /\ ToSet(Evicted(w, gone)) = ToSet(held[w]) \ ToSet(gone) /\ ToSet(held[w]) \subseteq Pages
<1>1. ToSet(held[w]) \subseteq Pages
  BY LeftAlone, ElementOfSeq DEF ToSet
<1> QED BY <1>1, KeepKeeps, LeftAlone DEF Evicted, Sound, Urls

LEMMA DecodeMoves ==
    ASSUME Typed, NEW w \in Workers, DecodeEnds(w)
    PROVE  Typed' /\ (Followed => Followed')
<1>1. PICK p \in Pages : p = InHand(w)
  BY TaskIs DEF DecodeEnds, Running
<1>2. PICK t \in TaskSet : t = task[w] /\ t.keepPage \in BOOLEAN /\ t.job # NoJob
  BY TaskIs, Constants DEF DecodeEnds, Running
<1>3. p \notin ToSet(held[w]) /\ p \notin bad[w]
  BY <1>1 DEF Typed, WorkerSound, DecodeEnds, Running, Urls
<1>4. PICK gone : gone = EvictPages(w, p)
  OBVIOUS
<1>5. gone \in Seq(Pages) /\ ToSet(gone) \subseteq ToSet(held[w])
  BY <1>1, <1>4, EvictedAreHeld, LeftAlone, Constants DEF Sound, Urls
<1>6. PICK left : left = Evicted(w, gone)
  OBVIOUS
<1>7. left \in Seq(Pages) /\ IsInjective(left) /\ ToSet(left) = ToSet(held[w]) \ ToSet(gone) /\ ToSet(held[w]) \subseteq Pages
  BY <1>5, <1>6, EvictedIs
<1>8. PICK h : h = Append(left, p)
  OBVIOUS
<1>9. h \in Seq(Pages) /\ IsInjective(h) /\ ToSet(h) = ToSet(left) \cup {p}
  BY <1>3, <1>7, <1>8, OneMore
<1>10. PICK pin : pin = (pinned[w] \ (ToSet(gone) \cup {p})) \cup {q \in {p} : t.keepPage}
  OBVIOUS
<1>11. PICK arm : arm = (armed[w] \ (ToSet(gone) \cup {p})) \cup {q \in {p} : ~t.keepPage /\ Oversized(q)}
  OBVIOUS
<1>12. pin \in SUBSET Pages /\ arm \in SUBSET Pages
  BY <1>10, <1>11, LeftAlone
<1>13. PICK m : m = Msg("atlas", p, Urls(h), NoJob, FALSE)
  OBVIOUS
<1>14. m \in Messages
  <2>1. Urls(h) \in SUBSET Pages
    BY <1>7, <1>9 DEF Urls
  <2> QED BY <1>13, <2>1, MsgIs
<1>15. PICK ms : ms = Append(Releases(w, gone), m)
  OBVIOUS
<1>16. ms \in Seq(Messages)
  BY <1>5, <1>14, <1>15, ReleasesAndOne
<1>17. /\ held' = [held EXCEPT ![w] = h] /\ pinned' = [pinned EXCEPT ![w] = pin] /\ armed' = [armed EXCEPT ![w] = arm]
       /\ phase' = [phase EXCEPT ![w] = "encoding"] /\ UNCHANGED <<mainVars, task, bad>>
  BY <1>1, <1>2, <1>4, <1>6, <1>8, <1>10, <1>11 DEF DecodeEnds, Urls
<1>18. out' = [out EXCEPT ![w] = out[w] \o ms]
  BY <1>1, <1>4, <1>6, <1>8, <1>13, <1>15 DEF DecodeEnds, Post
<1>19. bad' = [bad EXCEPT ![w] = bad[w]] /\ task' = [task EXCEPT ![w] = t] /\ bad[w] \in SUBSET Pages /\ UNCHANGED mainVars
  BY <1>2, <1>17, LeftAlone
<1>20. Sound(h, pin, arm, bad[w], t, "encoding")
  <2>1. Sound(held[w], pinned[w], armed[w], bad[w], task[w], phase[w])
    BY LeftAlone
  <2>2. pin \cup arm \subseteq ToSet(h)
    BY <1>5, <1>7, <1>9, <1>10, <1>11, <2>1 DEF Sound
  <2>3. bad[w] \cap ToSet(h) = {}
    BY <1>3, <1>7, <1>9, <2>1 DEF Sound
  <2> QED BY <1>2, <1>9, <2>2, <2>3 DEF Sound
<1>21. h \in Seq(Pages) /\ "encoding" \in {"idle", "sent", "decoding", "encoding"}
  BY <1>9
<1>22. held' = [held EXCEPT ![w] = h] /\ pinned' = [pinned EXCEPT ![w] = pin] /\ armed' = [armed EXCEPT ![w] = arm] /\ phase' = [phase EXCEPT ![w] = "encoding"]
  BY <1>17
<1>23. Speaks(w, ms, h, t, "encoding")
  <2>1. m.type = "atlas" /\ m.urls = ToSet(h)
    BY <1>13 DEF Msg, Urls
  <2>2. m.urls = (ToSet(held[w]) \ ToSet(gone)) \cup {p}
    BY <1>7, <1>9, <2>1
  <2>3. /\ Told(ms, ToSet(held[w]), m.urls) /\ Replies(ms, t.job, t.job)
        /\ \E k \in 1..Len(ms) : Brings(ms[k], p)
        /\ \A i \in 1..Len(ms) : ms[i].type = "blob" => m.type = "blob"
    BY <1>5, <1>14, <1>15, <2>1, <2>2, ReleasesAndOne
  <2>4. t = task[w] /\ t.job # NoJob /\ PageOf(t.job) = p
    BY <1>1, <1>2 DEF InHand
  <2> QED BY <2>1, <2>3, <2>4 DEF Speaks
<1> QED BY <1>12, <1>16, <1>18, <1>19, <1>20, <1>21, <1>22, <1>23, OneWorkerMoves

LEMMA DecodeFailsMoves ==
    ASSUME Typed, NEW w \in Workers, DecodeFails(w)
    PROVE  Typed' /\ (Followed => Followed')
<1>1. PICK p \in Pages : p = InHand(w)
  BY TaskIs DEF DecodeFails, Running
<1>2. task[w].job \in Jobs
  BY TaskIs DEF DecodeFails, Running
<1>3. p \notin ToSet(held[w])
  BY <1>1 DEF Typed, WorkerSound, DecodeFails, Running, Urls
<1>4. PICK gone \in {<<>>, EvictPages(w, p)} :
        /\ held' = [held EXCEPT ![w] = Evicted(w, gone)]
        /\ pinned' = [pinned EXCEPT ![w] = @ \ Urls(gone)]
        /\ armed' = [armed EXCEPT ![w] = @ \ Urls(gone)]
        /\ Post(w, Append(Releases(w, gone), Failure(w, TRUE)))
  BY <1>1 DEF DecodeFails
<1>5. gone \in Seq(Pages) /\ ToSet(gone) \subseteq ToSet(held[w])
  <2>1. CASE gone = <<>>
    BY <2>1 DEF ToSet
  <2>2. CASE gone = EvictPages(w, p)
    BY <1>1, <2>2, EvictedAreHeld, LeftAlone, Constants DEF Sound, Urls
  <2> QED BY <1>4, <2>1, <2>2
<1>6. PICK h : h = Evicted(w, gone)
  OBVIOUS
<1>7. h \in Seq(Pages) /\ IsInjective(h) /\ ToSet(h) = ToSet(held[w]) \ ToSet(gone)
  BY <1>5, <1>6, EvictedIs
<1>8. PICK pin : pin = pinned[w] \ ToSet(gone)
  OBVIOUS
<1>9. PICK arm : arm = armed[w] \ ToSet(gone)
  OBVIOUS
<1>10. PICK b : b = bad[w] \cup {p}
  OBVIOUS
<1>11. pin \in SUBSET Pages /\ arm \in SUBSET Pages /\ b \in SUBSET Pages
  BY <1>8, <1>9, <1>10, LeftAlone
<1>12. PICK m : m = Failure(w, TRUE)
  OBVIOUS
<1>13. m \in Messages
  BY <1>1, <1>2, <1>12, MsgIs DEF Failure
<1>14. PICK ms : ms = Append(Releases(w, gone), m)
  OBVIOUS
<1>15. ms \in Seq(Messages)
  BY <1>5, <1>13, <1>14, ReleasesAndOne
<1>16. out' = [out EXCEPT ![w] = out[w] \o ms]
  BY <1>4, <1>12, <1>14 DEF Post
<1>17. held' = [held EXCEPT ![w] = h] /\ pinned' = [pinned EXCEPT ![w] = pin] /\ armed' = [armed EXCEPT ![w] = arm]
  BY <1>4, <1>6, <1>8, <1>9 DEF Urls
<1>18. /\ bad' = [bad EXCEPT ![w] = b] /\ task' = [task EXCEPT ![w] = NoTask] /\ phase' = [phase EXCEPT ![w] = "idle"]
       /\ UNCHANGED mainVars
  BY <1>1, <1>10 DEF DecodeFails, Finish
<1>19. Sound(h, pin, arm, b, NoTask, "idle")
  <2>1. Sound(held[w], pinned[w], armed[w], bad[w], task[w], phase[w])
    BY LeftAlone
  <2>2. pin \cup arm \subseteq ToSet(h) /\ b \cap ToSet(h) = {}
    BY <1>3, <1>7, <1>8, <1>9, <1>10, <2>1 DEF Sound
  <2> QED BY <1>7, <2>2, NoTaskIs DEF Sound
<1>20. h \in Seq(Pages) /\ "idle" \in {"idle", "sent", "decoding", "encoding"} /\ NoTask \in TaskSet
  BY <1>7, NoTaskIs
<1>21. Speaks(w, ms, h, NoTask, "idle")
  <2>1. Ends(m) /\ m.type = "error" /\ m.job = task[w].job /\ m.page = PageOf(task[w].job)
    BY <1>12 DEF Failure, Msg, Ends, InHand
  <2>2. task[w].job # NoJob
    BY <1>2, Constants
  <2>3. /\ Told(ms, ToSet(held[w]), ToSet(held[w]) \ ToSet(gone)) /\ Replies(ms, task[w].job, NoJob)
        /\ \A i \in 1..Len(ms) : ms[i].type = "blob" => m.type = "blob"
    BY <1>5, <1>13, <1>14, <2>1, <2>2, ReleasesAndOne
  <2> QED BY <1>7, <2>1, <2>3, NoTaskIs DEF Speaks
<1> QED BY <1>11, <1>15, <1>16, <1>17, <1>18, <1>19, <1>20, <1>21, OneWorkerMoves

LEMMA StepTyped == Typed /\ [Next]_vars => Typed'
<1> SUFFICES ASSUME Typed, [Next]_vars PROVE Typed'
  OBVIOUS
<1>1. CASE UNCHANGED vars
  <2>1. LostTyped' /\ ViewTyped' /\ QueueTyped' /\ WireTyped' /\ WorkersTyped' /\ \A w \in Workers : WorkerSound(w)'
    BY <1>1, TypesOfTheRest DEF vars, mainVars
  <2> QED BY <2>1 DEF Typed
<1>2. CASE \E j \in Jobs : bakeAtlasRegionInWorker(j)
  BY <1>2, AskTyped
<1>3. CASE Pumps
  BY <1>3, PlaceTyped
<1>4. ASSUME NEW w \in Workers, WorkerErrors(w) \/ onWorkerMessage(w) \/ WorkerRuns(w) \/ \E p \in Pages : DropFires(w, p)
      PROVE  Typed'
  BY <1>4, ErrorsTyped, MessageTyped, UseMoves, StartMoves, DecodeMoves, DecodeFailsMoves, EncodeMoves, DropMoves DEF WorkerRuns
<1> QED BY <1>1, <1>2, <1>3, <1>4 DEF Next, Done

\* Types of everything on both sides and on the wire; a worker holds no page twice, pins
\* and arms only what it holds, and never arms a page it knows to be bad.
THEOREM TypeCorrect == Spec => []TypeOK
<1>1. Spec => []Typed
  BY InitTyped, StepTyped, PTL DEF Spec
<1> QED BY <1>1, TypedIsTypeOK, PTL



LEMMA InitFollowed == Init => Followed
<1> SUFFICES ASSUME Init, NEW w \in Alive PROVE Follows(w)
  BY DEF Followed
<1>1. w \in Workers
  BY Constants DEF Init, Alive, Workers
<1>2. /\ out[w] = <<>> /\ held[w] = <<>> /\ pages[w] = {} /\ loading[w] = {} /\ inFlight[w] = NoJob
      /\ task[w] = NoTask
  BY <1>1 DEF Init
<1>3. Urls(<<>>) = {}
  BY DEF Urls, ToSet
<1>4. News({}, <<>>, {})
  BY DEF News, KnownAfter
<1>5. OneAnswer(NoJob, NoJob, <<>>)
  BY DEF OneAnswer
<1>6. LoadsEnd({}, NoJob, {}, phase[w], <<>>)
  BY DEF LoadsEnd
<1> QED BY <1>2, <1>3, <1>4, <1>5, <1>6, NoTaskIs DEF Follows

\* A worker nothing happened to.
LEMMA OthersFollow ==
    ASSUME Followed, NEW v \in Alive,
           pages'[v] = pages[v], loading'[v] = loading[v], inFlight'[v] = inFlight[v], out'[v] = out[v],
           held'[v] = held[v], task'[v] = task[v], phase'[v] = phase[v]
    PROVE  Follows(v)'
BY DEF Followed, Follows, Urls

LEMMA AllStill ==
    ASSUME Typed, Followed, UNCHANGED <<spawned, dead, pages, loading, inFlight, out, workerVars>>
    PROVE  Followed'
BY DEF Followed, Follows, Urls, Alive, workerVars

\* The pool forgets a worker and what it had said.
LEMMA LoseFollowed ==
    ASSUME Typed, Followed, NEW w \in Workers, Forgotten(w), inFlight' = [inFlight EXCEPT ![w] = NoJob],
           UNCHANGED <<spawned, workerVars>>
    PROVE  Followed'
<1> SUFFICES ASSUME NEW v \in Alive' PROVE Follows(v)'
  BY DEF Followed
<1>1. v \in Alive /\ v # w /\ v \in Workers
  BY DEF Alive, Forgotten, Typed, LostTyped
<1>2. pages'[v] = pages[v] /\ loading'[v] = loading[v] /\ inFlight'[v] = inFlight[v] /\ out'[v] = out[v]
  BY <1>1 DEF Forgotten, Typed, ViewTyped, WireTyped
<1>3. held'[v] = held[v] /\ task'[v] = task[v] /\ phase'[v] = phase[v]
  BY DEF workerVars
<1> QED BY <1>1, <1>2, <1>3, OthersFollow

\* A job goes to a worker that has none.
LEMMA SendFollowed ==
    ASSUME Typed, Followed, ~Idle, NEW w \in chooseAtlasBakeWorker(PageOf(Here)), Send(w)
    PROVE  Followed'
<1> SUFFICES ASSUME NEW v \in Alive' PROVE Follows(v)'
  BY DEF Followed
<1>1. w \in Workers /\ Here \in Jobs /\ PageOf(Here) \in Pages /\ Here # NoJob
  BY HereTyped, Constants
<1>2. inFlight[w] = NoJob
  BY DEF chooseAtlasBakeWorker, Busy
<1>3. v \in Alive /\ v \in Workers /\ v \notin dead
  BY DEF Alive, Send, Placed, Typed, LostTyped
<1>4. /\ inFlight' = [inFlight EXCEPT ![w] = Here]
      /\ loading' = (IF PageOf(Here) \in pages[w] THEN loading ELSE [loading EXCEPT ![w] = loading[w] \cup {PageOf(Here)}])
      /\ UNCHANGED <<pages, held, out>>
  BY DEF Send, Placed, Commits
<1>5. CASE v # w
  <2>1. inFlight'[v] = inFlight[v] /\ loading'[v] = loading[v]
    BY <1>1, <1>3, <1>4, <1>5 DEF Typed, ViewTyped
  <2>2. task'[v] = task[v] /\ phase'[v] = phase[v]
    BY <1>1, <1>3, <1>5 DEF Send, Placed, Typed, WorkersTyped
  <2> QED BY <1>3, <1>4, <2>1, <2>2, OthersFollow
<1>6. CASE v = w
  <2>1. PICK p : p = PageOf(Here)
    OBVIOUS
  <2>2. PICK j \in Jobs : j = Here /\ j # NoJob /\ p = PageOf(j)
    BY <1>1, <2>1
  <2>3. PICK ms \in Seq(Messages) : ms = out[w]
    BY <1>1 DEF Typed, WireTyped
  <2>4. PICK o : o = Urls(held[w])
    OBVIOUS
  <2>5. PICK r : r = [job |-> Here, keepPage |-> KeepPage(Here)]
    OBVIOUS
  <2>6. task' = [task EXCEPT ![w] = r] /\ phase' = [phase EXCEPT ![w] = "sent"]
    BY <1>3, <1>6, <2>5 DEF Send, Placed
  <2>7. task'[w] = r /\ r.job = j /\ phase'[w] = "sent" /\ inFlight'[w] = j
    BY <1>1, <1>4, <2>2, <2>5, <2>6 DEF Typed, WorkersTyped, ViewTyped
  <2>8. News(pages[w], ms, o) /\ OneAnswer(NoJob, task[w].job, ms) /\ LoadsEnd(loading[w], NoJob, o, phase[w], ms)
    BY <1>2, <1>3, <1>6, <2>3, <2>4 DEF Followed, Follows
  <2>9. \A i \in 1..Len(ms) : ~Ends(ms[i])
    BY <2>8 DEF OneAnswer
  <2>10. OneAnswer(j, j, ms)
    BY <2>2, <2>9 DEF OneAnswer
  <2>11. loading[w] = {}
    BY <2>8 DEF LoadsEnd
  <2>12. PICK l : l = loading'[w]
    OBVIOUS
  <2>13. l = {} \/ (l = {p} /\ p \notin pages[w])
    BY <1>1, <1>4, <2>1, <2>11, <2>12 DEF Typed, ViewTyped
  <2>14. LoadsEnd(l, j, o, "sent", ms)
    <3>1. \A i \in 1..Len(ms) : ms[i].type # "blob"
      BY <2>9 DEF Ends
    <3>2. ASSUME p \notin pages[w], p \in o PROVE \E k \in 1..Len(ms) : Brings(ms[k], p)
      <4>1. 0 \in 0..Len(ms) /\ IsReport(ms, 0) /\ KnownAfter(pages[w], ms, 0) = pages[w]
        BY DEF IsReport, KnownAfter
      <4> QED BY <2>8, <3>2, <4>1 DEF News
    <3> QED BY <2>2, <2>13, <3>1, <3>2 DEF LoadsEnd
  <2>15. Urls(held[w])' = o /\ out'[w] = ms /\ pages'[w] = pages[w]
    BY <1>4, <2>3, <2>4 DEF Urls
  <2> QED BY <1>6, <2>7, <2>8, <2>10, <2>12, <2>14, <2>15 DEF Follows
<1> QED BY <1>5, <1>6

LEMMA PumpFollowed ==
    ASSUME Typed, Followed, Pumps
    PROVE  Followed'
<1>1. CASE GoesInline
  BY <1>1, AllStill DEF GoesInline
<1>2. CASE StaysPending
  BY <1>2, AllStill DEF StaysPending
<1>3. ASSUME ~Idle, NEW w \in chooseAtlasBakeWorker(PageOf(Here)), SendThrows(w) PROVE Followed'
  <2>1. w \in Workers
    BY <1>3, HereTyped
  <2>2. CASE w \in dead
    <3>1. Commits(w) /\ UNCHANGED <<spawned, dead, pages, inFlight, out, workerVars>>
      BY <1>3, <2>2 DEF SendThrows
    <3>2. ASSUME NEW v \in Alive' PROVE Follows(v)'
      <4>1. v \in Alive /\ v \in Workers /\ v # w
        BY <2>2, <3>1 DEF Alive, Typed, LostTyped
      <4>2. loading'[v] = loading[v]
        BY <3>1, <4>1 DEF Commits, Typed, ViewTyped
      <4> QED BY <3>1, <4>1, <4>2, OthersFollow DEF workerVars
    <3> QED BY <3>2 DEF Followed
  <2>3. CASE w \notin dead
    <3>1. Forgotten(w) /\ inFlight' = [inFlight EXCEPT ![w] = NoJob] /\ UNCHANGED <<spawned, workerVars>>
      BY <1>3, <2>3 DEF SendThrows, Lose
    <3> QED BY <2>1, <3>1, LoseFollowed
  <2> QED BY <2>2, <2>3
<1> QED BY <1>1, <1>2, <1>3, SendFollowed DEF Pumps, Place

LEMMA ErrorsFollowed ==
    ASSUME Typed, Followed, NEW w \in Workers, WorkerErrors(w)
    PROVE  Followed'
<1>1. Forgotten(w) /\ inFlight' = [inFlight EXCEPT ![w] = NoJob] /\ UNCHANGED <<spawned, workerVars>>
  BY DEF WorkerErrors, loseWorker, Lose
<1> QED BY <1>1, LoseFollowed

LEMMA MessageFollowed ==
    ASSUME Typed, Followed, NEW w \in Workers, onWorkerMessage(w)
    PROVE  Followed'
<1> SUFFICES ASSUME NEW v \in Alive' PROVE Follows(v)'
  BY DEF Followed
<1>1. UNCHANGED <<spawned, dead, workerVars>> /\ out[w] # <<>> /\ Receive(w)
  BY DEF onWorkerMessage, MessageArrives, OnAtlas, OnRelease, OnBlob, OnError, Message
<1>2. v \in Alive /\ v \in Workers /\ held'[v] = held[v] /\ task'[v] = task[v] /\ phase'[v] = phase[v]
  BY <1>1 DEF Alive, workerVars, Typed, LostTyped
<1>3. PICK ms \in Seq(Messages) : ms = out[w] /\ ms # <<>>
  BY <1>1 DEF Typed, WireTyped
<1>4. PICK m : m = ms[1]
  OBVIOUS
<1>5. m \in Messages /\ m = Head(out[w]) /\ Tail(ms) \in Seq(Messages)
  BY <1>3, <1>4, FrontIs
<1>6. out' = [out EXCEPT ![w] = Tail(ms)]
  BY <1>1, <1>3 DEF Receive
<1>7. CASE v # w
  <2>1. pages'[v] = pages[v] /\ loading'[v] = loading[v] /\ inFlight'[v] = inFlight[v]
    <3>1. CASE OnAtlas(w)
      BY <1>2, <1>7, <3>1 DEF OnAtlas, Typed, ViewTyped
    <3>2. CASE OnRelease(w)
      BY <1>2, <1>7, <3>2 DEF OnRelease, Typed, ViewTyped
    <3>3. CASE OnBlob(w)
      BY <1>2, <1>7, <3>3 DEF OnBlob, Answered, Typed, ViewTyped
    <3>4. CASE OnError(w)
      BY <1>2, <1>7, <3>4 DEF OnError, Answered, Typed, ViewTyped
    <3> QED BY <3>1, <3>2, <3>3, <3>4 DEF onWorkerMessage, MessageArrives
  <2>2. out'[v] = out[v]
    BY <1>2, <1>6, <1>7 DEF Typed, WireTyped
  <2> QED BY <1>2, <2>1, <2>2, OthersFollow
<1>8. CASE v = w
  <2>1. PICK o : o = Urls(held[w])
    OBVIOUS
  <2>2. PICK given : given = inFlight[w]
    OBVIOUS
  <2>3. PICK j : j = task[w].job
    OBVIOUS
  <2>4. PICK load : load = loading[w]
    OBVIOUS
  <2>5. PICK known : known = pages[w]
    OBVIOUS
  <2>6. PICK ph : ph = phase[w]
    OBVIOUS
  <2>7. News(known, ms, o) /\ OneAnswer(given, j, ms) /\ LoadsEnd(load, given, o, ph, ms)
    BY <1>2, <1>3, <1>8, <2>1, <2>2, <2>3, <2>4, <2>5, <2>6 DEF Followed, Follows
  <2>8. News(IF Tells(m) THEN m.urls ELSE known, Tail(ms), o)
    BY <1>3, <1>4, <2>7, NewsArrives
  <2>9. out'[w] = Tail(ms) /\ Urls(held[w])' = o /\ task'[w].job = j /\ phase'[w] = ph
    BY <1>2, <1>6, <1>8, <2>1, <2>3, <2>6 DEF Typed, WireTyped, Urls
  <2>10. CASE OnAtlas(w)
    <3>1. m.type = "atlas" /\ Tells(m) /\ ~Ends(m)
      BY <1>5, <2>10 DEF OnAtlas, Message, Tells, Ends
    <3>2. pages'[w] = m.urls /\ loading'[w] = load \ m.urls /\ inFlight'[w] = given
      BY <1>5, <2>2, <2>4, <2>10 DEF OnAtlas, Typed, ViewTyped
    <3>3. LoadsEnd(load \ m.urls, given, o, ph, Tail(ms)) /\ OneAnswer(given, j, Tail(ms))
      BY <1>3, <1>4, <2>7, <3>1, LoadArrives, AnswerArrives
    <3> QED BY <1>8, <2>8, <2>9, <3>1, <3>2, <3>3 DEF Follows
  <2>11. CASE OnRelease(w)
    <3>1. m.type = "release" /\ Tells(m) /\ ~Ends(m)
      BY <1>5, <2>11 DEF OnRelease, Message, Tells, Ends
    <3>2. pages'[w] = m.urls /\ loading'[w] = load /\ inFlight'[w] = given
      BY <1>5, <2>2, <2>4, <2>11 DEF OnRelease, Typed, ViewTyped
    <3>3. LoadsEnd(load, given, o, ph, Tail(ms)) /\ OneAnswer(given, j, Tail(ms))
      BY <1>3, <1>4, <2>7, <3>1, LoadArrives, AnswerArrives
    <3> QED BY <1>8, <2>8, <2>9, <3>1, <3>2, <3>3 DEF Follows
  <2>12. CASE OnBlob(w)
    <3>1. m.type = "blob" /\ ~Tells(m) /\ Ends(m)
      BY <1>5, <2>12 DEF OnBlob, Message, Tells, Ends
    <3>2. load = {} /\ given = m.job /\ j = NoJob /\ OneAnswer(NoJob, NoJob, Tail(ms))
      BY <1>3, <1>4, <2>7, <3>1, LoadArrives, AnswerArrives
    <3>3. pages'[w] = known /\ loading'[w] = {} /\ inFlight'[w] = NoJob
      BY <1>5, <2>2, <2>4, <2>5, <2>12, <3>2 DEF OnBlob, Answered, Typed, ViewTyped
    <3>4. LoadsEnd({}, NoJob, o, ph, Tail(ms))
      BY DEF LoadsEnd
    <3> QED BY <1>8, <2>8, <2>9, <3>1, <3>2, <3>3, <3>4 DEF Follows
  <2>13. CASE OnError(w)
    <3>1. m.type = "error" /\ ~Tells(m) /\ Ends(m)
      BY <1>5, <2>13 DEF OnError, Message, Tells, Ends
    <3>2. given = m.job /\ m.page = PageOf(given) /\ j = NoJob /\ OneAnswer(NoJob, NoJob, Tail(ms))
      BY <1>3, <1>4, <2>7, <3>1, AnswerArrives
    <3>3. load \ {m.page} = {}
      BY <2>7, <3>2 DEF LoadsEnd
    <3>4. pages'[w] = known /\ loading'[w] = {} /\ inFlight'[w] = NoJob
      BY <1>5, <2>2, <2>4, <2>5, <2>13, <3>2, <3>3 DEF OnError, Answered, Typed, ViewTyped
    <3>5. LoadsEnd({}, NoJob, o, ph, Tail(ms))
      BY DEF LoadsEnd
    <3> QED BY <1>8, <2>8, <2>9, <3>1, <3>2, <3>4, <3>5 DEF Follows
  <2> QED BY <2>10, <2>11, <2>12, <2>13 DEF onWorkerMessage, MessageArrives
<1> QED BY <1>7, <1>8

LEMMA StepFollowed == Typed /\ Followed /\ [Next]_vars => Followed'
<1> SUFFICES ASSUME Typed, Followed, [Next]_vars PROVE Followed'
  OBVIOUS
<1>1. CASE UNCHANGED vars
  BY <1>1, AllStill DEF vars, mainVars
<1>2. ASSUME NEW j \in Jobs, bakeAtlasRegionInWorker(j) PROVE Followed'
  BY <1>2, AllStill DEF bakeAtlasRegionInWorker
<1>3. CASE Pumps
  BY <1>3, PumpFollowed
<1>4. ASSUME NEW w \in Workers, WorkerErrors(w) \/ onWorkerMessage(w) \/ WorkerRuns(w) \/ \E p \in Pages : DropFires(w, p)
      PROVE  Followed'
  BY <1>4, ErrorsFollowed, MessageFollowed, UseMoves, StartMoves, DecodeMoves, DecodeFailsMoves, EncodeMoves, DropMoves DEF WorkerRuns
<1> QED BY <1>1, <1>2, <1>3, <1>4 DEF Next, Done

LEMMA FollowedKnows == Typed /\ Followed => PoolKnowsTheWorkers
<1> SUFFICES ASSUME Typed, Followed, NEW w \in Alive
             PROVE  /\ out[w] = <<>> => pages[w] = Urls(held[w])
                    /\ loading[w] \subseteq {PageOf(j) : j \in {inFlight[w]} \ {NoJob}}
  BY DEF PoolKnowsTheWorkers
<1>1. Follows(w)
  BY DEF Followed
<1>2. ASSUME out[w] = <<>> PROVE pages[w] = Urls(held[w])
  <2>1. News(pages[w], <<>>, Urls(held[w]))
    BY <1>1, <1>2 DEF Follows
  <2>2. 0 \in 0..Len(<<>>) /\ 1..Len(<<>>) = {} /\ IsReport(<<>>, 0) /\ KnownAfter(pages[w], <<>>, 0) = pages[w]
    BY DEF IsReport, KnownAfter
  <2> QED BY <2>1, <2>2 DEF News
<1>3. loading[w] \subseteq {PageOf(j) : j \in {inFlight[w]} \ {NoJob}}
  BY <1>1 DEF Follows, LoadsEnd
<1> QED BY <1>2, <1>3

\* Residency is reported, never estimated: once the messages of a worker that lives
\* have arrived the pool knows what it holds, and it counts as being loaded at most
\* the page of the job it gave, whatever was released, evicted, dropped or failed in
\* between, and whichever other workers were lost.
THEOREM PoolFollows == Spec => []PoolKnowsTheWorkers
<1>1. Spec => [](Typed /\ Followed)
  <2>1. Init => Typed /\ Followed
    BY InitTyped, InitFollowed
  <2>2. Typed /\ Followed /\ [Next]_vars => (Typed /\ Followed)'
    BY StepTyped, StepFollowed
  <2> QED BY <2>1, <2>2, PTL DEF Spec
<1> QED BY <1>1, FollowedKnows, PTL


----------------------------------------------------------------------------
(* The queue and the workers hold every open job once.                     *)

Given(j) == \E w \in Workers : inFlight[w] = j
InOnePlace(j) ==
    /\ (settled[j] = "open") <=> (j \in ToSet(pending) \/ Given(j))
    /\ ~(j \in ToSet(pending) /\ Given(j))
\* The pump takes none for alive that is lost, unless it lost it itself.
TakenLive == ~Idle => pump.alive \subseteq Alive \/ pump.again

Ledger ==
    /\ IsInjective(pending) /\ \A j \in Jobs : InOnePlace(j)
    /\ \A v, w \in Workers : inFlight[v] = inFlight[w] /\ inFlight[v] # NoJob => v = w
    /\ \A w \in Workers : inFlight[w] # NoJob => w \in spawned
    /\ TakenLive

\* A pump that starts takes the workers that live.
LEMMA PumpsTheLiving ==
    ASSUME NEW jobs, NEW ws, NEW live, ws \subseteq live
    PROVE  PumpFor(jobs, ws).at # 0 => PumpFor(jobs, ws).alive \subseteq live
BY DEF PumpFor

LEMMA EndsWithTheLiving ==
    ASSUME Typed, Ledger, ~Idle, UNCHANGED <<spawned, dead>>, NEW n, pump' = AtEnd(n)
    PROVE  TakenLive'
<1>1. Alive' = Alive /\ (pump.alive \subseteq Alive \/ pump.again)
  BY DEF Ledger, Alive, TakenLive
<1>2. pump' \in {pump, PumpFor(pending', Alive'), PumpFor(<<>>, {})}
  BY DEF AtEnd
<1> QED BY <1>1, <1>2, PumpsTheLiving DEF Idle, TakenLive

LEMMA InitLedger == Init => Ledger
<1> SUFFICES ASSUME Init PROVE Ledger
  OBVIOUS
<1>1. pending = <<>> /\ (\A w \in Workers : inFlight[w] = NoJob) /\ (\A j \in Jobs : settled[j] = "none") /\ Idle
  BY DEF Init, Idle, PumpFor
<1>2. IsInjective(<<>>) /\ ToSet(<<>>) = {}
  BY DEF IsInjective, ToSet
<1>3. ASSUME NEW j \in Jobs PROVE InOnePlace(j)
  BY <1>1, <1>2, <1>3, Constants DEF InOnePlace, Given
<1> QED BY <1>1, <1>2, <1>3 DEF Ledger, TakenLive

LEMMA LedgerStill ==
    ASSUME Ledger, UNCHANGED <<spawned, dead, pending, inFlight, settled>>, TakenLive'
    PROVE  Ledger'
BY DEF Ledger, InOnePlace, Given, Alive

LEMMA AskLedger ==
    ASSUME Typed, Ledger, NEW j \in Jobs, bakeAtlasRegionInWorker(j)
    PROVE  Ledger'
<1>1. settled[j] = "none" /\ j \notin ToSet(pending) /\ ~Given(j)
  BY DEF bakeAtlasRegionInWorker, Ledger, InOnePlace
<1>2. UNCHANGED <<spawned, dead, inFlight>> /\ Alive' = Alive /\ Idle /\ settled \in [Jobs -> Answer] /\ pending \in Seq(Jobs)
  BY DEF bakeAtlasRegionInWorker, Alive, Typed, QueueTyped
<1>3. CASE settled' = [settled EXCEPT ![j] = "refused"] /\ UNCHANGED <<pending, pump>>
  <2>1. Idle'
    BY <1>2, <1>3 DEF Idle
  <2>2. ASSUME NEW i \in Jobs PROVE InOnePlace(i)'
    <3>1. (settled'[i] = "open") <=> (settled[i] = "open")
      BY <1>1, <1>2, <1>3
    <3> QED BY <1>2, <1>3, <3>1 DEF Ledger, InOnePlace, Given
  <2> QED BY <1>2, <1>3, <2>1, <2>2 DEF Ledger, TakenLive
<1>4. CASE settled' = [settled EXCEPT ![j] = "open"] /\ pending' = Append(pending, j) /\ pump' = PumpFor(pending', Alive)
  <2>1. PICK q : q = Append(pending, j)
    OBVIOUS
  <2>2. ToSet(q) = ToSet(pending) \cup {j} /\ IsInjective(q)
    BY <1>1, <1>2, <2>1, OneMore DEF Ledger
  <2>3. ASSUME NEW i \in Jobs PROVE InOnePlace(i)'
    <3>1. (settled'[i] = "open") <=> (i = j \/ settled[i] = "open")
      BY <1>1, <1>2, <1>4
    <3>2. pending' = q /\ (Given(i)' <=> Given(i))
      BY <1>2, <1>4, <2>1 DEF Given
    <3> QED BY <1>1, <2>2, <3>1, <3>2 DEF Ledger, InOnePlace
  <2>4. TakenLive'
    BY <1>2, <1>4, PumpsTheLiving DEF Idle, TakenLive
  <2> QED BY <1>2, <1>4, <2>1, <2>2, <2>3, <2>4 DEF Ledger
<1> QED BY <1>3, <1>4 DEF bakeAtlasRegionInWorker

LEMMA InlineLedger ==
    ASSUME Typed, Ledger, GoesInline
    PROVE  Ledger'
<1>1. PICK h \in Jobs : h = Here
  BY HereTyped DEF GoesInline
<1>2. PICK r : r = Rest
  OBVIOUS
<1>3. h \in ToSet(pending) /\ IsInjective(r) /\ ToSet(r) = ToSet(pending) \ {h}
  BY <1>1, <1>2, HereTyped, OneLess DEF GoesInline, Here, Rest, Ledger
<1>4. pending' = r /\ UNCHANGED <<spawned, dead, inFlight>> /\ settled' = [j \in Jobs |-> IF j \in {h} THEN "null" ELSE settled[j]]
  BY <1>1, <1>2 DEF GoesInline, Settle
<1>5. ASSUME NEW j \in Jobs PROVE InOnePlace(j)'
  <2>1. (settled'[j] = "open") <=> (j # h /\ settled[j] = "open")
    BY <1>4
  <2>2. Given(j)' <=> Given(j)
    BY <1>4 DEF Given
  <2>3. ~Given(h)
    BY <1>3 DEF Ledger, InOnePlace
  <2> QED BY <1>3, <1>4, <2>1, <2>2, <2>3 DEF Ledger, InOnePlace
<1>6. TakenLive'
  BY EndsWithTheLiving DEF GoesInline
<1> QED BY <1>3, <1>4, <1>5, <1>6 DEF Ledger, Alive

LEMMA SendLedger ==
    ASSUME Typed, Ledger, ~Idle, NEW w \in chooseAtlasBakeWorker(PageOf(Here)), Send(w)
    PROVE  Ledger'
<1>1. PICK h \in Jobs : h = Here
  BY HereTyped
<1>2. PICK r : r = Rest
  OBVIOUS
<1>3. h \in ToSet(pending) /\ IsInjective(r) /\ ToSet(r) = ToSet(pending) \ {h}
  BY <1>1, <1>2, HereTyped, OneLess DEF Here, Rest, Ledger
<1>4. pending' = r /\ UNCHANGED <<spawned, dead, settled>> /\ inFlight' = [inFlight EXCEPT ![w] = h]
  BY <1>1, <1>2 DEF Send, Placed
<1>5. w \in Workers /\ inFlight[w] = NoJob /\ h # NoJob /\ inFlight \in [Workers -> Jobs \cup {NoJob}] /\ Alive' = Alive
  BY <1>4, HereTyped, Constants DEF chooseAtlasBakeWorker, Busy, Typed, ViewTyped, Alive
<1>6. ~Given(h)
  BY <1>3 DEF Ledger, InOnePlace
<1>7. ASSUME NEW j \in Jobs PROVE InOnePlace(j)'
  <2>1. Given(j)' <=> (Given(j) \/ j = h)
    BY <1>4, <1>5, Constants DEF Given
  <2> QED BY <1>3, <1>4, <1>6, <2>1 DEF Ledger, InOnePlace
<1>8. ASSUME NEW u \in Workers, NEW v \in Workers, inFlight'[u] = inFlight'[v], inFlight'[u] # NoJob PROVE u = v
  BY <1>4, <1>5, <1>6, <1>8 DEF Ledger, Given
<1>9. TakenLive'
  BY EndsWithTheLiving DEF Send, Placed
<1>10. ASSUME NEW v \in Workers, inFlight'[v] # NoJob PROVE v \in spawned'
  BY <1>4, <1>5, <1>10, HereTyped DEF Ledger
<1> QED BY <1>3, <1>4, <1>7, <1>8, <1>9, <1>10 DEF Ledger

LEMMA PutFirst ==
    ASSUME NEW P, NEW s \in Seq(P), NEW x \in P, IsInjective(s), x \notin ToSet(s)
    PROVE  IsInjective(<<x>> \o s) /\ ToSet(<<x>> \o s) = {x} \cup ToSet(s)
<1>1. PICK o \in Seq(P) : o = <<x>>
  BY OneMessage
<1>2. Len(o) = 1 /\ o[1] = x /\ DOMAIN o = 1..1
  BY <1>1
<1>3. ToSet(o) = {x}
  BY <1>2 DEF ToSet
<1>4. PICK n \in Nat : n = Len(s)
  OBVIOUS
<1>5. PICK u : u = o \o s
  OBVIOUS
<1>6. /\ u \in Seq(P) /\ Len(u) = 1 + n /\ ToSet(u) = {x} \cup ToSet(s)
      /\ \A i \in 1..1 : u[i] = o[i]
      /\ \A i \in 1..n : u[1 + i] = s[i]
  <2>1. /\ o \o s \in Seq(P) /\ Len(o \o s) = Len(o) + Len(s)
        /\ \A i \in 1..Len(o) : (o \o s)[i] = o[i]
        /\ \A i \in 1..Len(s) : (o \o s)[Len(o) + i] = s[i]
        /\ ToSet(o \o s) = ToSet(o) \cup ToSet(s)
    BY TwoInOne
  <2> QED BY <1>2, <1>3, <1>4, <1>5, <2>1
<1>7. DOMAIN u = 1..(1 + n) /\ DOMAIN s = 1..n
  BY <1>4, <1>6, LenProperties
<1>8. u[1] = x /\ \A i \in 2..(1 + n) : i - 1 \in 1..n /\ u[i] = s[i - 1]
  <2>1. \A i \in 2..(1 + n) : i - 1 \in 1..n /\ 1 + (i - 1) = i
    OBVIOUS
  <2> QED BY <1>2, <1>6, <2>1
<1>9. \A i \in 2..(1 + n) : u[i] \in ToSet(s)
  BY <1>7, <1>8 DEF ToSet
<1>10. ASSUME NEW i \in 1..(1 + n), NEW k \in 1..(1 + n), u[i] = u[k] PROVE i = k
  <2>1. CASE i = 1 \/ k = 1
    <3>1. i \in 2..(1 + n) => u[i] # x
      BY <1>9
    <3>2. k \in 2..(1 + n) => u[k] # x
      BY <1>9
    <3> QED BY <1>8, <1>10, <2>1, <3>1, <3>2
  <2>2. CASE i # 1 /\ k # 1
    <3>1. i \in 2..(1 + n) /\ k \in 2..(1 + n)
      BY <2>2
    <3>2. i - 1 \in 1..n /\ k - 1 \in 1..n /\ s[i - 1] = s[k - 1]
      BY <1>8, <1>10, <3>1
    <3>3. i - 1 = k - 1
      BY <1>7, <3>2 DEF IsInjective
    <3> QED BY <3>1, <3>3
  <2> QED BY <2>1, <2>2
<1>11. IsInjective(u)
  BY <1>7, <1>10 DEF IsInjective
<1> QED BY <1>1, <1>5, <1>6, <1>11

\* A post that throws: the job is the first again, and the pump knows that it lost
\* a worker.
LEMMA ThrowLedger ==
    ASSUME Typed, Ledger, ~Idle, NEW w \in chooseAtlasBakeWorker(PageOf(Here)), SendThrows(w)
    PROVE  Ledger'
<1>1. PICK h \in Jobs : h = Here
  BY HereTyped
<1>2. PICK r \in Seq(Jobs) : r = Rest
  BY HereTyped
<1>3. h \in ToSet(pending) /\ IsInjective(r) /\ ToSet(r) = ToSet(pending) \ {h}
  BY <1>1, <1>2, HereTyped, OneLess DEF Here, Rest, Ledger
<1>4. PICK q : q = <<h>> \o r
  OBVIOUS
<1>5. IsInjective(q) /\ ToSet(q) = ToSet(pending)
  <2>1. h \notin ToSet(r)
    BY <1>3
  <2> QED BY <1>3, <1>4, <2>1, PutFirst
<1>6. w \in Workers /\ inFlight[w] = NoJob /\ inFlight \in [Workers -> Jobs \cup {NoJob}] /\ pump \in PumpSet
  BY HereTyped DEF chooseAtlasBakeWorker, Busy, Typed, ViewTyped, QueueTyped
<1>7. spawned' = spawned /\ pump' \in {[pump EXCEPT !.again = (pump.again \/ w \notin dead)], PumpFor(<<>>, {})}
  BY DEF SendThrows
<1>8. PumpFor(<<>>, {}).at = 0
  BY DEF PumpFor
<1>9. CASE w \in dead
  <2>1. pending' = q /\ UNCHANGED <<dead, inFlight, settled>> /\ Alive' = Alive
    BY <1>1, <1>2, <1>4, <1>7, <1>9 DEF SendThrows, Alive
  <2>2. ASSUME NEW j \in Jobs PROVE InOnePlace(j)'
    BY <1>5, <2>1 DEF Ledger, InOnePlace, Given
  <2>3. TakenLive'
    <3>1. pump.alive \subseteq Alive \/ pump.again
      BY DEF Ledger, TakenLive
    <3>2. CASE pump' = PumpFor(<<>>, {})
      BY <1>8, <3>2 DEF TakenLive, Idle
    <3>3. CASE pump' = [pump EXCEPT !.again = (pump.again \/ w \notin dead)]
      <4>1. PICK b \in BOOLEAN : b <=> (pump.again \/ w \notin dead)
        OBVIOUS
      <4>2. pump'.alive = pump.alive /\ pump'.again = (pump.again \/ w \notin dead)
        BY <1>6, <3>3 DEF PumpSet
      <4> QED BY <2>1, <3>1, <4>2 DEF TakenLive
    <3> QED BY <1>7, <3>2, <3>3
  <2> QED BY <1>5, <1>7, <2>1, <2>2, <2>3 DEF Ledger
<1>10. CASE w \notin dead
  <2>1. Lose(w, q)
    BY <1>1, <1>2, <1>4, <1>10 DEF SendThrows
  <2>2. inFlight' = inFlight
    BY <1>6, <2>1 DEF Lose
  <2>3. TakenLive'
    <3>1. CASE pump' = PumpFor(<<>>, {})
      BY <1>8, <3>1 DEF TakenLive, Idle
    <3>2. CASE pump' = [pump EXCEPT !.again = (pump.again \/ w \notin dead)]
      <4>1. pump'.again = (pump.again \/ w \notin dead)
        BY <1>6, <3>2 DEF PumpSet
      <4> QED BY <1>10, <4>1 DEF TakenLive
    <3> QED BY <1>7, <3>1, <3>2
  <2>4. CASE Alive \ {w} = {}
    <3>1. pending' = <<>> /\ settled' = [j \in Jobs |-> IF j \in ToSet(q) THEN "null" ELSE settled[j]]
      BY <2>1, <2>4 DEF Lose, Settle
    <3>2. ToSet(<<>>) = {} /\ IsInjective(<<>>)
      BY DEF ToSet, IsInjective
    <3>3. ASSUME NEW j \in Jobs PROVE InOnePlace(j)'
      <4>1. Given(j)' <=> Given(j)
        BY <2>2 DEF Given
      <4>2. (settled'[j] = "open") <=> (j \notin ToSet(pending) /\ settled[j] = "open")
        BY <1>5, <3>1
      <4> QED BY <3>1, <3>2, <4>1, <4>2 DEF Ledger, InOnePlace
    <3> QED BY <1>7, <2>2, <2>3, <3>1, <3>2, <3>3 DEF Ledger
  <2>5. CASE Alive \ {w} # {}
    <3>1. pending' = q /\ settled' = settled
      BY <2>1, <2>5 DEF Lose
    <3>2. ASSUME NEW j \in Jobs PROVE InOnePlace(j)'
      BY <1>5, <2>2, <3>1 DEF Ledger, InOnePlace, Given
    <3> QED BY <1>5, <1>7, <2>2, <2>3, <3>1, <3>2 DEF Ledger
  <2> QED BY <2>4, <2>5
<1> QED BY <1>9, <1>10

LEMMA PumpLedger ==
    ASSUME Typed, Ledger, Pumps
    PROVE  Ledger'
<1>1. CASE StaysPending
  <2>1. /\ ~Idle /\ UNCHANGED <<spawned, dead, pending, inFlight, settled>> /\ Alive' = Alive
        /\ pump.alive \subseteq Alive \/ pump.again
    BY <1>1 DEF StaysPending, Alive, Ledger, TakenLive
  <2>2. TakenLive'
    <3>1. CASE pump.at < Len(pending)
      <4>1. pump' = [pump EXCEPT !.at = pump.at + 1] /\ pump \in PumpSet
        BY <1>1, <3>1 DEF StaysPending, Typed, QueueTyped
      <4> QED BY <2>1, <4>1 DEF PumpSet, TakenLive
    <3>2. CASE ~(pump.at < Len(pending))
      BY <1>1, <2>1, <3>2, EndsWithTheLiving DEF StaysPending
    <3> QED BY <3>1, <3>2
  <2> QED BY <2>1, <2>2, LedgerStill
<1> QED BY <1>1, InlineLedger, SendLedger, ThrowLedger DEF Pumps, Place

LEMMA ErrorsLedger ==
    ASSUME Typed, Ledger, NEW w \in Workers, WorkerErrors(w)
    PROVE  Ledger'
<1>1. PICK q : q = Orphans(w) \o pending
  OBVIOUS
<1>2. pending \in Seq(Jobs) /\ inFlight \in [Workers -> Jobs \cup {NoJob}] /\ settled \in [Jobs -> Answer]
  BY DEF Typed, QueueTyped, ViewTyped
<1>3. IsInjective(q) /\ ToSet(q) = ToSet(pending) \cup ({inFlight[w]} \ {NoJob})
  <2>1. CASE inFlight[w] = NoJob
    <3>1. q = pending
      BY <1>1, <1>2, <2>1, ConcatEmptySeq DEF Orphans, Busy
    <3> QED BY <2>1, <3>1 DEF Ledger
  <2>2. CASE inFlight[w] # NoJob
    <3>1. PICK x \in Jobs : x = inFlight[w] /\ x # NoJob
      BY <1>2, <2>2
    <3>2. x \notin ToSet(pending)
      BY <3>1 DEF Ledger, InOnePlace, Given
    <3>3. q = <<x>> \o pending
      BY <1>1, <2>2, <3>1 DEF Orphans, Busy
    <3>4. IsInjective(<<x>> \o pending) /\ ToSet(<<x>> \o pending) = {x} \cup ToSet(pending)
      BY <1>2, <3>2, PutFirst DEF Ledger
    <3> QED BY <3>1, <3>3, <3>4
  <2> QED BY <2>1, <2>2
<1>4. /\ Alive' = Alive \ {w} /\ w \in Alive /\ inFlight' = [inFlight EXCEPT ![w] = NoJob]
      /\ pump' = PumpFor(pending', Alive \ {w})
  BY DEF WorkerErrors, loseWorker, Lose, Forgotten, Alive
<1>5. ASSUME NEW v \in Workers, inFlight'[v] # NoJob PROVE v # w /\ inFlight'[v] = inFlight[v]
  BY <1>2, <1>4, <1>5
<1>6. \A u, v \in Workers : inFlight'[u] = inFlight'[v] /\ inFlight'[u] # NoJob => u = v
  BY <1>5 DEF Ledger
<1>7. TakenLive' /\ \A v \in Workers : inFlight'[v] # NoJob => v \in spawned'
  <2>1. spawned' = spawned
    BY DEF WorkerErrors
  <2> QED BY <1>4, <1>5, <2>1, PumpsTheLiving DEF Idle, TakenLive, Ledger
<1>8. ASSUME NEW j \in Jobs PROVE Given(j)' <=> Given(j) /\ inFlight[w] # j
  <2>1. j # NoJob
    BY Constants
  <2>2. ASSUME Given(j), inFlight[w] # j PROVE Given(j)'
    BY <1>2, <1>4, <2>2 DEF Given
  <2>3. ASSUME Given(j)' PROVE Given(j) /\ inFlight[w] # j
    <3>1. PICK v \in Workers : inFlight'[v] = j
      BY <2>3 DEF Given
    <3>2. v # w /\ inFlight[v] = j
      BY <1>5, <2>1, <3>1
    <3> QED BY <2>1, <3>2 DEF Given, Ledger
  <2> QED BY <2>2, <2>3
<1>9. CASE Alive \ {w} = {}
  <2>1. pending' = <<>> /\ settled' = [j \in Jobs |-> IF j \in ToSet(q) THEN "null" ELSE settled[j]]
    BY <1>1, <1>9 DEF WorkerErrors, loseWorker, Lose, Settle
  <2>2. ToSet(<<>>) = {} /\ IsInjective(<<>>)
    BY DEF ToSet, IsInjective
  <2>3. ASSUME NEW j \in Jobs PROVE InOnePlace(j)'
    <3>1. (settled'[j] = "open") <=> (j \notin ToSet(q) /\ settled[j] = "open")
      BY <2>1
    <3>2. j \in ToSet(q) <=> (j \in ToSet(pending) \/ inFlight[w] = j)
      BY <1>3, Constants
    <3> QED BY <1>8, <2>1, <2>2, <3>1, <3>2 DEF Ledger, InOnePlace
  <2> QED BY <1>5, <1>6, <1>7, <2>1, <2>2, <2>3 DEF Ledger
<1>10. CASE Alive \ {w} # {}
  <2>1. pending' = q /\ settled' = settled
    BY <1>1, <1>10 DEF WorkerErrors, loseWorker, Lose
  <2>2. ASSUME NEW j \in Jobs PROVE InOnePlace(j)'
    <3>1. j # NoJob /\ (inFlight[w] = j => Given(j))
      BY Constants DEF Given
    <3>2. j \in ToSet(q) <=> (j \in ToSet(pending) \/ inFlight[w] = j)
      BY <1>3, <3>1
    <3> QED BY <1>8, <2>1, <3>1, <3>2 DEF Ledger, InOnePlace
  <2> QED BY <1>3, <1>5, <1>6, <1>7, <2>1, <2>2 DEF Ledger
<1> QED BY <1>9, <1>10

LEMMA AnsweredLedger ==
    ASSUME Typed, Ledger, NEW w \in Workers, NEW answer, answer # "open", Answered(w, answer),
           UNCHANGED <<spawned, dead, pending>>, TakenLive'
    PROVE  Ledger'
<1>1. PICK m : m = Head(out[w])
  OBVIOUS
<1>2. PICK g : g = inFlight[w]
  OBVIOUS
<1>3. inFlight' = [inFlight EXCEPT ![w] = IF g = m.job THEN NoJob ELSE g]
      /\ settled' = [j \in Jobs |-> IF j \in {i \in {m.job} : g = i} THEN answer ELSE settled[j]]
      /\ inFlight \in [Workers -> Jobs \cup {NoJob}] /\ settled \in [Jobs -> Answer] /\ Alive' = Alive
  BY <1>1, <1>2 DEF Answered, Settle, Typed, ViewTyped, QueueTyped, Alive
<1>4. CASE g # m.job
  <2>1. inFlight' = inFlight /\ settled' = settled
    BY <1>2, <1>3, <1>4
  <2> QED BY <2>1, LedgerStill
<1>5. CASE g = m.job
  <2>1. inFlight' = [inFlight EXCEPT ![w] = NoJob] /\ \A j \in Jobs : settled'[j] = IF j = g THEN answer ELSE settled[j]
    BY <1>3, <1>5
  <2>2. ASSUME NEW v \in Workers, inFlight'[v] # NoJob PROVE v # w /\ inFlight'[v] = inFlight[v]
    BY <1>3, <2>1, <2>2
  <2>3. ASSUME NEW j \in Jobs PROVE InOnePlace(j)'
    <3>1. j # NoJob
      BY Constants
    <3>2. CASE j = g
      <4>1. ~Given(j)'
        BY <1>2, <2>2, <3>1, <3>2 DEF Given, Ledger
      <4>2. j \notin ToSet(pending)
        BY <1>2, <3>2 DEF Given, Ledger, InOnePlace
      <4> QED BY <2>1, <3>2, <4>1, <4>2 DEF InOnePlace
    <3>3. CASE j # g
      <4>1. Given(j)' <=> Given(j)
        BY <1>2, <1>3, <2>1, <2>2, <3>1, <3>3 DEF Given
      <4> QED BY <2>1, <3>3, <4>1 DEF Ledger, InOnePlace
    <3> QED BY <3>2, <3>3
  <2>4. \A u, v \in Workers : inFlight'[u] = inFlight'[v] /\ inFlight'[u] # NoJob => u = v
    BY <2>2 DEF Ledger
  <2>5. \A v \in Workers : inFlight'[v] # NoJob => v \in spawned'
    BY <2>2 DEF Ledger
  <2> QED BY <2>3, <2>4, <2>5 DEF Ledger
<1> QED BY <1>4, <1>5

LEMMA MessageLedger ==
    ASSUME Typed, Ledger, NEW w \in Workers, onWorkerMessage(w)
    PROVE  Ledger'
<1>1. UNCHANGED <<spawned, dead, pending>> /\ pump' = PumpFor(pending, Alive) /\ Alive' = Alive
  BY DEF onWorkerMessage, MessageArrives, OnAtlas, OnRelease, OnBlob, OnError, Alive
<1>2. TakenLive'
  BY <1>1, PumpsTheLiving DEF Idle, TakenLive
<1>3. CASE OnAtlas(w) \/ OnRelease(w)
  BY <1>1, <1>2, <1>3, LedgerStill DEF OnAtlas, OnRelease
<1>4. CASE OnBlob(w)
  <2>1. Answered(w, "blob") /\ "blob" # "open"
    BY <1>4 DEF OnBlob
  <2> QED BY <1>1, <1>2, <2>1, AnsweredLedger
<1>5. CASE OnError(w)
  <2>1. Answered(w, "null") /\ "null" # "open"
    BY <1>5 DEF OnError
  <2> QED BY <1>1, <1>2, <2>1, AnsweredLedger
<1> QED BY <1>3, <1>4, <1>5 DEF onWorkerMessage, MessageArrives

LEMMA StepLedger == Typed /\ Ledger /\ [Next]_vars => Ledger'
<1> SUFFICES ASSUME Typed, Ledger, [Next]_vars PROVE Ledger'
  OBVIOUS
<1>1. CASE UNCHANGED mainVars
  BY <1>1, LedgerStill DEF mainVars, Ledger, Idle, Alive, TakenLive
<1>2. CASE UNCHANGED vars \/ Done
  BY <1>1, <1>2 DEF vars, Done
<1>3. ASSUME NEW w \in Workers, WorkerRuns(w) \/ \E p \in Pages : DropFires(w, p) PROVE Ledger'
  BY <1>1, <1>3 DEF WorkerRuns, UsePage, StartDecode, DecodeEnds, DecodeFails, EncodeEnds, DropFires, Dropped
<1> QED BY <1>2, <1>3, AskLedger, PumpLedger, ErrorsLedger, MessageLedger DEF Next

LEMMA LedgerHolds ==
    ASSUME Typed, Followed, Ledger
    PROVE  NothingStranded
<1> SUFFICES ASSUME NEW j \in Jobs
             PROVE  /\ Cardinality({i \in 1..Len(pending) : pending[i] = j}) + Cardinality(Owners(j)) = IF j \in Open THEN 1 ELSE 0
                    /\ \A w \in Owners(j) : w \in dead \/ task[w].job = j \/ AnswerSent(w, j)
  BY DEF NothingStranded
<1>1. pending \in Seq(Jobs) /\ DOMAIN pending = 1..Len(pending) /\ j # NoJob
  BY Constants DEF Typed, QueueTyped
<1>2. PICK queued : queued = {i \in 1..Len(pending) : pending[i] = j}
  OBVIOUS
<1>3. (j \in ToSet(pending) => \E i : queued = {i}) /\ (j \notin ToSet(pending) => queued = {})
  <2>1. ASSUME j \in ToSet(pending) PROVE \E i : queued = {i}
    <3>1. PICK i \in 1..Len(pending) : pending[i] = j
      BY <1>1, <2>1 DEF ToSet
    <3>2. queued = {i}
      BY <1>1, <1>2, <3>1 DEF Ledger, IsInjective
    <3> QED BY <3>2
  <2> QED BY <1>1, <1>2, <2>1 DEF ToSet
<1>4. (Given(j) => \E w : Owners(j) = {w}) /\ (~Given(j) => Owners(j) = {})
  BY <1>1 DEF Given, Owners, Ledger
<1>5. /\ (j \in Open) <=> (j \in ToSet(pending) \/ Given(j))
      /\ ~(j \in ToSet(pending) /\ Given(j))
  BY DEF Open, Ledger, InOnePlace
<1>6. Cardinality({}) = 0 /\ \A x : Cardinality({x}) = 1
  BY FS_EmptySet, FS_Singleton
<1>7. Cardinality(queued) = IF j \in ToSet(pending) THEN 1 ELSE 0
  BY <1>3, <1>6
<1>8. Cardinality(Owners(j)) = IF Given(j) THEN 1 ELSE 0
  BY <1>4, <1>6
<1>9. Cardinality(queued) + Cardinality(Owners(j)) = IF j \in Open THEN 1 ELSE 0
  BY <1>5, <1>7, <1>8
<1>10. ASSUME NEW w \in Owners(j), w \notin dead PROVE task[w].job = j \/ AnswerSent(w, j)
  <2>1. w \in Alive /\ inFlight[w] = j
    BY <1>1, <1>10 DEF Owners, Ledger, Alive
  <2>2. OneAnswer(j, task[w].job, out[w])
    BY <2>1 DEF Followed, Follows
  <2> QED BY <1>1, <2>1, <2>2 DEF OneAnswer, AnswerSent, Ends
<1> QED BY <1>2, <1>9, <1>10

\* A worker that is lost says nothing any more.
Quiet == \A w \in dead : out[w] = <<>>
LEMMA StepQuiet == Typed /\ Quiet /\ [Next]_vars => Quiet'
<1> SUFFICES ASSUME Typed, Quiet, [Next]_vars, NEW v \in dead' PROVE out'[v] = <<>>
  BY DEF Quiet
<1>1. dead \subseteq Workers /\ out \in [Workers -> Seq(Messages)]
  BY DEF Typed, LostTyped, WireTyped
<1>2. CASE UNCHANGED <<dead, out>>
  BY <1>2 DEF Quiet
<1>3. ASSUME NEW w \in Workers, Forgotten(w) PROVE out'[v] = <<>>
  BY <1>1, <1>3 DEF Forgotten, Quiet
<1>4. ASSUME NEW w \in Workers, w \notin dead, NEW ms, out' = [out EXCEPT ![w] = ms], dead' = dead PROVE out'[v] = <<>>
  BY <1>1, <1>4 DEF Quiet
<1>5. CASE Pumps
  <2>1. ASSUME ~Idle, NEW w \in chooseAtlasBakeWorker(PageOf(Here)), SendThrows(w) PROVE out'[v] = <<>>
    BY <1>2, <1>3, <2>1, HereTyped DEF SendThrows, Lose
  <2> QED BY <1>2, <1>5, <2>1 DEF Pumps, GoesInline, StaysPending, Place, Send, Placed
<1>6. ASSUME NEW w \in Workers, WorkerErrors(w) PROVE out'[v] = <<>>
  BY <1>3, <1>6 DEF WorkerErrors, loseWorker, Lose
<1>7. ASSUME NEW w \in Workers, onWorkerMessage(w) PROVE out'[v] = <<>>
  <2>1. out[w] # <<>> /\ out' = [out EXCEPT ![w] = Tail(out[w])] /\ dead' = dead
    BY <1>7 DEF onWorkerMessage, MessageArrives, OnAtlas, OnRelease, OnBlob, OnError, Message, Receive
  <2> QED BY <1>4, <2>1 DEF Quiet
<1>8. ASSUME NEW w \in Workers, WorkerRuns(w) \/ \E p \in Pages : DropFires(w, p) PROVE out'[v] = <<>>
  <2>1. w \notin dead /\ dead' = dead
    BY <1>8 DEF WorkerRuns, UsePage, StartDecode, DecodeEnds, DecodeFails, EncodeEnds, DropFires, Dropped, Running, Alive, mainVars
  <2>2. out' = out \/ \E ms : out' = [out EXCEPT ![w] = out[w] \o ms]
    BY <1>8 DEF WorkerRuns, UsePage, StartDecode, DecodeEnds, DecodeFails, EncodeEnds, DropFires, Post
  <2> QED BY <1>2, <1>4, <2>1, <2>2
<1>9. ASSUME NEW j \in Jobs, bakeAtlasRegionInWorker(j) PROVE out'[v] = <<>>
  BY <1>2, <1>9 DEF bakeAtlasRegionInWorker
<1>10. CASE UNCHANGED vars \/ Done
  BY <1>2, <1>10 DEF vars, mainVars, Done
<1> QED BY <1>5, <1>6, <1>7, <1>8, <1>9, <1>10 DEF Next

LEMMA TheLedgerHolds == Spec => [](Typed /\ Followed /\ Ledger /\ Quiet)
<1>1. Init => Quiet
  BY DEF Init, Quiet
<1>2. Init => Typed /\ Followed /\ Ledger /\ Quiet
  BY <1>1, InitTyped, InitFollowed, InitLedger
<1>3. Typed /\ Followed /\ Ledger /\ Quiet /\ [Next]_vars => (Typed /\ Followed /\ Ledger /\ Quiet)'
  BY StepTyped, StepFollowed, StepLedger, StepQuiet
<1> QED BY <1>2, <1>3, PTL DEF Spec

\* Nothing is dropped, also when a postMessage throws inside the pump: a job that was
\* accepted is in exactly one place, the queue or one worker that runs it, has answered
\* it or was lost before it was given the job; a job that was answered is in none.
THEOREM NothingIsStranded == Spec => []NothingStranded
<1>1. Typed /\ Followed /\ Ledger /\ Quiet => NothingStranded
  BY LedgerHolds
<1> QED BY <1>1, TheLedgerHolds, PTL

LEMMA StrandsInThePump ==
    ASSUME Typed, Ledger, Quiet, [Next]_vars
    PROVE  Stranded' # Stranded => pump.again /\ Stranded \subseteq Stranded'
<1>1. inFlight \in [Workers -> Jobs \cup {NoJob}] /\ dead \subseteq Workers /\ NoJob \notin Jobs
  BY Constants DEF Typed, ViewTyped, LostTyped
<1>2. ASSUME UNCHANGED <<dead, inFlight>> PROVE Stranded' = Stranded
  BY <1>2 DEF Stranded
<1>3. ASSUME NEW w \in Workers, Forgotten(w), inFlight' = [inFlight EXCEPT ![w] = NoJob], w \notin dead PROVE Stranded' = Stranded
  <2>1. ASSUME NEW j \in Jobs PROVE (\E v \in dead' : inFlight'[v] = j) <=> (\E v \in dead : inFlight[v] = j)
    BY <1>1, <1>3 DEF Forgotten
  <2> QED BY <2>1 DEF Stranded
<1>4. ASSUME ~Idle, NEW w \in chooseAtlasBakeWorker(PageOf(Here)), Send(w)
      PROVE  Stranded' # Stranded => pump.again /\ Stranded \subseteq Stranded'
  <2>1. PICK h \in Jobs : h = Here
    BY <1>4, HereTyped
  <2>2. w \in Workers /\ w \in pump.alive /\ inFlight[w] = NoJob
    BY <1>4, HereTyped DEF chooseAtlasBakeWorker, Busy
  <2>3. dead' = dead /\ inFlight' = [inFlight EXCEPT ![w] = h]
    BY <1>4, <2>1 DEF Send, Placed
  <2>4. CASE w \in dead
    <3>1. pump.again
      BY <1>4, <2>2, <2>4 DEF Ledger, TakenLive, Alive
    <3>2. Stranded \subseteq Stranded'
      BY <1>1, <2>2, <2>3 DEF Stranded
    <3> QED BY <3>1, <3>2
  <2>5. CASE w \notin dead
    BY <1>1, <2>2, <2>3, <2>5 DEF Stranded
  <2> QED BY <2>4, <2>5
<1>5. ASSUME ~Idle, NEW w \in chooseAtlasBakeWorker(PageOf(Here)), SendThrows(w) PROVE Stranded' = Stranded
  BY <1>2, <1>3, <1>5, HereTyped DEF SendThrows, Lose
<1>6. ASSUME NEW w \in Workers, WorkerErrors(w) PROVE Stranded' = Stranded
  BY <1>3, <1>6 DEF WorkerErrors, loseWorker, Lose, Alive
<1>7. ASSUME NEW w \in Workers, onWorkerMessage(w) PROVE Stranded' = Stranded
  <2>1. w \notin dead /\ dead' = dead
    BY <1>7 DEF onWorkerMessage, MessageArrives, OnAtlas, OnRelease, OnBlob, OnError, Message, Quiet
  <2>2. \A v \in dead : inFlight'[v] = inFlight[v]
    BY <1>1, <1>7, <2>1 DEF onWorkerMessage, MessageArrives, OnAtlas, OnRelease, OnBlob, OnError, Answered
  <2> QED BY <2>1, <2>2 DEF Stranded
<1>8. ASSUME NEW w \in Workers, WorkerRuns(w) \/ \E p \in Pages : DropFires(w, p) PROVE Stranded' = Stranded
  BY <1>2, <1>8 DEF WorkerRuns, UsePage, StartDecode, DecodeEnds, DecodeFails, EncodeEnds, DropFires, Dropped, mainVars
<1>9. ASSUME NEW j \in Jobs, bakeAtlasRegionInWorker(j) PROVE Stranded' = Stranded
  BY <1>2, <1>9 DEF bakeAtlasRegionInWorker
<1>10. CASE UNCHANGED vars \/ Done
  BY <1>2, <1>10 DEF vars, mainVars, Done
<1>11. CASE Pumps
  BY <1>2, <1>4, <1>5, <1>11 DEF Pumps, GoesInline, StaysPending, Place
<1> QED BY <1>6, <1>7, <1>8, <1>9, <1>10, <1>11 DEF Next

\* A caller waits for ever in one case only: the pump, in the pass in which a post of
\* its own lost a worker, hands the job to a worker that is lost. No error of a worker,
\* at whatever moment, no message and no new job strands one, and none is found again.
THEOREM ThePumpStrands == Spec => OnlyThePumpStrands
<1>1. Typed /\ Ledger /\ Quiet /\ [Next]_vars
        => [Stranded' # Stranded => pump.again /\ Stranded \subseteq Stranded']_vars
  BY StrandsInThePump
<1> QED BY <1>1, TheLedgerHolds, PTL DEF Spec, OnlyThePumpStrands
=============================================================================
