-------------------------- MODULE LiveQaLockProofs --------------------------
(***************************************************************************)
(* Theorems about the lease registry, for every number of callers, leases, *)
(* resources and kills: no two leases conflict, and the files and their    *)
(* guard implement a table of leases.                                      *)
(*                                                                         *)
(* The argument: whoever is behind the guard is alone there, so that what  *)
(* it has compared its request with stays as it was until it publishes.    *)
(***************************************************************************)
EXTENDS LiveQaLock, TLAPS

Apart(f, g) == \A n \in Names : ~ResourcesConflict(f[n], g[n])

Asks(p) == \/ call[p].pc \in {"checking", "writing"}
           \/ call[p].pc = "waiting" /\ call[p].op = "acquire"
AsksForSomething == \A p \in Callers : Asks(p) => call[p].want \in Requests

\* Nothing is compared before the guard is taken.
WaitsUncompared == \A p \in Callers : call[p].pc = "waiting" => call[p].seen = {call[p].owner}

\* What a caller has compared its request with has not changed since.
Compared ==
    \A p \in Callers : call[p].pc \in {"checking", "writing"} =>
        \A o \in call[p].seen \ {call[p].owner} : Apart(leases[o].resources, call[p].want)

\* What a caller is about to publish contains what its lease already has.
MergedWithPrior ==
    \A p \in Callers : call[p].pc = "writing" =>
        CanonicalResources(leases[call[p].owner].resources, call[p].want) = call[p].want

IInv ==
    /\ TypeOK /\ OneBehindTheGuard /\ NoConflictingLeases
    /\ AsksForSomething /\ WaitsUncompared /\ Compared /\ MergedWithPrior

----------------------------------------------------------------------------
(* Modes of one resource.                                                  *)

LEMMA ConflictIsSymmetric ==
    ASSUME NEW a, NEW b, ResourcesConflict(a, b)
    PROVE  ResourcesConflict(b, a)
BY DEF ResourcesConflict

LEMMA NothingConflicts ==
    ASSUME NEW a
    PROVE  ~ResourcesConflict(a, "none") /\ ~ResourcesConflict("none", a)
BY DEF ResourcesConflict

\* Merging takes one of the two modes, and merging again changes nothing.
LEMMA MergedIsOneOfBoth ==
    ASSUME NEW a, NEW b
    PROVE  Merged(a, b) \in {a, b} /\ Merged(a, Merged(a, b)) = Merged(a, b)
BY DEF Merged

LEMMA CanonicalOfRequests ==
    ASSUME NEW f \in [Names -> Modes], NEW g \in Requests
    PROVE  /\ CanonicalResources(f, g) \in Requests
           /\ CanonicalResources(f, CanonicalResources(f, g)) = CanonicalResources(f, g)
<1>1. CanonicalResources(f, g) \in [Names -> Modes]
  BY MergedIsOneOfBoth DEF CanonicalResources, Requests, Modes
<1>2. PICK n \in Names : g[n] # "none"
  BY DEF Requests, Nothing, Modes
<1>3. Merged(f[n], g[n]) # "none"
  BY <1>2 DEF Merged
<1>4. CanonicalResources(f, g) # Nothing
  BY <1>3 DEF CanonicalResources, Nothing
<1>5. CanonicalResources(f, CanonicalResources(f, g)) = CanonicalResources(f, g)
  BY MergedIsOneOfBoth DEF CanonicalResources
<1> QED BY <1>1, <1>4, <1>5 DEF Requests

LEMMA CanonicalIsApart ==
    ASSUME NEW f, NEW g, NEW h, Apart(h, f), Apart(h, g)
    PROVE  Apart(h, CanonicalResources(f, g))
<1> SUFFICES ASSUME NEW n \in Names PROVE ~ResourcesConflict(h[n], Merged(f[n], g[n]))
  BY DEF Apart, CanonicalResources
<1>1. Merged(f[n], g[n]) = f[n] \/ Merged(f[n], g[n]) = g[n]
  BY MergedIsOneOfBoth
<1> QED BY <1>1 DEF Apart

----------------------------------------------------------------------------
(* The inductive invariant.                                                *)

CallSet == [pc : Pcs, op : {"acquire", "release"}, owner : Owners,
            want : [Names -> Modes], seen : SUBSET Owners]

LEMMA NothingIsTyped == Nothing \in [Names -> Modes]
BY DEF Nothing, Modes

LEMMA IdleIsTyped == \A o \in Owners : Idle(o) \in CallSet /\ Idle(o).pc = "idle"
BY NothingIsTyped DEF Idle, CallSet, Pcs

LEMMA InitInv == Init => IInv
<1> SUFFICES ASSUME Init PROVE IInv
  OBVIOUS
<1>1. call \in [Callers -> CallSet] /\ \A p \in Callers : call[p].pc = "idle"
  BY IdleIsTyped DEF Init
<1>5. leases \in [Owners -> [resources : [Names -> Modes], start : Nat]]
  BY NothingIsTyped DEF Init, NoLease
<1>6. process \in [Owners -> [start : Nat \ {0}, state : {"running", "zombie", "gone"}]]
  BY DEF Init
<1>7. taker \in [Owners -> Nat] /\ crashes \in 0..MaxCrashes
  BY BoundsAssumption DEF Init
<1>8. guard \in BOOLEAN
  BY DEF Init
<1>2. TypeOK
  BY <1>1, <1>5, <1>6, <1>7, <1>8 DEF TypeOK, CallSet
<1>3. OneBehindTheGuard /\ AsksForSomething /\ WaitsUncompared /\ Compared /\ MergedWithPrior
  BY <1>1 DEF OneBehindTheGuard, AsksForSomething, Asks, WaitsUncompared, Compared, MergedWithPrior, Inside
<1>4. NoConflictingLeases
  BY NothingConflicts DEF Init, NoConflictingLeases, NoLease, Nothing
<1> QED BY <1>2, <1>3, <1>4 DEF IInv

\* One caller's call changes and no lease does: it is enough to look at that call.
LEMMA CallChanges ==
    ASSUME IInv, NEW p \in Callers, NEW c \in CallSet,
           call' = [call EXCEPT ![p] = c], UNCHANGED leases,
           guard' \in BOOLEAN,
           c.pc \in Inside => guard' /\ \A q \in Callers \ {p} : call[q].pc \notin Inside,
           ~guard' => \A q \in Callers \ {p} : call[q].pc \notin Inside,
           c.pc = "writing" => c.seen = Owners,
           c.pc = "waiting" => c.seen = {c.owner},
           c.pc \in {"checking", "writing"} \/ (c.pc = "waiting" /\ c.op = "acquire") => c.want \in Requests,
           c.pc \in {"checking", "writing"} =>
               \A o \in c.seen \ {c.owner} : Apart(leases[o].resources, c.want),
           c.pc = "writing" => CanonicalResources(leases[c.owner].resources, c.want) = c.want
    PROVE  /\ guard' \in BOOLEAN /\ leases' \in [Owners -> [resources : [Names -> Modes], start : Nat]]
           /\ call' \in [Callers -> CallSet]
           /\ \A q \in Callers : call'[q].pc = "writing" => call'[q].seen = Owners /\ call'[q].want # Nothing
           /\ OneBehindTheGuard' /\ NoConflictingLeases'
           /\ AsksForSomething' /\ WaitsUncompared' /\ Compared' /\ MergedWithPrior'
<1>1. call \in [Callers -> CallSet]
  BY DEF IInv, TypeOK, CallSet
<1>2. call'[p] = c /\ \A q \in Callers \ {p} : call'[q] = call[q]
  BY <1>1
<1>3. call' \in [Callers -> CallSet]
  BY <1>1
<1>4. leases' \in [Owners -> [resources : [Names -> Modes], start : Nat]] /\ NoConflictingLeases'
  BY DEF IInv, TypeOK, NoConflictingLeases
<1>5. OneBehindTheGuard'
  BY <1>2 DEF IInv, OneBehindTheGuard
<1>6. AsksForSomething'
  BY <1>2 DEF IInv, AsksForSomething, Asks
<1>7. Compared'
  BY <1>2 DEF IInv, Compared
<1>8. MergedWithPrior'
  BY <1>2 DEF IInv, MergedWithPrior
<1>9. \A q \in Callers : call'[q].pc = "writing" => call'[q].seen = Owners /\ call'[q].want # Nothing
  BY <1>2 DEF IInv, TypeOK, Requests
<1>10. WaitsUncompared'
  BY <1>2 DEF IInv, WaitsUncompared
<1> QED BY <1>3, <1>4, <1>5, <1>6, <1>7, <1>8, <1>9, <1>10


\* The one behind the guard changes its own lease, to one that conflicts with no
\* other, and is done.
LEMMA LeaseChanges ==
    ASSUME IInv, NEW p \in Callers, call[p].pc \in {"writing", "removing"},
           NEW l \in [resources : [Names -> Modes], start : Nat],
           leases' = [leases EXCEPT ![call[p].owner] = l],
           call' = [call EXCEPT ![p].pc = "leaving"], UNCHANGED guard,
           \A o \in Owners \ {call[p].owner} : Apart(leases[o].resources, l.resources)
    PROVE  /\ guard' \in BOOLEAN /\ leases' \in [Owners -> [resources : [Names -> Modes], start : Nat]]
           /\ call' \in [Callers -> CallSet]
           /\ \A q \in Callers : call'[q].pc = "writing" => call'[q].seen = Owners /\ call'[q].want # Nothing
           /\ OneBehindTheGuard' /\ NoConflictingLeases'
           /\ AsksForSomething' /\ WaitsUncompared' /\ Compared' /\ MergedWithPrior'
<1> DEFINE me == call[p].owner
<1>1. call \in [Callers -> CallSet] /\ me \in Owners
  BY DEF IInv, TypeOK, CallSet
<1>2. call'[p].pc = "leaving" /\ \A q \in Callers \ {p} : call'[q] = call[q]
  BY <1>1 DEF CallSet
<1>3. call[p].pc \in Inside
  BY DEF Inside
<1>4. guard /\ \A q \in Callers \ {p} : call'[q].pc \notin Inside
  BY <1>2, <1>3 DEF IInv, OneBehindTheGuard
<1>5. "leaving" \in Pcs
  BY DEF Pcs, Inside
<1>6. call' \in [Callers -> CallSet]
  BY <1>1, <1>5 DEF CallSet
<1>7. leases' \in [Owners -> [resources : [Names -> Modes], start : Nat]]
  BY <1>1 DEF IInv, TypeOK
<1>8. leases'[me] = l /\ \A o \in Owners \ {me} : leases'[o] = leases[o]
  BY <1>1 DEF IInv, TypeOK
<1>9. \A q \in Callers : call'[q].pc \notin {"checking", "writing"}
  BY <1>2, <1>4 DEF Inside
<1>10. NoConflictingLeases'
  <2> SUFFICES ASSUME NEW o \in Owners, NEW q \in Owners, o # q, NEW n \in Names
               PROVE  ~ResourcesConflict(leases'[o].resources[n], leases'[q].resources[n])
    BY DEF NoConflictingLeases
  <2>1. CASE o = me
    <3>1. ~ResourcesConflict(leases[q].resources[n], l.resources[n])
      BY <2>1 DEF Apart
    <3> QED BY <2>1, <3>1, <1>8, ConflictIsSymmetric
  <2>2. CASE q = me
    BY <2>2, <1>8 DEF Apart
  <2>3. CASE o # me /\ q # me
    BY <2>3, <1>8 DEF IInv, NoConflictingLeases
  <2> QED BY <2>1, <2>2, <2>3
<1>11. OneBehindTheGuard'
  BY <1>4 DEF OneBehindTheGuard
<1>12. AsksForSomething'
  <2> SUFFICES ASSUME NEW q \in Callers, Asks(q)' PROVE call'[q].want \in Requests
    BY DEF AsksForSomething
  <2>1. call'[q].pc = "waiting" /\ q # p
    BY <1>2, <1>9 DEF Asks
  <2> QED BY <2>1, <1>2 DEF IInv, AsksForSomething, Asks
<1>13. Compared' /\ MergedWithPrior'
  BY <1>9 DEF Compared, MergedWithPrior
<1>14. WaitsUncompared'
  BY <1>2 DEF IInv, WaitsUncompared
<1> QED BY <1>6, <1>7, <1>9, <1>10, <1>11, <1>12, <1>13, <1>14 DEF IInv, TypeOK

\* Every step keeps the invariant.
LEMMA NextInv ==
    ASSUME IInv, [Next]_vars
    PROVE  IInv'
<1> DEFINE Settled ==
      /\ guard' \in BOOLEAN /\ leases' \in [Owners -> [resources : [Names -> Modes], start : Nat]]
      /\ call' \in [Callers -> CallSet]
      /\ \A q \in Callers : call'[q].pc = "writing" => call'[q].seen = Owners /\ call'[q].want # Nothing
      /\ OneBehindTheGuard' /\ NoConflictingLeases'
      /\ AsksForSomething' /\ WaitsUncompared' /\ Compared' /\ MergedWithPrior'
<1>t. /\ call \in [Callers -> CallSet] /\ guard \in BOOLEAN
      /\ leases \in [Owners -> [resources : [Names -> Modes], start : Nat]]
      /\ process \in [Owners -> [start : Nat \ {0}, state : {"running", "zombie", "gone"}]]
      /\ taker \in [Owners -> Nat] /\ crashes \in 0..MaxCrashes
  BY DEF IInv, TypeOK, CallSet
<1>s. ASSUME Settled, Fresh, taker' \in [Owners -> Nat] PROVE IInv'
  BY <1>t, <1>s DEF IInv, TypeOK, Fresh, CallSet
<1>1. ASSUME NEW p \in Callers, NEW op \in {"acquire", "release"}, NEW o \in Owners,
             NEW want \in [Names -> Modes], op = "acquire" => want \in Requests,
             CallStarts(p, op, o, want)
      PROVE  IInv'
  <2> DEFINE c == [pc |-> "waiting", op |-> op, owner |-> o, want |-> want, seen |-> {o}]
  <2>1. c \in CallSet
    BY DEF CallSet, Pcs
  <2>2. guard = guard' /\ (~guard' => \A q \in Callers \ {p} : call[q].pc \notin Inside)
    BY <1>1 DEF CallStarts, IInv, OneBehindTheGuard
  <2>3. c.pc \notin Inside
    BY DEF Inside
  <2>4. Settled
    BY <1>1, <1>t, <2>1, <2>2, <2>3, CallChanges DEF CallStarts
  <2> QED BY <1>1, <1>s, <1>t, <2>4 DEF CallStarts
<1>2. ASSUME NEW p \in Callers, TakeGuard(p) PROVE IInv'
  <2> DEFINE c == Entered(call[p])
  <2>1. call[p] \in CallSet /\ call[p].pc = "waiting" /\ ~guard
    BY <1>2, <1>t DEF TakeGuard
  <2>2. /\ c \in CallSet /\ c.pc \in {"checking", "removing"}
        /\ c.pc = "checking" => c.op = "acquire"
        /\ c.want = call[p].want /\ c.seen = call[p].seen /\ c.owner = call[p].owner /\ c.op = call[p].op
    BY <2>1 DEF CallSet, Entered, Pcs, Inside
  <2>3. \A q \in Callers \ {p} : call[q].pc \notin Inside
    BY <2>1 DEF IInv, OneBehindTheGuard
  <2>4. c.pc = "checking" => c.want \in Requests
    BY <2>1, <2>2 DEF IInv, AsksForSomething, Asks
  <2>5. call[p].seen = {call[p].owner}
    BY <2>1 DEF IInv, WaitsUncompared
  <2>6. Settled
    BY <1>2, <1>t, <2>2, <2>3, <2>4, <2>5, CallChanges DEF TakeGuard
  <2> QED BY <1>2, <1>s, <1>t, <2>6 DEF TakeGuard
<1>3. ASSUME NEW p \in Callers, Busy(p) PROVE IInv'
  <2> DEFINE c == Idle(call[p].owner)
  <2>1. call[p] \in CallSet
    BY <1>t
  <2>2. c \in CallSet /\ c.pc = "idle"
    BY <2>1, IdleIsTyped DEF CallSet
  <2>3. c.pc \notin Inside /\ c.pc \notin {"waiting", "checking", "writing"}
    BY <2>2 DEF Inside
  <2>4. guard' /\ UNCHANGED <<guard, leases, taker>> /\ call' = [call EXCEPT ![p] = c]
    BY <1>3 DEF Busy
  <2> HIDE DEF c
  <2>5. Settled
    BY <1>t, <2>2, <2>3, <2>4, CallChanges
  <2> QED BY <1>3, <1>s, <1>t, <2>5 DEF Busy
<1>4. ASSUME NEW p \in Callers, Leave(p) PROVE IInv'
  <2> DEFINE c == Idle(call[p].owner)
  <2>1. call[p] \in CallSet /\ call[p].pc \in Inside
    BY <1>4, <1>t DEF Leave, Inside
  <2>2. c \in CallSet /\ c.pc = "idle"
    BY <2>1, IdleIsTyped DEF CallSet
  <2>3. c.pc \notin Inside /\ c.pc \notin {"waiting", "checking", "writing"}
    BY <2>2 DEF Inside
  <2>4. \A q \in Callers \ {p} : call[q].pc \notin Inside
    BY <2>1 DEF IInv, OneBehindTheGuard
  <2>5. guard' = FALSE /\ UNCHANGED <<leases, taker>> /\ call' = [call EXCEPT ![p] = c]
    BY <1>4 DEF Leave
  <2> HIDE DEF c
  <2>6. guard' \in BOOLEAN
    BY <2>5
  <2>7. Settled
    BY <2>2, <2>3, <2>4, <2>5, <2>6, CallChanges
  <2> QED BY <1>4, <1>s, <1>t, <2>7 DEF Leave
<1>5. ASSUME NEW p \in Callers, NEW o \in Owners, Check(p, o) PROVE IInv'
  <2> DEFINE clash == \E n \in Names : ResourcesConflict(leases[o].resources[n], call[p].want[n])
             c == IF clash THEN [call[p] EXCEPT !.pc = "leaving"] ELSE [call[p] EXCEPT !.seen = @ \cup {o}]
  <2>1. /\ call[p] \in CallSet /\ call[p].pc \in Inside /\ call[p].pc = "checking"
    BY <1>5, <1>t DEF Check, Inside
  <2>2. guard /\ \A q \in Callers \ {p} : call[q].pc \notin Inside
    BY <2>1 DEF IInv, OneBehindTheGuard
  <2>3. call' = [call EXCEPT ![p] = c] /\ UNCHANGED <<guard, leases, taker>>
    BY <1>5 DEF Check
  <2>4. CASE clash
    <3>1. c \in CallSet /\ c.pc = "leaving"
      BY <2>1, <2>4 DEF CallSet, Pcs, Inside
    <3> HIDE DEF c
    <3>2. Settled
      BY <1>t, <2>2, <2>3, <3>1, CallChanges
    <3> QED BY <1>5, <1>s, <1>t, <3>2 DEF Check
  <2>5. CASE ~clash
    <3>1. /\ c \in CallSet /\ c.pc = "checking" /\ c.owner = call[p].owner
          /\ c.want = call[p].want /\ c.seen = call[p].seen \cup {o}
      BY <2>1, <2>5 DEF CallSet
    <3>2. c.want \in Requests
      BY <2>1, <3>1 DEF IInv, AsksForSomething, Asks
    <3>3. \A r \in c.seen \ {c.owner} : Apart(leases[r].resources, c.want)
      BY <2>1, <2>5, <3>1 DEF IInv, Compared, Apart
    <3> HIDE DEF c
    <3>4. Settled
      BY <1>t, <2>2, <2>3, <3>1, <3>2, <3>3, CallChanges
    <3> QED BY <1>5, <1>s, <1>t, <3>4 DEF Check
  <2> QED BY <2>4, <2>5
<1>6. ASSUME NEW p \in Callers, ReadPrior(p) PROVE IInv'
  <2> DEFINE prior == leases[call[p].owner].resources
             c == [call[p] EXCEPT !.pc = "writing", !.want = CanonicalResources(prior, call[p].want)]
  <2>1. /\ call[p] \in CallSet /\ call[p].pc \in Inside /\ call[p].pc = "checking"
        /\ call[p].seen = Owners /\ call[p].owner \in Owners
    BY <1>6, <1>t DEF ReadPrior, Inside, CallSet
  <2>2. guard /\ \A q \in Callers \ {p} : call[q].pc \notin Inside
    BY <2>1 DEF IInv, OneBehindTheGuard
  <2>3. call[p].want \in Requests /\ prior \in [Names -> Modes]
    BY <1>t, <2>1 DEF IInv, AsksForSomething, Asks
  <2>4. /\ CanonicalResources(prior, call[p].want) \in Requests
        /\ CanonicalResources(prior, CanonicalResources(prior, call[p].want))
              = CanonicalResources(prior, call[p].want)
    BY <2>3, CanonicalOfRequests
  <2>5. /\ c \in CallSet /\ c.pc = "writing" /\ c.seen = Owners /\ c.owner = call[p].owner
        /\ c.want = CanonicalResources(prior, call[p].want)
    BY <2>1, <2>4 DEF CallSet, Pcs, Inside, Requests
  <2>6. ASSUME NEW o \in Owners \ {call[p].owner} PROVE Apart(leases[o].resources, c.want)
    <3>1. Apart(leases[o].resources, prior)
      BY <2>1, <2>6 DEF IInv, NoConflictingLeases, Apart
    <3>2. Apart(leases[o].resources, call[p].want)
      BY <2>1, <2>6 DEF IInv, Compared
    <3> QED BY <2>5, <3>1, <3>2, CanonicalIsApart
  <2>7. call' = [call EXCEPT ![p] = c] /\ UNCHANGED <<guard, leases, taker>>
    BY <1>6 DEF ReadPrior
  <2>8. CanonicalResources(leases[c.owner].resources, c.want) = c.want
    BY <2>4, <2>5
  <2> HIDE DEF c
  <2>9. Settled
    BY <1>t, <2>2, <2>4, <2>5, <2>6, <2>7, <2>8, CallChanges
  <2> QED BY <1>6, <1>s, <1>t, <2>9 DEF ReadPrior
<1>7. ASSUME NEW p \in Callers, Publish(p) PROVE IInv'
  <2> DEFINE me == call[p].owner
             l == [resources |-> call[p].want, start |-> StartIdentity(me)]
  <2>1. /\ call[p].pc = "writing" /\ me \in Owners /\ call[p].want \in [Names -> Modes]
        /\ call[p].seen = Owners
    BY <1>7, <1>t DEF Publish, CallSet, IInv, TypeOK
  <2>2. ProcessIdentity(me) \in Nat
    BY <1>t, <2>1 DEF ProcessIdentity
  <2>3. l \in [resources : [Names -> Modes], start : Nat] /\ l.resources = call[p].want
    BY <1>t, <2>1, <2>2 DEF StartIdentity
  <2>4. \A o \in Owners \ {me} : Apart(leases[o].resources, l.resources)
    BY <2>1, <2>3 DEF IInv, Compared
  <2>5. /\ leases' = [leases EXCEPT ![me] = l] /\ UNCHANGED guard
        /\ call' = [call EXCEPT ![p].pc = "leaving"]
    BY <1>7 DEF Publish
  <2>6. taker' \in [Owners -> Nat]
    BY <1>7, <1>t, <2>2 DEF Publish
  <2> HIDE DEF l
  <2>7. Settled
    BY <2>1, <2>3, <2>4, <2>5, LeaseChanges
  <2> QED BY <1>7, <1>s, <2>6, <2>7 DEF Publish
<1>8. ASSUME NEW p \in Callers, Remove(p) PROVE IInv'
  <2>1. call[p].pc = "removing" /\ call[p].owner \in Owners
    BY <1>8, <1>t DEF Remove, CallSet
  <2>2. NoLease \in [resources : [Names -> Modes], start : Nat] /\ NoLease.resources = Nothing
    BY NothingIsTyped DEF NoLease
  <2>3. \A o \in Owners : Apart(leases[o].resources, Nothing)
    BY NothingConflicts DEF Apart, Nothing
  <2>4. /\ leases' = [leases EXCEPT ![call[p].owner] = NoLease] /\ UNCHANGED guard
        /\ call' = [call EXCEPT ![p].pc = "leaving"]
    BY <1>8 DEF Remove
  <2>5. taker' \in [Owners -> Nat]
    BY <1>8, <1>t DEF Remove
  <2>6. Settled
    BY <2>1, <2>2, <2>3, <2>4, LeaseChanges
  <2> QED BY <1>8, <1>s, <2>5, <2>6 DEF Remove
<1>9. ASSUME NEW p \in Callers, Crash(p) PROVE IInv'
  <2> DEFINE c == Idle(call[p].owner)
  <2>1. call[p] \in CallSet
    BY <1>t
  <2>2. c \in CallSet /\ c.pc = "idle"
    BY <2>1, IdleIsTyped DEF CallSet
  <2>3. c.pc \notin Inside /\ c.pc \notin {"waiting", "checking", "writing"}
    BY <2>2 DEF Inside
  <2>4. UNCHANGED <<guard, leases, process, taker>> /\ call' = [call EXCEPT ![p] = c]
    BY <1>9 DEF Crash
  <2>5. ~guard' => \A q \in Callers \ {p} : call[q].pc \notin Inside
    BY <2>4 DEF IInv, OneBehindTheGuard
  <2> HIDE DEF c
  <2>6. Settled
    BY <1>t, <2>2, <2>3, <2>4, <2>5, CallChanges
  <2>7. crashes' \in 0..MaxCrashes
    BY <1>9, <1>t, BoundsAssumption DEF Crash
  <2> QED BY <1>t, <2>4, <2>6, <2>7 DEF IInv, TypeOK, CallSet
<1>10. ASSUME GuardCleared PROVE IInv'
  BY <1>10, <1>t DEF GuardCleared, Fresh, IInv, TypeOK, OneBehindTheGuard, NoConflictingLeases,
                     AsksForSomething, Asks, WaitsUncompared, Compared, MergedWithPrior
<1>11. ASSUME NEW o \in Owners, ProcessIdReused(o) \/ \E st \in {"zombie", "gone"} : ProcessMoves(o, st)
       PROVE  IInv'
  <2>1. UNCHANGED <<guard, leases, call, taker, crashes>>
    BY <1>11 DEF ProcessIdReused, ProcessMoves
  <2>2. process' \in [Owners -> [start : Nat \ {0}, state : {"running", "zombie", "gone"}]]
    <3>1. CASE ProcessIdReused(o)
      <4>1. process[o].start + 1 \in Nat \ {0}
        BY <1>t
      <4> QED BY <3>1, <4>1, <1>t DEF ProcessIdReused
    <3>2. CASE \E st \in {"zombie", "gone"} : ProcessMoves(o, st)
      BY <3>2, <1>t DEF ProcessMoves
    <3> QED BY <1>11, <3>1, <3>2
  <2> QED BY <2>1, <2>2 DEF IInv, TypeOK, OneBehindTheGuard, NoConflictingLeases,
                            AsksForSomething, Asks, WaitsUncompared, Compared, MergedWithPrior
<1>12. CASE UNCHANGED vars
  BY <1>12 DEF vars, IInv, TypeOK, OneBehindTheGuard, NoConflictingLeases,
               AsksForSomething, Asks, WaitsUncompared, Compared, MergedWithPrior
<1>13. CASE Next
  <2>1. ASSUME NEW p \in Callers, NEW o \in Owners, NEW w \in Requests, CallStarts(p, "acquire", o, w)
        PROVE  IInv'
    BY <1>1, <2>1 DEF Requests
  <2>2. ASSUME NEW p \in Callers, NEW o \in Owners, CallStarts(p, "release", o, Nothing)
        PROVE  IInv'
    BY <1>1, <2>2, NothingIsTyped
  <2> QED BY <1>13, <2>1, <2>2, <1>2, <1>3, <1>4, <1>5, <1>6, <1>7, <1>8, <1>9, <1>10, <1>11 DEF Next
<1> QED BY <1>12, <1>13

----------------------------------------------------------------------------
(* The theorems.                                                           *)

\* Nothing the script does, and no kill, breaks the invariant.
THEOREM Invariant == Spec => []IInv
BY InitInv, NextInv, PTL DEF Spec

\* The files, the guard and the calls keep their types, and a caller about to
\* publish has compared its request with every other lease.
THEOREM TypeCorrect == Spec => []TypeOK
BY Invariant, PTL DEF IInv

\* The guard directory admits one caller at a time (mkdir in withRegistryGuard).
THEOREM GuardIsExclusive == Spec => []OneBehindTheGuard
BY Invariant, PTL DEF IInv

\* No two leases of different owners hold conflicting modes of one resource
\* (resourcesConflict in acquireLease), wherever callers were killed.
THEOREM LeasesNeverConflict == Spec => []NoConflictingLeases
BY Invariant, PTL DEF IInv

----------------------------------------------------------------------------
(* The capture gate.                                                       *)

\* The file of a lease names the process that took it.
FileNamesTheTaker == \A o \in Owners : leases[o].start = taker[o]

LEMMA FileNamesTheTakerStays ==
    ASSUME TypeOK, FileNamesTheTaker, [Next]_vars
    PROVE  FileNamesTheTaker'
<1>1. CASE UNCHANGED <<leases, taker>>
  BY <1>1 DEF FileNamesTheTaker
<1>2. ASSUME NEW p \in Callers, Publish(p) PROVE FileNamesTheTaker'
  <2>1. PICK o : o = call[p].owner
    OBVIOUS
  <2>2. PICK w : w = call[p].want
    OBVIOUS
  <2>3. leases' = [leases EXCEPT ![o] = [resources |-> w, start |-> StartIdentity(o)]]
    BY <1>2, <2>1, <2>2 DEF Publish
  <2>4. taker' = [taker EXCEPT ![o] = IF leases[o] # NoLease THEN taker[o] ELSE ProcessIdentity(o)]
    BY <1>2, <2>1 DEF Publish
  <2>5. ASSUME NEW q \in Owners PROVE leases'[q].start = taker'[q]
    BY <2>3, <2>4 DEF TypeOK, FileNamesTheTaker, StartIdentity
  <2> QED BY <2>5 DEF FileNamesTheTaker
<1>3. ASSUME NEW p \in Callers, Remove(p) PROVE FileNamesTheTaker'
  <2>1. PICK o : o = call[p].owner
    OBVIOUS
  <2>2. leases' = [leases EXCEPT ![o] = NoLease] /\ taker' = [taker EXCEPT ![o] = 0]
    BY <1>3, <2>1 DEF Remove
  <2> QED BY <2>2 DEF TypeOK, FileNamesTheTaker, NoLease
<1>4. CASE UNCHANGED vars
  BY <1>1, <1>4 DEF vars
<1>5. CASE Next
  BY <1>1, <1>2, <1>3, <1>5 DEF Next, CallStarts, TakeGuard, Busy, Leave, Check, ReadPrior, Crash, GuardCleared,
                                ProcessIdReused, ProcessMoves
<1> QED BY <1>4, <1>5

\* The capture gate passes only for the process that took the lease
\* (assertLiveLease), however often its id is given away.
THEOREM GateMeansTheTaker == Spec => []LiveGateMeansTheTaker
<1>1. Init => FileNamesTheTaker
  BY DEF Init, FileNamesTheTaker, NoLease
<1>2. IInv /\ FileNamesTheTaker /\ [Next]_vars => FileNamesTheTaker'
  BY FileNamesTheTakerStays DEF IInv
<1>3. FileNamesTheTaker => LiveGateMeansTheTaker
  BY DEF FileNamesTheTaker, LiveGateMeansTheTaker, GatePasses
<1> QED BY <1>1, <1>2, <1>3, Invariant, PTL DEF Spec

----------------------------------------------------------------------------
(* The refinement.                                                         *)

Held == [o \in Owners |-> leases[o].resources]

LEMMA InitRefines == Init => Table!Init
BY DEF Init, Table!Init, NoLease, Nothing, Table!Nothing

\* What is published is what the table takes for the same request.
LEMMA NextRefines ==
    ASSUME IInv, [Next]_vars
    PROVE  [Table!Next]_Held
<1>t. /\ call \in [Callers -> CallSet]
      /\ leases \in [Owners -> [resources : [Names -> Modes], start : Nat]]
  BY DEF IInv, TypeOK, CallSet
<1>1. ASSUME NEW p \in Callers, NEW me \in Owners, NEW want \in [Names -> Modes],
             me = call[p].owner, want = call[p].want, Publish(p)
      PROVE  Table!Next
  <2>1. call[p].pc = "writing" /\ want \in Requests /\ call[p].seen = Owners
    BY <1>1, <1>t DEF Publish, CallSet, IInv, TypeOK, AsksForSomething, Asks
  <2>2. want \in Table!Requests
    BY <2>1 DEF Requests, Table!Requests, Modes, Table!Modes, Nothing, Table!Nothing
  <2>3. \A q \in Owners \ {me} : Table!Compatible(Held[q], want)
    BY <1>1, <2>1 DEF IInv, Compared, Apart, ResourcesConflict, Held, Table!Compatible, Table!Conflict
  <2>4. Table!Merge(Held[me], want) = CanonicalResources(leases[me].resources, want)
    BY <2>1 DEF Held, Table!Merge, Table!Stronger, CanonicalResources, Merged
  <2>5. Table!Merge(Held[me], want) = want
    BY <1>1, <2>1, <2>4 DEF IInv, MergedWithPrior
  <2>6. leases' = [leases EXCEPT ![me] = [resources |-> want, start |-> StartIdentity(me)]]
    BY <1>1 DEF Publish
  <2>7. Held' = [Held EXCEPT ![me] = want]
    BY <1>t, <2>1, <2>6 DEF Held
  <2>8. Table!Acquire(me, want)
    BY <2>1, <2>3, <2>5, <2>7 DEF Table!Acquire, Held
  <2> QED BY <2>1, <2>2, <2>8 DEF Table!Next
<1>2. ASSUME NEW p \in Callers, NEW me \in Owners, me = call[p].owner, Remove(p)
      PROVE  [Table!Next]_Held
  <2>1. leases' = [leases EXCEPT ![me] = NoLease]
    BY <1>2 DEF Remove
  <2>2. Held' = [Held EXCEPT ![me] = Nothing]
    BY <1>t, <2>1 DEF Held, NoLease
  <2>3. CASE Held[me] = Nothing
    BY <2>1, <2>2, <2>3 DEF Held
  <2>4. CASE Held[me] # Nothing
    <3>1. Table!Release(me)
      BY <2>1, <2>2, <2>4 DEF Table!Release, Held, Nothing, Table!Nothing
    <3> QED BY <2>1, <3>1 DEF Table!Next
  <2> QED BY <2>3, <2>4
<1>3. ASSUME UNCHANGED leases PROVE Held' = Held
  BY <1>3 DEF Held
<1>4. CASE UNCHANGED leases
  BY <1>3, <1>4
<1>5. CASE Next /\ ~UNCHANGED leases
  <2>1. \E p \in Callers : Publish(p) \/ Remove(p)
    BY <1>5 DEF Next, CallStarts, TakeGuard, Busy, Leave, Check, ReadPrior, Crash, GuardCleared,
                ProcessIdReused, ProcessMoves
  <2>2. ASSUME NEW p \in Callers
        PROVE  call[p].owner \in Owners /\ call[p].want \in [Names -> Modes]
    BY <1>t DEF CallSet
  <2> QED BY <1>1, <1>2, <2>1, <2>2
<1>6. CASE UNCHANGED vars
  BY <1>4, <1>6 DEF vars
<1> QED BY <1>4, <1>5, <1>6

\* The registry implements the table: every acquire takes its whole request and
\* keeps what the owner had, or takes nothing.
THEOREM ImplementsTable == Spec => ImplementsLeaseTable
<1>1. Init => Table!Init
  BY InitRefines
<1>2. IInv /\ [Next]_vars => [Table!Next]_Held
  BY NextRefines
<1> QED BY <1>1, <1>2, Invariant, PTL DEF Spec, ImplementsLeaseTable, Table!Spec, Held
=============================================================================
