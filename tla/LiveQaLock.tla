----------------------------- MODULE LiveQaLock -----------------------------
(***************************************************************************)
(* The lease registry of the live-QA scripts (live-qa-lock.mjs): one file  *)
(* per lease in a directory, and a guard directory that a caller makes     *)
(* before it reads and changes the files and removes afterwards.           *)
(*                                                                         *)
(* A lease belongs to an owner and a process id; a caller may act for any  *)
(* lease (the command line passes both), several callers for the same one. *)
(* Callers may be killed between any two file operations; a guard left     *)
(* behind keeps the registry busy until someone removes it by hand. The    *)
(* process a lease names may die and its id be given to another process.   *)
(***************************************************************************)
EXTENDS Naturals, FiniteSets

CONSTANTS Callers,     \* processes that run the script
          Owners,      \* leases: pairs of an owner and a process id
          Names,       \* resources
          MaxCrashes,  \* bound: callers killed
          MaxStarts    \* bound: processes that get one process id

ASSUME BoundsAssumption == MaxCrashes \in Nat /\ MaxStarts \in Nat \ {0}

VARIABLES guard,    \* whether the guard directory exists
          leases,   \* [Owners -> lease]: what the lease's file says
          call,     \* [Callers -> call]: where each caller is
          process,  \* [Owners -> process]: the process that has the lease's id
          taker,    \* [Owners -> Nat]: history, the process that took the lease
          crashes
vars == <<guard, leases, call, process, taker, crashes>>

Modes == {"none", "shared", "exclusive"}
Nothing == [n \in Names |-> "none"]
Requests == [Names -> Modes] \ {Nothing}
NoLease == [resources |-> Nothing, start |-> 0]
Idle(o) == [pc |-> "idle", op |-> "acquire", owner |-> o, want |-> Nothing, seen |-> {}]

Inside == {"checking", "writing", "removing", "leaving"}
Pcs == {"idle", "waiting"} \cup Inside

Init ==
    /\ guard = FALSE
    /\ leases = [o \in Owners |-> NoLease]
    /\ call \in [Callers -> {Idle(o) : o \in Owners}]
    /\ process = [o \in Owners |-> [start |-> 1, state |-> "running"]]
    /\ taker = [o \in Owners |-> 0]
    /\ crashes = 0

Fresh == UNCHANGED <<process, crashes>>

----------------------------------------------------------------------------
(* A call and its guard.                                                   *)

CallStarts(p, op, o, want) ==
    /\ call[p].pc = "idle"
    /\ call' = [call EXCEPT ![p] = [pc |-> "waiting", op |-> op, owner |-> o, want |-> want, seen |-> {o}]]
    /\ UNCHANGED <<guard, leases, taker>> /\ Fresh

\* mkdir of the guard succeeds for one caller only.
Entered(c) == [c EXCEPT !.pc = IF c.op = "acquire" THEN "checking" ELSE "removing"]
TakeGuard(p) ==
    /\ call[p].pc = "waiting" /\ ~guard
    /\ guard' = TRUE
    /\ call' = [call EXCEPT ![p] = Entered(@)]
    /\ UNCHANGED <<leases, taker>> /\ Fresh

\* The deadline passes while the guard exists: the call fails. BusyForever
\* tries again without end.
BusyForever(p) ==
    /\ call[p].pc = "waiting" /\ guard
    /\ UNCHANGED vars
Busy(p) ==
    /\ call[p].pc = "waiting" /\ guard
    /\ call' = [call EXCEPT ![p] = Idle(@.owner)]
    /\ UNCHANGED <<guard, leases, taker>> /\ Fresh

\* The finally block: the guard goes whatever the action did.
Leave(p) ==
    /\ call[p].pc = "leaving"
    /\ guard' = FALSE
    /\ call' = [call EXCEPT ![p] = Idle(@.owner)]
    /\ UNCHANGED <<leases, taker>> /\ Fresh

----------------------------------------------------------------------------
(* acquireLease under the guard.                                           *)

ResourcesConflict(have, want) ==
    (have = "exclusive" /\ want # "none") \/ (want = "exclusive" /\ have # "none")

\* One lease file of another owner is read and compared.
Check(p, o) ==
    LET c == call[p]
        clash == \E n \in Names : ResourcesConflict(leases[o].resources[n], c.want[n])
    IN  /\ c.pc = "checking" /\ o \notin c.seen
        /\ call' = [call EXCEPT ![p] = IF clash THEN [c EXCEPT !.pc = "leaving"]
                                       ELSE [c EXCEPT !.seen = @ \cup {o}]]
        /\ UNCHANGED <<guard, leases, taker>> /\ Fresh

\* MergedLatest lets a later shared request lower an exclusive one.
MergedLatest(have, want) == IF want = "none" THEN have ELSE want
Merged(have, want) == IF have = "none" \/ want = "exclusive" THEN want ELSE have
CanonicalResources(have, want) == [n \in Names |-> Merged(have[n], want[n])]

\* The lease's own file is read and merged with the request.
ReadPrior(p) ==
    LET c == call[p]
    IN  /\ c.pc = "checking" /\ c.seen = Owners
        /\ call' = [call EXCEPT ![p] = [c EXCEPT !.pc = "writing",
                        !.want = CanonicalResources(leases[c.owner].resources, c.want)]]
        /\ UNCHANGED <<guard, leases, taker>> /\ Fresh

ProcessIdentity(o) == IF process[o].state = "gone" THEN 0 ELSE process[o].start

\* The new file replaces the old one by a rename; a lease that existed keeps
\* the identity it was taken with. StartIdentityRefreshed reads it anew.
StartIdentityRefreshed(o) == ProcessIdentity(o)
StartIdentity(o) == IF leases[o] # NoLease THEN leases[o].start ELSE ProcessIdentity(o)
Publish(p) ==
    LET c == call[p]
    IN  /\ c.pc = "writing"
        /\ leases' = [leases EXCEPT ![c.owner] = [resources |-> c.want, start |-> StartIdentity(c.owner)]]
        /\ taker' = [taker EXCEPT ![c.owner] = IF leases[c.owner] # NoLease THEN @ ELSE ProcessIdentity(c.owner)]
        /\ call' = [call EXCEPT ![p].pc = "leaving"]
        /\ UNCHANGED <<guard>> /\ Fresh

(* releaseLease under the guard: the file is removed, if there is one.     *)
Remove(p) ==
    LET o == call[p].owner
    IN  /\ call[p].pc = "removing"
        /\ leases' = [leases EXCEPT ![o] = NoLease]
        /\ taker' = [taker EXCEPT ![o] = 0]
        /\ call' = [call EXCEPT ![p].pc = "leaving"]
        /\ UNCHANGED <<guard>> /\ Fresh

----------------------------------------------------------------------------
(* Surroundings.                                                           *)

Crash(p) ==
    /\ call[p].pc # "idle" /\ crashes < MaxCrashes
    /\ call' = [call EXCEPT ![p] = Idle(@.owner)]
    /\ crashes' = crashes + 1
    /\ UNCHANGED <<guard, leases, process, taker>>

\* Someone removes a guard that no caller is behind.
GuardCleared ==
    /\ guard /\ \A p \in Callers : call[p].pc \notin Inside
    /\ guard' = FALSE
    /\ UNCHANGED <<leases, call, taker>> /\ Fresh

ProcessMoves(o, st) ==
    /\ \/ process[o].state = "running" /\ st \in {"zombie", "gone"}
       \/ process[o].state = "zombie" /\ st = "gone"
    /\ process' = [process EXCEPT ![o].state = st]
    /\ UNCHANGED <<guard, leases, call, taker, crashes>>
ProcessIdReused(o) ==
    /\ process[o].state = "gone" /\ process[o].start < MaxStarts
    /\ process' = [process EXCEPT ![o] = [start |-> @.start + 1, state |-> "running"]]
    /\ UNCHANGED <<guard, leases, call, taker, crashes>>

Next ==
    \/ \E p \in Callers : \/ \E o \in Owners, w \in Requests : CallStarts(p, "acquire", o, w)
                          \/ \E o \in Owners : CallStarts(p, "release", o, Nothing)
                          \/ TakeGuard(p) \/ Busy(p) \/ Leave(p)
                          \/ \E o \in Owners : Check(p, o)
                          \/ ReadPrior(p) \/ Publish(p) \/ Remove(p) \/ Crash(p)
    \/ GuardCleared
    \/ \E o \in Owners : ProcessIdReused(o) \/ \E st \in {"zombie", "gone"} : ProcessMoves(o, st)

Spec == Init /\ [][Next]_vars

----------------------------------------------------------------------------
(* What must hold.                                                         *)

\* The types; a caller about to publish a lease has compared its request with
\* every other lease and asks for something.
TypeOK ==
    /\ guard \in BOOLEAN
    /\ leases \in [Owners -> [resources : [Names -> Modes], start : Nat]]
    /\ call \in [Callers -> [pc : Pcs, op : {"acquire", "release"}, owner : Owners,
                             want : [Names -> Modes], seen : SUBSET Owners]]
    /\ \A p \in Callers : call[p].pc = "writing" => call[p].seen = Owners /\ call[p].want # Nothing
    /\ process \in [Owners -> [start : Nat \ {0}, state : {"running", "zombie", "gone"}]]
    /\ taker \in [Owners -> Nat]
    /\ crashes \in 0..MaxCrashes

\* At most one caller is behind the guard, and only while it exists.
OneBehindTheGuard ==
    \A p, q \in Callers : call[p].pc \in Inside => guard /\ (call[q].pc \in Inside => p = q)

\* Two leases never hold conflicting modes of one resource, whoever was killed
\* where, and whether or not the process a lease names still lives.
NoConflictingLeases ==
    \A o, q \in Owners : o # q =>
        \A n \in Names : ~ResourcesConflict(leases[o].resources[n], leases[q].resources[n])

\* The capture gate (assertLiveLease) passes only for the process that took
\* the lease, not for one that got its id later.
GatePasses(o) ==
    /\ leases[o].start # 0
    /\ process[o].state = "running" /\ process[o].start = leases[o].start
LiveGateMeansTheTaker == \A o \in Owners : GatePasses(o) => taker[o] = process[o].start

\* The registry is the table of leases: all of a request or nothing of it.
Table == INSTANCE LeaseTable WITH held <- [o \in Owners |-> leases[o].resources]
ImplementsLeaseTable == Table!Spec

----------------------------------------------------------------------------
(* Fairness: a caller that is not killed goes on running.                  *)

CallerRuns(p) ==
    /\ WF_vars(TakeGuard(p) \/ Busy(p)) /\ WF_vars(Leave(p))
    /\ WF_vars(ReadPrior(p) \/ \E o \in Owners : Check(p, o))
    /\ WF_vars(Publish(p)) /\ WF_vars(Remove(p))
LiveSpec == Spec /\ \A p \in Callers : CallerRuns(p)

\* Every call returns, also when another was killed behind the guard: the wait
\* has a deadline.
EveryCallReturns == \A p \in Callers : call[p].pc # "idle" ~> call[p].pc = "idle"
=============================================================================
