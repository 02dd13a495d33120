----------------------------- MODULE LeaseTable -----------------------------
(***************************************************************************)
(* What the live-QA lease registry promises: a table of leases in which an *)
(* owner takes all the resources it asks for in one step, or none of them, *)
(* keeps what it had, and two owners never hold conflicting modes of one   *)
(* resource. LiveQaLock implements it with files and a guard directory.    *)
(***************************************************************************)
CONSTANTS Owners, Names
VARIABLE held   \* [Owners -> [Names -> mode]]

Modes == {"none", "shared", "exclusive"}
Nothing == [n \in Names |-> "none"]
Requests == [Names -> Modes] \ {Nothing}

Conflict(a, b) == (a = "exclusive" /\ b # "none") \/ (b = "exclusive" /\ a # "none")
Compatible(f, g) == \A n \in Names : ~Conflict(f[n], g[n])
Stronger(a, b) == IF a = "none" \/ b = "exclusive" THEN b ELSE a
Merge(f, g) == [n \in Names |-> Stronger(f[n], g[n])]

Init == held = [o \in Owners |-> Nothing]

Acquire(o, want) ==
    /\ \A q \in Owners \ {o} : Compatible(held[q], want)
    /\ held' = [held EXCEPT ![o] = Merge(@, want)]

Release(o) ==
    /\ held[o] # Nothing
    /\ held' = [held EXCEPT ![o] = Nothing]

Next == \E o \in Owners : Release(o) \/ \E want \in Requests : Acquire(o, want)

Spec == Init /\ [][Next]_held
=============================================================================
