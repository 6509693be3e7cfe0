------------------------------ MODULE RunLease ------------------------------
(***************************************************************************)
(* What the RUNNING record of a monitoring run promises: an exclusive      *)
(* lease on the target that outlives its owner and can be taken away only  *)
(* after it has been held for more than StaleAfter.  It is not a lock: an  *)
(* owner that is merely slow keeps working after its lease was taken.      *)
(* Runs are numbered in the order in which they are issued, 0 is "none".   *)
(***************************************************************************)
EXTENDS Integers

CONSTANTS Targets, Workers, StaleAfter

VARIABLES
    now,      \* wall clock
    issued,   \* how many runs were ever issued
    holder,   \* holder[t]: the run that holds the lease on t
    since,    \* since[t]: the start time that run was issued with
    busy      \* busy[w]: the run worker w is carrying out

vars == <<now, issued, holder, since, busy>>

Init ==
    /\ now \in Nat
    /\ issued = 0
    /\ holder = [t \in Targets |-> 0]
    /\ since = [t \in Targets |-> 0]
    /\ busy = [w \in Workers |-> 0]

Advance ==
    /\ now' = now + 1
    /\ UNCHANGED <<issued, holder, since, busy>>

\* A worker without a run takes a free lease under a run number never used.
Acquire(w, t) ==
    /\ busy[w] = 0
    /\ holder[t] = 0
    /\ issued' = issued + 1
    /\ holder' = [holder EXCEPT ![t] = issued + 1]
    /\ \E s \in 0..now : since' = [since EXCEPT ![t] = s]
    /\ busy' = [busy EXCEPT ![w] = issued + 1]
    /\ UNCHANGED now

\* A worker ends its run and gives the lease back if it still holds it.
Release(w) ==
    /\ busy[w] # 0
    /\ busy' = [busy EXCEPT ![w] = 0]
    /\ holder' = [t \in Targets |-> IF holder[t] = busy[w] THEN 0 ELSE holder[t]]
    /\ since' = [t \in Targets |-> IF holder[t] = busy[w] THEN 0 ELSE since[t]]
    /\ UNCHANGED <<now, issued>>

\* A worker dies: its lease, if it has one, stays.
Abandon(w) ==
    /\ busy[w] # 0
    /\ busy' = [busy EXCEPT ![w] = 0]
    /\ UNCHANGED <<now, issued, holder, since>>

\* Anybody takes a lease away once it is stale, whatever its owner is doing.
Evict(t) ==
    /\ holder[t] # 0
    /\ now - since[t] > StaleAfter
    /\ holder' = [holder EXCEPT ![t] = 0]
    /\ since' = [since EXCEPT ![t] = 0]
    /\ UNCHANGED <<now, issued, busy>>

Next ==
    \/ Advance
    \/ \E w \in Workers : Release(w) \/ Abandon(w)
    \/ \E w \in Workers, t \in Targets : Acquire(w, t)
    \/ \E t \in Targets : Evict(t)

Spec == Init /\ [][Next]_vars
=============================================================================
