----------------------------- MODULE SessionLease -----------------------------
(***************************************************************************)
(* What the session registry promises: each access key is leased to at     *)
(* most one session at a time, a lease passes to another session only      *)
(* through a moment when the key is free, and a session whose lease is     *)
(* over never gets one again.  SessionRegistry implements it.              *)
(***************************************************************************)
CONSTANTS Keys, Sessions, None

VARIABLES
    holder,   \* key -> the session that has its lease, or None
    past      \* sessions that have, or had, or can no longer get a lease

vars == <<holder, past>>

Init ==
    /\ holder = [k \in Keys |-> None]
    /\ past = {}

Acquire(k, s) ==
    /\ holder[k] = None
    /\ s \notin past
    /\ holder' = [holder EXCEPT ![k] = s]
    /\ past' = past \cup {s}

\* The session has ended, or an administrator took the lease away.
Release(k) ==
    /\ holder[k] # None
    /\ holder' = [holder EXCEPT ![k] = None]
    /\ past' = past

\* The process stops: all leases end.
Reset ==
    /\ holder' = [k \in Keys |-> None]
    /\ past' \in {p \in SUBSET Sessions : past \subseteq p}

Next ==
    \/ \E k \in Keys, s \in Sessions : Acquire(k, s)
    \/ \E k \in Keys : Release(k)
    \/ Reset

Spec == Init /\ [][Next]_vars
=============================================================================
