----------------------------- MODULE Lifecycle -----------------------------
(***************************************************************************)
(* What TrueHeart promises about the life of events and memories, without  *)
(* tables, requests, retries or audit.  An event is unknown, then held,    *)
(* perhaps expired, and finally erased; a memory is derived from events    *)
(* that are on record, sealed and restored, and finally erased, at the     *)
(* latest together with the first of its events.  Nothing leaves "erased", *)
(* and what an erased memory was derived from cannot be used again for a   *)
(* memory of the same kind.                                                *)
(***************************************************************************)
CONSTANTS Scopes, Ids, Kinds

VARIABLES
    event,    \* the state of every event
    memory,   \* the state of every memory
    basis     \* kind and source events of every memory derived so far

vars == <<event, memory, basis>>

Entity == Scopes \X Ids
Basis == [kind: Kinds, sources: SUBSET Ids]
NoBasis == {}

OnRecord(e) == event[e] \in {"held", "expired"}
Live(m) == memory[m] \in {"active", "sealed"}

Init ==
    /\ event = [e \in Entity |-> "unknown"]
    /\ memory = [m \in Entity |-> "unknown"]
    /\ basis = [m \in Entity |-> NoBasis]

Hold(e) ==
    /\ event[e] = "unknown"
    /\ event' = [event EXCEPT ![e] = "held"]
    /\ UNCHANGED <<memory, basis>>

\* One sweep may expire events of several scopes.
Expire(events) ==
    /\ events # {}
    /\ \A e \in events : event[e] = "held"
    /\ event' = [e \in Entity |-> IF e \in events THEN "expired" ELSE event[e]]
    /\ UNCHANGED <<memory, basis>>

Derive(s, i, b) ==
    /\ memory[<<s, i>>] = "unknown"
    /\ b.sources # {}
    /\ \A e \in b.sources : OnRecord(<<s, e>>)
    /\ \A j \in Ids : memory[<<s, j>>] = "erased" => basis[<<s, j>>] # {b}
    /\ memory' = [memory EXCEPT ![<<s, i>>] = "active"]
    /\ basis' = [basis EXCEPT ![<<s, i>>] = {b}]
    /\ UNCHANGED event

Seal(m) ==
    /\ memory[m] = "active"
    /\ memory' = [memory EXCEPT ![m] = "sealed"]
    /\ UNCHANGED <<event, basis>>

Restore(m) ==
    /\ memory[m] = "sealed"
    /\ memory' = [memory EXCEPT ![m] = "active"]
    /\ UNCHANGED <<event, basis>>

EraseMemory(m) ==
    /\ Live(m)
    /\ memory' = [memory EXCEPT ![m] = "erased"]
    /\ UNCHANGED <<event, basis>>

\* An event takes every memory derived from it along.
EraseEvent(s, e) ==
    /\ OnRecord(<<s, e>>)
    /\ event' = [event EXCEPT ![<<s, e>>] = "erased"]
    /\ memory' = [m \in Entity |->
                    IF m[1] = s /\ Live(m) /\ \E b \in basis[m] : e \in b.sources
                    THEN "erased" ELSE memory[m]]
    /\ UNCHANGED basis

Next ==
    \/ \E e \in Entity : Hold(e)
    \/ \E events \in SUBSET Entity : Expire(events)
    \/ \E s \in Scopes, i \in Ids, b \in Basis : Derive(s, i, b)
    \/ \E m \in Entity : Seal(m) \/ Restore(m) \/ EraseMemory(m)
    \/ \E s \in Scopes, e \in Ids : EraseEvent(s, e)

Spec == Init /\ [][Next]_vars
=============================================================================
